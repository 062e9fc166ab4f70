# A TLA+ model of bux

bux runs sandboxes as micro-VMs (libkrun): an embeddable runtime (`crates/bux`)
used by a CLI and by an HTTP worker (`crates/bux-serve`), one shim process per
VM, an agent inside each guest, a SQLite state database, qcow2 overlays, an OCI
image store, and a network proxy (Rust over a Go bridge). This directory models
the parts where order matters: who runs a VM, what is on disk and in the tables
when tasks overlap, fail, are cancelled, or when a process dies; and the
algorithms whose results other parts trust without a check. Paths below are
relative to `src/`.

## 1. The system

| Part | State | Operations | Who else touches it |
|---|---|---|---|
| Runtime and `Vm` handles (`crates/bux/src/runtime`) | a handle caches the row (status, pid, config), may hold a keepalive pipe | create, start, stop, kill, wait, get, list, remove, clone, restore | sweep, recovery, other handles on the same VM |
| Launch (`runtime/boot`, `bux-jail`, `bux-shim`) | files of a VM id, secrets in memory, the layers around the shim | prepare, overlay, secrets, network, fork, insert, abort | the shim itself, a dying parent |
| Recovery and idle policy (`recover.rs`, `lifecycle.rs`) | rows copied at the start of a loop | recover at open, sweep every 30 s, shutdown at drop | handlers |
| State database (`state/db.rs`) | tables vms, snapshots, base_disks, volumes, vm_volumes | one statement at a time under a mutex; UPDATE of a missing row succeeds | everybody |
| Snapshots (`snapshot.rs`, `bux-serve/src/snapshots.rs`) | files, rows | quiesce, copy, thaw, insert; delete | guest agent, VM removal |
| Guest agent (`bux-guest`) | trust files, mounts, FROZEN_MOUNTS, jobs, the reaper's table | boot; Shutdown, Quiesce, Thaw; exec; file transfer | host client, job exits, power cuts |
| OCI store (`bux-oci`) | blobs, rootfs directories, staging paths, images/layers tables | pull, ensure, remove, extraction of layers | concurrent pulls and removals |
| Disks (`disk/mod.rs`, `bux-qcow2`, `bux-e2fs`) | base images, overlays | build a base, create an overlay, flatten a chain | concurrent creates |
| Payload store (`payload.rs`) | helper binaries shared by all processes of a user | resolve, fetch, swap under a file lock | other processes |
| Volumes and mounts (`volumes.rs`, `bux-jail`, guest `mounts.rs`) | volume rows and directories, virtio-fs devices | create, remove, resolve, link; share, mount | creates and deletes |
| HTTP worker (`bux-serve`) | limits; a socket name | get-or-create, start, delete, exec, clone, restore, images | its own concurrent and cancelled handlers, other workers |
| Command line (`bux-cli`) | a process that holds the runtime's lock | run, stop, restart, kill, rm, wait, prune, clone, exec | other commands |
| Network proxy (`bux-gvproxy`) | an instance per VM, its connections | create, DNS, route, inspect, substitute secrets | the guest |

What makes it hard: a handle acts on a *cached* row; axum drops a handler's
future at any await when the client goes away, but blocking threads run on; a
shim outlives its handle and, when detached, the runtime; nobody waits for a
shim unless a stop or wait does, so it becomes a zombie that `kill(pid, 0)`
still finds; most paths on disk are shared by name and without a lock; every
multi-step operation can be cut by a failure or a crash.

`PROJECT.json` lists all components and, under `hazards`, the places where
these behaviours bite, with the properties that cover each.

## 2. Modules

| Module | Models | State |
|---|---|---|
| `VmLifecycle` | runtime, handles, rows, shims, overlays, sockets, sweep, recovery, crash | several VMs and tasks |
| `VmContract` | what an embedder may rely on: a row's moves, the guests of a VM | abstract specification |
| `Launch` | `spawn_config`/`start_with`, the jail, the shim's `main`, a parent that dies | one VM |
| `Snapshot` | snapshot manager, guest freeze list, copy thread, rows, files | one VM, several snapshots |
| `ExecSession` | `ExecHandle`, framed stream, session loop, timeout killer, guard, job | one exec |
| `Reaper` | the only caller of `waitpid` in the guest against spawners | several children |
| `Worker` | HTTP handlers over vms, volumes, directories, images | several requests |
| `Listen` | the worker's socket and locks | several workers |
| `OciStore` | pull, remove, staging, ref counts, crash | several tasks, shared layers |
| `OciExtract` | layers applied to a rootfs: members, links, whiteouts | one tree |
| `Transfer` | uploads, downloads, archives over chunked streams | several transfers, one path |
| `GuestBoot` | the agent from PID 1 to listening | several boots of one disk |
| `Mounts` | requests for mounts, tags, what the jails grant, devices, guest mounts | one VM |
| `Cli` | commands as processes over shared VMs | several commands |
| `Payload` | the payload store | several processes |
| `BaseDisk` | building base images | several builders |
| `Qcow2` | chain reads, overlay headers, flatten, refcounts | one chain |
| `Seccomp` | compilation of the filter, and the kernel running it | one program |
| `Proxy` | an instance, DNS zones, TCP routes, connections | one VM |
| `Replacer` | substitution in a body read and delivered in pieces | one body |
| `GuestParts`, `HostParts`, `DataParts`, `OciLayers`, `VmMounts` | `Transfer` and `GuestBoot`; `Cli`, `Listen`, `Payload` and `BaseDisk`; `Qcow2` and `Seccomp`; `OciExtract`; `Mounts`: side by side, what is assumed of their constants and what each promises | theirs |
| `VmLifecycleProofs`, `SessionProofs`, `OciStoreProofs`, `WorkerProofs`, `GuestPartsProofs`, `HostPartsProofs`, `DataPartsProofs`, `ReachProofs` | – | theorems |
| `MC*` | – | constants for TLC |

`MCSessions` and `MCParts` put components that share no state side by side: a
variable `part`, chosen in `Init`, says which of them a behaviour is about, and
the others rest. Every behaviour of a component is one of the union, so an
invariant of the union is an invariant of each. `MCParts` extends `Proxy`,
`GuestParts`, `HostParts`, `DataParts`, `OciLayers` and `VmMounts`, which have the
components with theorems, and adds `Replacer`.

**VmLifecycle.** An *actor* is one task: a CLI command, an HTTP handler, or one
row of a list, sweep or recover loop. `task[a]` holds the point the task is at
and what it carries: the VM, the cached status `st` and pid `cp`, a shim `sp`
spawned but not yet in the row, the keepalive `ka`. Each action runs from one
database statement, await or thread switch to the next; unlinking files is
joined with the statement next to it. Points are named after the code:
`create_spawn` (SpawnAbort armed), `create_insert` (shim spawned), `create_ready`
(row inserted, waiting for the guest), `handle` (an idle handle), `start_spawn`,
`start_commit`, `start_ready`, `stop_rpc`, `stop_wait`, `wait`, `remove_files`,
`delete`, `swept`, `mark_delete`. A shim is `booting` until its listener binds
(`live`: it writes the disk), `killed` once signalled, `zombie` when it exited as
an unreaped child, `gone` at last. Under bubblewrap (`Jailed`) the pid the runtime
records and signals is bwrap's; a detached VM has neither `--die-with-parent` nor a
watchdog, so the guest of a signalled pid runs on, `adrift`. `sock[v]` is the shim whose inode is at the
path. `lost` and `cut` are history variables: what was between a spawn and its
row, or between files and their row, when the runtime died. `Drop` is both the
end of a handler and its cancellation. `Exclusive` says whether the embedder
keeps tasks on one VM apart; the code does not.

**VmContract.** Per VM a row (a status, or none), a flag that it is gone for
good, and the set of guests that run on its disk. A step moves a row as
`can_transition_to` allows, creates it once or deletes it for ever, or starts or
ends a guest. `ImplementsContract` instantiates it with the life cycle's rows,
`Retired` and `Guests`, and states that `VmLifecycle` implements it.

**Launch.** One launch, every step of which may fail on its own: overlay,
secrets, boot configuration, network, JSON, fork, row, readiness. `arts` is
what exists on disk, `layers` what confines the shim. The shim runs beside its
parent from the fork on, through network, machine, devices and seccomp to the
entered VM. The parent may die and be reopened at any point. A SIGKILL of a jailed shim's pid hits
bwrap; without `--die-with-parent` its child becomes a `ghost`. The child enters its
Landlock domain before the exec (`pre_exec.rs:36-45`), and no process in such a domain
may mount, so with both layers bwrap fails and the shim never starts (`Stacked`).

**Snapshot.** `Begin` (name check and the decision to quiesce), `Quiesce` in the
guest, the copy on its thread, `CopyReturns`, `Thaw`, `Insert`; `DeleteFile`,
`DeleteRow`; `Cancel` at an await, after which sent requests and a started copy
still take effect. `frozen` is the kernel's state, `list` is FROZEN_MOUNTS; a mount
that `freeze_filesystems` skips or cannot freeze is not in either. A VM that is
Stopping still runs and is copied without a quiesce. `hot` are the snapshots copied
with every mount frozen, `bare` those that were not though the guest ran.
`serial` (chosen in Init) is an embedder that finishes one snapshot before the
next.

**ExecSession, Reaper.** A frame travels in two pieces because `recv` awaits
length and body separately; a `select!` branch that wins drops the piece already
read. Pipes hold a bounded number of units, so a session that awaits a write to
stdin can block, and be blocked. A process of the job may leave its group
(`apart`), where `kill_job` does not reach it but its end of the pipes stays open. In `Reaper` a child may die before, during or
after the registration of its waiter; orphans are adopted.

**Worker, Listen.** A request is a slot with the point its handler is at; between
two statements any other request, a shim's exit or a restart of the worker may
step in. Names, volumes, attachments and directories are separate, as in the
tables. `Listen` has inodes under a name, so that a guard can tell its own socket
from a later one.

**OciStore, OciExtract.** A staging path is shared by all tasks, so its content
is the task that created it last until that task is done; a rename carries the
inode along. `RemoveFails` is the transaction rolled back by a foreign key after
some orphan files are gone. `OciExtract` applies members to a tree over a small
set of paths and compares it with what the layers mean, whatever the order of
members.

**Mounts.** Names are spelled as sequences of characters, because `sanitize_tag`
maps and cuts them; paths are sequences of components. What a jail grants is
computed from its own list: Landlock rules hold beneath a path, of bubblewrap's
mounts the last one over a path decides (`LastOver`, as for the mounts of the guest),
Seatbelt allows subtrees. A named volume called `.` is the volumes directory itself.

**BaseDisk.** Every step of a build may report an error; besides, the flush when a
filesystem is closed may fail, and `Drop for Filesystem` discards that error: the file
is then `lost`, with any content, and the build goes on.

**Proxy.** `handler` says whether the filter replaced the upstream TCP handler; when
`OverrideTCPHandler` fails the bridge logs it and serves with the upstream one
(`kept`). UDP goes to the upstream forwarder and is not modelled.

**Qcow2, Seccomp, Replacer.** Algorithms with the code's own geometry and small
parameters: cluster size, jump span, buffer size. Each is compared with a
reference definition: the disk the chain reads as, the clusters in use, the list
a program was compiled from, the body substituted as a whole.

The other modules are introduced by the comment at their head.

## 3. Runs

| Run | Result | Shows |
|---|---|---|
| `vm_exclusive` | pass, 632 thousand states | one task per VM: no stray guest, no disk with two writers, guests reachable, statuses move as `can_transition_to` says, the contract is implemented |
| `vm_shared` | pass, 110 thousand states | a handler and the sweep on the same VM: RowHasDisk, NoResurrection, and the liveness SweepSettles |
| `vm_double_start` | violation of StartOnlyStopped | two handles start one VM (`vm.rs:534`) |
| `vm_exited_listed` | violation of ExitedIsListed | zombies pass `is_pid_alive` (`boot/unix.rs:103`) |
| `vm_stop_returns` | violation of StopReturns | no timeout on the Shutdown request (`vm.rs:684`) |
| `snapshot_overlap` | violation of RunningNeverTorn | one Thaw ends both freezes (`control.rs:63`) |
| `oci_store` | pass, 2.2 million states | one task at a time: SerialWhole, SerialBlobsKept, through failures and crashes |
| `oci_shared_layer` | violation of RemoveRemoves | a cached layer is not counted (`lib.rs:135`, `store.rs:364`) |
| `sessions` | pass, 801 thousand states | snapshots, exec, reaper, launch: seven invariants and four liveness properties |
| `parts` | pass, 2.2 million states | the twelve components below, fourteen invariants |
| `worker` | pass, 557 thousand states | requests to one worker |
| `exec_desync` | violation of DisconnectKillsOnly | a dropped half frame ends in the kill of a job whose host is still there (`exec/mod.rs:131`) |

The six violations are the `findings` of `PROJECT.json`, each with the comment
it contradicts.

**What the properties except.** Where the code gives way, a property says by how
much, and names the case:

- *NoStrayShim*, *OneWriter*, *ImplementsContract*: shims spawned in a crash before
  their row (`lost`), and the `adrift` guests of detached VMs under bubblewrap.
- *SerialNeverTorn*: snapshots of a VM that is stopping, or one of whose mounts
  could not be frozen (`bare`). *RunningNeverTorn* speaks of those with all frozen.
- *JobEndsWithSession*: sessions that end before their guard exists (the send of
  ExecStarted fails). *OutputBeforeExit*: streams that have lost a half-read
  frame. *SessionEnds*: sessions with a timeout, whose processes stay in the group.
- *FailedCreateLeavesNothing*: what a crash left, and the ghost of a detached VM
  whose bwrap was killed. *EnteredAsConfigured*: on macOS the seatbelt is claimed
  only where `sandbox-exec` exists; with bubblewrap and Landlock together no VM is
  entered at all.
- *TransferWhole*, *NoEscape*: transfers that overlap at one path (`mixed`).
- *SocketKept*: a worker that starts between another's look at the name and its
  use (`crossed`). *BaseWhole*: concurrent builders, or an agent replaced during
  a build (`muddled`), or a flush that failed at close (`lost`).
  *PayloadStays*: as long as nobody but `ensure_blocking` touches the store. *WorkspaceKept*: a create and a remove of one volume that
  overlap inside VolumeManager (`raced`).
- *AdmissionSlack*: a limit may be exceeded by the requests in flight less one.
  *AnswerMatches*: requests that polled a Stopping sandbox.
  *ImageRemovedUnused*: relative to the rows seen at the check.
- *FlattenPreserves*: clusters with the zero flag, which `read_cluster` takes for
  unallocated. *RefcountsExact*: overlays whose L1 table fits one cluster.
- *LayerMeaning*: layers that contradict themselves (`unusual`).
- *FilterVerdict*: calls of the native architecture; lists shorter than a jump
  reaches.
- *MountsAsRequested*: a later mount over an earlier one; volumes whose names give
  one tag, or one volume asked for in two modes; a data directory under `/tmp` or
  `/dev/shm`, below bubblewrap's tmpfs; bubblewrap under Landlock.
- *NetAsConfigured*: connections after a failed `OverrideTCPHandler` (`kept`); UDP.
- *BootedAsConfigured*: what former boots added to the system's bundle stays in it.

**Bounds.** VmLifecycle: two VMs (one detached and jailed, one auto_remove), two shims, two
tasks, one of them the sweep; a start after a create needs two shims, a race
needs two tasks. The double start has three shims: one for the create, two for
the starts. Ids and pids run out, so behaviours end; the model never recycles a
pid. Snapshot: two snapshots, one name; one mount in `sessions`, two in
`snapshot_overlap` (the proofs cover any number). OciStore: two tasks, two
references, two manifests, one built on the other's layer, a tag that moves;
`MaxRefCount` = 2 keeps a layer from being committed a third time. ExecSession:
pipes, wire and output of one unit, the smallest at which every party can block.
Reaper: two sessions and an orphan. Worker: two requests, two tenants, limits the
two reach together; slots are reused, so requests go on for ever. Transfer: two
transfers of up to three chunks with limits of two and one. Listen: three workers
on two data directories, since the third is needed to take a name from the
second while the first ends. Payload, BaseDisk, Cli: two processes each. Qcow2: clusters of
16 bytes (two table entries, eight refcounts) and up to five of them, enough for
two refcount blocks. OciExtract: two layers of three members. Seccomp: jumps of
at most 5. Replacer: bodies of six bytes, reads of at most two into a buffer of
two, placeholders of three and four. Proxy: one connection, three hosts one
below the other. GuestBoot: three boots, so that a boot can follow a cut one that
followed a whole one. Mounts: two mounts, tags of three characters, names of
at most four.

Symmetry is used on shims in `vm_exclusive`, on tasks in `oci_store` and in
`worker`, which check no liveness. Deadlock is not checked where a component may
come to rest: `sessions`, `parts`, `exec_desync` and `snapshot_overlap`.

**Fairness.** VmLifecycle's `LiveSpec`: tasks that wait for nobody go on
(the scheduler and timers), a signalled process dies, a waiting thread reaps,
and clients keep listing; strong fairness on reading and terminating in
the sweep, because `sweep_loop` (`bux-serve/src/lib.rs:300`) ticks every 30 s
and idle time only grows. Nothing is assumed of the guest's answer, which is
what `StopReturns` turns on. `SweepSettles` and `ExitedIsListed` speak of a
runtime that from some time on stays up. Snapshot: copies end, the runtime polls
its futures, a running guest's agent answers. ExecSession: the agent's task is
polled, its timer fires, the host reads what arrives or hangs up, and the wire
delivers; nothing is assumed of the job. (A host that keeps its connection and never
reads can hold a session: the code has no timeout there.) Reaper: the drain task and the spawners are
scheduled. Launch: the watchdog thread of a shim is scheduled. All are weak
fairness except in the sweep.

**Refinement.** `ImplementsContract` is the refinement of `VmContract` by
`VmLifecycle`, a property of `vm_exclusive` and a theorem.

## 4. Proofs

For every number of VMs, shims and tasks (`VmLifecycleProofs`), from the assumptions that flags are
sets of VMs and that `NoPid`, `NoVm` are neither:

- `TypeCorrect`: `Spec => []TypeOK`. The inductive invariant `TypeInv` adds that
  a task that holds a handle has a real pid and VM (`HoldsPids`) and that a row
  has a pid; `DriftInv` that an adrift guest is one of a detached jailed VM whose
  recorded pid was signalled.
- `DiskCorrect`: `Spec => []RowHasDisk`. `DiskInv` adds that rows and tasks only
  know ids that were handed out (`RowsUsed`), that a task still creating a VM
  has it to itself, its overlay made and its row not (`DiskTask`), and that a
  task at its DELETE has removed the overlay.
- `NeverResurrected`: `Spec => NoResurrection`, from the same invariant: only
  CreateInsert makes a row, UPDATE never does.

With `Exclusive` (one task per VM at a time) as a hypothesis (`VmLifecycleProofs`):

- `NoShimIsStray`, `DiskHasOneWriter`, `GuestsReachable`: the safety invariants,
- `TransitionsHold`: the action property StatusTransitions,
- `KeepsContract`: `Spec => ImplementsContract`. Initial states map to initial
  states; under `IInv` each action maps to a step of the contract or to none. One
  lemma per kind of action says what it does to rows and guests.

They share the inductive invariant `IInv`. None of the properties is inductive
alone: a start is harmless only because the cached status still equals the row
(`TaskSync`), which needs that no other task works on that VM (`OneTaskPerVm`);
that the socket is the guest's (`Listens`) must be claimed for shims in flight
too, before their row is written; a shim whose overlay is already gone can
neither boot nor be known (`Known`). Guests adrift are no concern of `IInv`, which
speaks of recorded pids only: `DriftInv` says that they are all out of reach. Steps of one task touch one VM (`Local`,
`LocalWrite`), so most actions need only a `TaskSync` and a statement about that VM's shims
(`LocalStep`, `QuietStep`, `SettleStep`, `CommitStep`, `ClaimStep`); shims ending
and the runtime's own steps go through `EndsStep` and `ProcessEndsStep`.
`IInv` was checked with TLC on the instance of `vm_exclusive` before it was proved.

For every set of snapshots, names and mounts (`SessionProofs`):

- `FrozenIsTracked`, `RowsStayWhole`, `SerialIsNeverTorn`. The inductive invariant
  `SInv` is the types, FrozenTracked, what is stored for each point a snapshot
  may be at (`Stored`), that rows with explicit names differ in them
  (`NamesDiffer`), and for a serial embedder that all but one snapshot rest and
  every mount is frozen for as long as the copy lasts, or the snapshot is `bare`
  (`OneAtATime`).

For every exec session, and pipes of any size (`SessionProofs`):

- `JobsEnd`, `ExitAfterOutput`. The inductive invariant `XInv` is the types, that
  there is no job, open stream or output before the spawn (`Unspawned`), that a
  stream that ended is empty and has no writer (`EndedEmpty`), and that a session
  that has left its loop has killed the job and read its output, unless the host
  is gone or the stream was out of step (`KilledAndRead`). The last is needed one
  step early, at the point where only the exit is still to be sent.

For every configuration and kernel of a launch (`SessionProofs`):

- `FailedCreatesUndone`, `EntersAsConfigured`. The inductive invariant `LInv` is the
  types, what a launch may have done by the operation it belongs to (`Launched`), what
  each point of a create has on disk, in the secrets map and running before its row
  exists (`Undone`), and which layers a shim has by how far it has come (`Confined`).

`XInv` and `LInv` were checked with TLC before they were proved.

For every set of tasks, images, layers and manifests (`OciStoreProofs`), from
`ManifestAssumption`: a manifest lists a layer once, and references, digests,
layers and the markers of the model are told apart:

- `TypeCorrect`, `SerialWholeHolds`, `SerialBlobsKeptHolds`. Nothing is claimed of
  overlapping tasks (`oci_shared_layer` shows what they do to each other), so the
  inductive invariant is `TypeInv` and, for a serial embedder, `SerialInv`: at most one task is at
  work (`Alone`); what it has staged is its own and complete before the rename,
  and each layer the pull has passed is on disk (`TaskInv`); final paths hold
  nothing half-made and a listed image has its blobs, unless a crash cut its
  removal short (`Files`). The two properties are parts of `Files`; `TaskInv` is
  what makes a rename and an upsert preserve it, and `Alone` what keeps a removal
  from taking a blob a pull has counted on.

For every finite set of requests and ids, and any agents, tenants and caps
(`WorkerProofs`), from `WorkerAssumption`: each agent has a tenant, and the sandbox that is there from the start is within its cap:

- `TypeCorrect`, `OneSandboxHolds`, `WorkspaceKeptHolds`, `ImageRemovedUnusedHolds`,
  `AnswerMatchesHolds`. The inductive invariant `IInv` is the types with what a
  handler keeps in its own request (`Proper`), `Unique` rows per name, what a request
  still knows of rows it read before other requests wrote (`KnowsInv`: the row it
  inserted or starts is not blank, and if it is there, it has the name, tenant and
  specification the request saw), and that a volume has its directory unless
  creation and removal overlapped (`VolumeInv`). It is `KnowsInv` that makes a
  stale read harmless; it holds because ids are not reused, and name and
  specification never change after the insert.
- `AdmissionSlackHolds`. A row counts against the cap only at its insert, long after
  admission read the table, so the property is not inductive. `AdmissionInv` counts the
  rows a tenant has together with the requests admitted and not yet inserted
  (`Coming`): an insert moves one from the second to the first, an admission adds
  one below the cap or slips, and a slip has at most `Cardinality(Reqs) - 1`
  requests beside it.

Most handlers' steps are shown to make a request `Sound` (what the handler may make
of it), and one lemma (`SoundStep`) takes that to `IInv'`, to the action properties
and to no new admission. `StepCases` collects the actions. Both invariants were
checked with TLC on the instance of `worker` before they were proved.

For any number of transfers, and files of any length up to any `MaxChunks`
(`GuestPartsProofs`), from `TransferAssumption`: the label of a chunk is no message of the
protocol:

- `TransfersWhole`, `NothingEscapes`. The inductive invariant `TInv` has a part for
  each transfer and one for pairs. `Coherent` says how far the two ends of a connection may be
  apart: an ok or a Done is on its way or believed only after the guest has ended, and what
  the host has received together with the chunk on its way is what the guest has read.
  `Intact` says what a transfer finds that nobody disturbed: a copy in progress is a
  prefix of the temporary file, and what is reported done is whole. `Looked` says that
  no symlink has appeared in the way of the member being written since `jailed_join`
  looked. The last two hold only for transfers not in `mixed`, so `Apart` must
  say that two transfers that write, or write and read, the path at the same time are
  both in it.

For any number of boots and volumes (`GuestPartsProofs`):

- `BootsAsConfigured`. `GInv`: which trust files are those of this boot, by how far it has
  come (`Trusted`); in particular the bundle read and the bundle on disk agree until the
  CA is appended, whatever torn writes are in it.

For any number of commands and VMs, of workers, data directories and inodes, of
processes, attempts and builders (`HostPartsProofs`), where no marker (`Nobody`, the fates
of a shim, inode 0, the free lock) is a member of these sets:

- `SocketsKept`. `WInv`: sockets of different workers are different inodes
  (`BoundDiffer`), and a guard holds the inode of its own socket (`Owned`), so that
  finding this inode under the name means that nobody has taken it over.
- `AttachedRunsEnd`. `CInv`: a VM that runs attached belongs to the command that holds
  the lock, is the VM that command works on, is awaited, being stopped or about to be
  dropped, and has a row that the drop of the runtime looks for (`Minded`).
- `PayloadsStay`. `PInv`: who is past its check has the lock and fills an item that is not
  whole; what it is about to rename is whole (`Filling`). So a swap never takes away an
  item somebody was given.
- `BasesWhole`. `BInv`: what a thread has made of the temporary file at each stage
  (`Made`), one thread per key (`Alone`), and that files of different keys, and a base and the
  file in the making, are different inodes (`FilesDiffer`), so that a thread that
  truncates, writes or renames touches nothing finished. A `lost` file stays lost.

For any number of connections, any allow lists and secrets (`ReachProofs`), from
`ProxyAssumption`: a list has finitely many rules, and the host of a secret has a label:

- `NetworksAsConfigured`. `NInv`: what the stage of a connection says of its port, its
  host and the rules already consulted for it (`Routed`), since the property speaks of
  dialled connections and the decision was taken at the SYN or after the look at the
  host; that the filter is in place before the guest has a link (`Filtered`); and that a
  zone, in whatever order zones come, has records only of listed hosts (`ZonesFit`),
  from which the answer is right (`Answered`). The last rests on lemmas about names as
  sequences of labels: a record in the zone of a rule names the rule's host or one under
  its wildcard.

For clusters of at least eight bytes (one table entry) and disks of any size (`DataPartsProofs`, `Qcow2Assumption`):

- `FlattensFaithfully`, `RefcountsStayExact`. The inductive invariant `QInv` adds to the two
  properties what the copy loop has done when it comes to a cluster (`Copied`): the L2
  entries are those of the clusters before it that do not read as zeros, each points to a
  data cluster of its own with the right content, and the data clusters are exactly those
  from the end of the tables to the next free one. Two lemmas carry the rest: the table sizes that
  `DivCeil` gives cover their entries, and a number of refcount blocks that counts itself
  exists below the bound of its search (`RcBlocks`), which is found as a least element.

For jump fields of any width and any number of system calls (`DataPartsProofs`, `SeccompAssumption`):

- `FiltersAsListed`. `SInv`: the program has the form that `build` gives it (`Compiled`), and
  what the interpreter knows of a native call when it comes to an instruction (`Reading`): past the
  first comparisons, that the call is none of those; on the last instruction, that it is
  one of the list.

For any mounts, names, host directories and jails (`ReachProofs`, `MountsAssumption`: a data
directory is an absolute path, and no host directory that a bind found is at or below
the configuration file, which is written under a new name when the shim is spawned):

- `MountedAsRequested`. `MInv`: each resolved mount has the tag of its position or of its
  volume and lies apart from the configuration file (`Fits`), and devices and guest mounts
  follow the resolved ones in order, each guest mount showing the directory of some mount
  with its tag (`Followed`, `Given`). A tag that two mounts share is then one of the
  exceptions (`SameTag`). That no jail refuses the shim is a lemma for each jail; for
  bubblewrap it needs its mounts one by one (`BwrapList`) and which of them is the
  last over a path.

For any number of layers and members of each, over the five paths, one symlink and two hard links
of the model (`OciStoreProofs`), from no assumption:

- `LayersMeanTheirMembers`. The property speaks of a layer read to its end. `EInv` states
  it after every member (`Mean`), with what makes that so: the tree and the one
  below are well formed (nothing is below what is no directory), what this layer put and
  what is above it are in `unpacked`, which an opaque marker spares, and nothing was put
  below a file of the same layer.

`TInv`, `BInv`, `QInv`, `SInv`, `EInv` and `MInv` were checked with TLC too.

Only model-checked:

- liveness, which this prover does not reach;
- `StreamedAsWhole`: what `Replacer` computes is defined by recursion over a body, and
  needs an induction over it.

## 5. Other disagreements met while modelling

Beside the findings, read in the source, and left out of the properties above by
the exceptions named there:

- `bux-seccomp/src/filter.rs`: the jump for a wrong architecture lands on the
  instruction that allows, while the comments (lines 8, 26–28) say it is killed.
- `gvproxy-bridge/mitm_proxy.go`: a comment says that Serve returns when the
  connection closes; nothing closes its listener, so a goroutine stays for each
  inspected HTTP/1.1 connection.
- `gvproxy-bridge/dns_filter.go`: zones come from a map, in random order, and the
  first suffix that matches answers, so a deeper allowed host may be hidden.
- `gvproxy-bridge/forked_tcp.go`: with any secret, port 443 is always inspected
  and its host decides; rules by address are not consulted.
- The CLI gives a secret without hosts the pattern `*`, which matches no host.
- `gvproxy-bridge/mitm_replacer.go`: a placeholder whose name holds `<` may be
  cut; an empty value makes a read return nothing without an end.
- `snapshot.rs:3-4, 156` and `mounts.rs:187, 211, 217-224`: a snapshot of a running VM is said
  to fail closed, but `freeze_filesystems` skips mounts it cannot freeze, reports the
  rest, and zero frozen mounts pass; and a Stopping VM is copied without a quiesce.
- `recover.rs:174-190`: terminate_pid takes the end of bwrap for the end of a detached VM.
- `security.rs:23-24` turns the jailer and Landlock on together on Linux, where bwrap
  cannot mount inside the domain it was started in.
- `forked_network.go:40-42`, `main.go:405-407`: the network is served unfiltered when the
  TCP handler cannot be replaced; an allow list never applies to UDP.
- `ext4.rs:138`: an image whose last flush failed is taken as built.
- `volumes.rs:296-316`: `.` is a valid volume name, whose directory is that of all volumes.
- `exec/mod.rs:248-256`: the timeout kills a group; a process with a session of its own keeps
  the pipes, and with them the exec, open.
- macOS without `sandbox-exec`: the bare shim runs though a jail was asked for.
- The reference counts of base disks are never raised outside tests, so
  `Runtime::gc` removes nothing.
- `volumes.rs`: names that differ only in `.` and `_`, or past 32 characters, give
  one virtio-fs tag.
- `bwrap.rs`: the backing chain (`readonly_paths`) is not bound, so a data
  directory under `/tmp` is hidden by the tmpfs there.
- `touch_activity` and `set_auto_stop_secs` write back a cached config.

## 6. Not modelled

- The config column (idle clock, security status). Expiry is a choice of the sweep.
- VMs without an overlay in `VmLifecycle`; recycled pids; a database whose DELETE
  or second UPDATE fails too; rename, reset, gc and the base_disks table.
- `Runtime` dropped while handles are still alive: `Shutdown` waits for them.
- An extraction thread that outlives its cancelled pull.
- A clone of a running VM reads its overlay without a quiesce: `Qcow2` flattens a
  chain at rest.
- Network and ioctl rights of Landlock; the search for a bwrap binary.
- Errors of `remove_vm_disk`, which the callers ignore (`runtime/vm.rs:919`): a disk
  that cannot be deleted stays.
- A watchdog thread that cannot be spawned: the shim prints that and goes on
  unwatched (`watchdog.rs:48-73`). *OrphanEnds* speaks of one that could.
- A source of `Replacer` that returns nothing and no error; an opaque marker reached
  through a symlink in `OciExtract`.
- The installer, which swaps the payload directory without the lock (`install.sh:494-508`).
- The probe for a free host port; websockets and statistics of the proxy; the
  network stack itself.
- Metrics, events, logs, authentication, the OpenAPI text, read-only endpoints,
  parsing and printing, `bux upgrade`, key minting, registry traffic, the libkrun
  and e2fsprogs bindings: data, pure I/O, or one foreign call each.
