------------------------------- MODULE Launch -------------------------------
(***************************************************************************)
(* How a VM process comes up: spawn_config (create) and start_with         *)
(* (restart) of crates/bux, the jail that forks the shim, and the shim's   *)
(* own main up to krun_start_enter.  VmLifecycle treats all of this as one *)
(* step; here every step may fail on its own, the shim runs concurrently   *)
(* with the parent, and the parent may die at any point and be reopened.   *)
(*                                                                         *)
(* One VM.  "arts" is what exists on disk for its id; "held" is the entry  *)
(* of the in-memory secrets map; "carried" says whether the current launch *)
(* passes secrets to the shim; "required" is config.secrets_required as    *)
(* the row has it.  A SIGKILL of the recorded pid hits bwrap when the shim *)
(* is jailed: bwrap takes its child with it only under --die-with-parent,  *)
(* otherwise the child lives on as a "ghost" nobody has a pid for.         *)
(***************************************************************************)
EXTENDS Naturals, FiniteSets

VARIABLES
  lcfg,      \* the VmConfig fields that decide the launch
  kern,      \* the host: its system, and what of virtualization, Landlock and
             \* a sandbox program (the bwrap payload, sandbox-exec) it offers
  parent,    \* the process with the Runtime: "up" or "dead"
  lop, lpc,  \* the launch in progress (create / start) and its next step
  arts,      \* files of this VM id
  row,       \* its row in the state database
  held, carried, required,
  keep,      \* the parent holds the write end of the watchdog pipe
  shim,      \* progress of the shim process
  layers,    \* what confines or watches the shim
  ghost,     \* a shim runs that the recorded pid does not reach
  strayed    \* history: the parent died during a create, or a ghost ran

lvars == <<lcfg, kern, parent, lop, lpc, arts, row, held, carried, required,
           keep, shim, layers, ghost, strayed>>
shimvars == <<shim, layers, ghost>>
secretvars == <<held, carried, required>>
fixed == <<lcfg, kern, parent, lop>>

Config == [detach : BOOLEAN, jailer : BOOLEAN, net : BOOLEAN,
           secrets : BOOLEAN, landlock : {"off", "required", "degradable"}]
\* HostCapabilities, as far as a launch depends on them, and the sandbox program.
Host == {h \in [os : {"linux", "macos"}, virt : BOOLEAN, landlock : BOOLEAN, wrapper : BOOLEAN] :
           h.os = "macos" => ~h.landlock}

\* The logs {id}.stderr and {id}.exit are left out.
Artefacts == {"tmp", "overlay", "json", "sock", "net"}
Steps == {"idle", "prepare", "overlay", "secrets", "boot", "json", "files",
          "fork", "commit", "ready"}
Progress == {"none", "main", "run", "net", "machine", "device", "prepared", "sealed",
             "vm", "dead"}
NoConfig == [detach |-> FALSE, jailer |-> FALSE, net |-> FALSE,
             secrets |-> FALSE, landlock |-> "off"]

Init ==
  /\ lcfg = NoConfig /\ kern = [os |-> "linux", virt |-> FALSE, landlock |-> FALSE, wrapper |-> FALSE]
  /\ parent = "up" /\ lop = "none" /\ lpc = "idle"
  /\ arts = {} /\ row = "none"
  /\ held = FALSE /\ carried = FALSE /\ required = FALSE /\ keep = FALSE
  /\ shim = "none" /\ layers = {} /\ ghost = FALSE /\ strayed = FALSE

\* is_pid_alive
Alive == shim \notin {"none", "dead"}

-----------------------------------------------------------------------------
(* Killing and cleaning up. *)

\* bwrap runs its child with --die-with-parent, or the child outlives it.
OutlivesBwrap == Alive /\ "bwrap" \in layers /\ "pdeath" \notin layers

\* SIGKILL of the pid the runtime knows (the shim, or bwrap around it).
SigKill ==
  /\ shim' = IF Alive THEN "dead" ELSE shim
  /\ ghost' = (ghost \/ OutlivesBwrap)
  /\ strayed' = (strayed \/ ghost')
  /\ UNCHANGED layers

CleanUnready == arts \ {"sock", "json", "net"}   \* clean_unready_files
CleanStopped == arts \ {"sock", "net"}           \* clean_vsock_sock, clean_net_sock
CleanAll == arts \cap {"overlay", "tmp"}         \* clean_vm_files

\* Mutation: the entry of the secrets map stays.
AbortKeepingSecrets ==
  /\ SigKill
  /\ arts' = CleanUnready \ {"overlay"}
  /\ row' = "none" /\ keep' = FALSE /\ lpc' = "idle"
  /\ UNCHANGED <<held, carried, required>>

\* abort_partial_spawn and abort_unready undo the same things.
Abort ==
  /\ SigKill
  /\ arts' = CleanUnready \ {"overlay"}
  /\ held' = FALSE
  /\ row' = "none" /\ keep' = FALSE /\ lpc' = "idle"
  /\ UNCHANGED <<carried, required>>

\* An error return of a step; "left" is on disk when the guards are dropped.
\* create's SpawnAbort is armed once the overlay exists, start has none.
Fail(left) ==
  IF lop = "create" /\ lpc \notin {"prepare", "overlay"}
  THEN Abort
  ELSE /\ arts' = left
       /\ lpc' = "idle" /\ keep' = FALSE
       /\ UNCHANGED <<row, secretvars, shimvars, strayed>>

Proceed(step) ==
  /\ lpc' = step
  /\ UNCHANGED <<fixed, row, shimvars, strayed>>

-----------------------------------------------------------------------------
(* The parent: spawn_config and start_with. *)

RequestCreate ==
  /\ parent = "up" /\ lpc = "idle" /\ lop = "none"
  /\ \E c \in Config, h \in Host :
       /\ (c.landlock = "off" /\ h.os = "linux" => h.landlock)   \* no need to vary these
       /\ (~c.jailer => h.wrapper)
       /\ h.virt
       /\ c.secrets => c.net
       /\ lcfg' = c /\ kern' = h
  /\ lop' = "create" /\ lpc' = "prepare"
  /\ UNCHANGED <<parent, arts, row, secretvars, keep, shimvars, strayed>>

\* No virtualization, secrets without the virtio network, a bad option, an image that
\* cannot be had.
CreateRefused ==
  /\ parent = "up" /\ lpc = "idle" /\ lop = "none"
  /\ lop' = "create"
  /\ UNCHANGED <<lcfg, kern, parent, lpc, arts, row, secretvars, keep, shimvars, strayed>>

RequestStart ==
  /\ parent = "up" /\ lpc = "idle" /\ row = "Stopped"
  /\ lop' = "start" /\ lpc' = "prepare"
  /\ UNCHANGED <<lcfg, kern, parent, arts, row, secretvars, keep, shimvars, strayed>>

\* Name, socket path, guest binary, payload.
Prepare ==
  /\ parent = "up" /\ lpc = "prepare"
  /\ \/ /\ Proceed(IF lop = "create" THEN "overlay" ELSE "secrets")
        /\ UNCHANGED <<arts, secretvars, keep>>
     \/ Fail(arts) /\ UNCHANGED fixed

\* create_overlay writes a temporary file and renames it.
Overlay ==
  /\ parent = "up" /\ lpc = "overlay"
  /\ \/ /\ arts' = arts \cup {"overlay"}
        /\ Proceed("secrets") /\ UNCHANGED <<secretvars, keep>>
     \/ \E left \in {arts, arts \cup {"tmp"}} : Fail(left) /\ UNCHANGED fixed

\* The secrets the shim gets: given anew, or held since the last start.
Carry(given) ==
  /\ carried' = (given \/ (lop = "start" /\ held))
  /\ held' = (held \/ (lop = "start" /\ given))
  /\ UNCHANGED required

\* Mutation: a restart goes on without the secrets it needs.
SecretsOptional(given) == Carry(given)

\* Secrets of the create, or of the start: given anew, held, or missing.
SecretsFor(given) ==
  /\ given => lcfg.net
  /\ lop = "start" /\ ~given /\ required => held
  /\ Carry(given)

Secrets ==
  /\ parent = "up" /\ lpc = "secrets"
  /\ \E given \in IF lop = "create" THEN {lcfg.secrets} ELSE BOOLEAN :
       /\ SecretsFor(given)
       /\ Proceed("boot") /\ UNCHANGED <<arts, keep>>

\* They are missing, malformed, or the CA cannot be made.
SecretsFail ==
  /\ parent = "up" /\ lpc = "secrets"
  /\ Fail(arts) /\ UNCHANGED fixed

\* inject_guest_boot_env and prepare_virtio_net, which unlinks an old socket;
\* create stores its secrets.
Boot ==
  /\ parent = "up" /\ lpc = "boot"
  /\ held' = (held \/ carried)
  /\ arts' = IF lcfg.net THEN arts \ {"net"} ELSE arts
  /\ Proceed("json") /\ UNCHANGED <<carried, required, keep>>

\* A port is malformed, none can be probed, or the socket's path is too long.
BootFails ==
  /\ parent = "up" /\ lpc = "boot"
  /\ Fail(arts) /\ UNCHANGED fixed

\* write_shim_json; on Linux a jailed shim needs bwrap.
WriteJson ==
  /\ parent = "up" /\ lpc = "json"
  /\ lcfg.jailer /\ kern.os = "linux" => kern.wrapper
  /\ arts' = arts \cup {"json"}
  /\ Proceed("files") /\ UNCHANGED <<secretvars, keep>>

\* A half-written file is not yet guarded.
JsonFails ==
  /\ parent = "up" /\ lpc = "json"
  /\ \E left \in {arts, arts \cup {"json"}} : Fail(left) /\ UNCHANGED fixed

\* Mutation: no watchdog pipe.
NoWatch == FALSE

\* spawn_policy: a VM that is not detached watches its parent.
Watches == ~lcfg.detach

\* stderr file, watchdog pipe, find_shim, unlink of the listen socket.
Files ==
  /\ parent = "up" /\ lpc = "files"
  /\ arts' = arts \ {"sock"}
  /\ Proceed("fork") /\ UNCHANGED <<secretvars, keep>>

FilesFail ==
  /\ parent = "up" /\ lpc = "files"
  /\ Fail(arts \ {"json"}) /\ UNCHANGED fixed

\* bux_landlock: the kernel takes a ruleset.
Enforceable == lcfg.landlock # "off" /\ kern.landlock

\* prepare_landlock: the ruleset is made, its absence is tolerated, or the
\* system has no Landlock.
LandlockResolved == lcfg.landlock = "required" => Enforceable \/ kern.os = "macos"

Jailed == IF lcfg.jailer /\ kern.os = "linux" THEN {"bwrap"} ELSE {}
\* SeatbeltSandbox::wrap; without sandbox-exec build_command runs the bare shim.
Seatbelted == IF lcfg.jailer /\ kern.os = "macos" /\ kern.wrapper THEN {"seatbelt"} ELSE {}
Landlocked == IF Enforceable THEN {"landlock"} ELSE {}
Watched == IF Watches THEN {"watchdog"} ELSE {}
Confinement == Jailed \cup Seatbelted \cup Landlocked \cup Watched
\* PR_SET_PDEATHSIG exists on Linux only.
DiesWithParent == IF lcfg.detach \/ kern.os = "macos" THEN {} ELSE {"pdeath"}

\* bux_jail::spawn; the pre_exec hooks run in the child before the exec.
Fork ==
  /\ parent = "up" /\ lpc = "fork"
  /\ LandlockResolved
  /\ shim' = "main"
  /\ layers' = Confinement \cup DiesWithParent
  /\ ghost' = (ghost \/ Alive)        \* one a dead parent had left
  /\ strayed' = (strayed \/ ghost')
  /\ keep' = Watches
  /\ lpc' = "commit"
  /\ UNCHANGED <<fixed, arts, row, secretvars>>

ForkFails ==
  /\ parent = "up" /\ lpc = "fork"
  /\ Fail(arts \ {"json"}) /\ UNCHANGED fixed

\* The INSERT of create, the two UPDATEs of a restart.
Commit ==
  /\ parent = "up" /\ lpc = "commit"
  /\ row' = "Running" /\ lpc' = "ready"
  /\ required' = (required \/ carried)
  /\ UNCHANGED <<fixed, arts, held, carried, keep, shimvars, strayed>>

\* SpawnAbort of a create; revert_failed_start of a restart, whose UPDATE may fail too.
CommitFails ==
  /\ parent = "up" /\ lpc = "commit"
  /\ \/ lop = "create" /\ Abort
     \/ /\ lop = "start"
        /\ SigKill
        /\ arts' = CleanStopped
        /\ row' \in {"Stopped", "Running"}
        /\ keep' = FALSE /\ lpc' = "idle"
        /\ UNCHANGED secretvars
  /\ UNCHANGED fixed

\* link_vm and wait_ready.
Ready ==
  /\ parent = "up" /\ lpc = "ready"
  /\ lpc' = "idle"
  /\ UNCHANGED <<fixed, arts, row, secretvars, keep, shimvars, strayed>>

\* A create is aborted; a restart that is not ready is killed.
ReadyFails ==
  /\ parent = "up" /\ lpc = "ready"
  /\ \/ lop = "create" /\ Abort
     \/ /\ lop = "start"
        /\ SigKill
        /\ arts' = CleanStopped
        /\ row' = "Stopped" /\ lpc' = "idle"
        /\ UNCHANGED <<secretvars, keep>>
  /\ UNCHANGED fixed

\* kill, or a stop the guest obeyed: mark_stopped follows either.
StopVm ==
  /\ parent = "up" /\ lpc = "idle" /\ row = "Running"
  /\ \/ SigKill
     \/ /\ shim' = IF Alive THEN "dead" ELSE shim
        /\ UNCHANGED <<layers, ghost, strayed>>
  /\ arts' = CleanStopped
  /\ row' = "Stopped"
  /\ UNCHANGED <<fixed, lpc, secretvars, keep>>

\* The Vm handle goes; with it the keepalive end of the watchdog pipe.
DropHandle ==
  /\ parent = "up" /\ lpc = "idle" /\ keep
  /\ keep' = FALSE
  /\ UNCHANGED <<fixed, lpc, arts, row, secretvars, shimvars, strayed>>

\* The parent dies, possibly between the child's fork and its prctl.
Crash ==
  /\ parent = "up"
  /\ parent' = "dead" /\ lpc' = "idle" /\ keep' = FALSE
  /\ held' = FALSE
  /\ \/ /\ "pdeath" \in layers \/ ~Alive
        /\ SigKill
     \/ /\ Alive /\ "pdeath" \notin layers
        /\ strayed' = (strayed \/ row # "Running")
        /\ UNCHANGED shimvars
     \/ /\ lpc = "fork" /\ LandlockResolved
        /\ shim' = "main" /\ layers' = Confinement
        /\ ghost' = (ghost \/ Alive)
        /\ strayed' = TRUE
  /\ UNCHANGED <<lcfg, kern, lop, arts, row, carried, required>>

\* The Runtime is opened again: recover, then clean_orphan_socks.
Reopen ==
  /\ parent = "dead"
  /\ parent' = "up"
  /\ row' = IF row = "Running" /\ ~Alive THEN "Stopped" ELSE row
  /\ arts' = IF row = "none" \/ row' # row THEN CleanAll ELSE arts
  /\ strayed' = (strayed \/ (row = "none" /\ (Alive \/ arts # {})))
  /\ UNCHANGED <<lcfg, kern, lop, lpc, secretvars, keep, shimvars>>

-----------------------------------------------------------------------------
(* The shim: main, run, and the ways it ends. *)

Advance(to) == shim' = to /\ UNCHANGED ghost
ShimFails == Advance("dead") /\ UNCHANGED <<arts, layers>>
Elsewhere == <<lcfg, kern, parent, lop, lpc, row, secretvars, keep, strayed>>

\* The ruleset is in force before bwrap runs, and a Landlock domain may not
\* mount: bwrap fails before it starts the shim.
Stacked == {"bwrap", "landlock"} \subseteq layers

\* Inside bwrap the file is a mount point, so the unlink fails there.
ReadJson ==
  /\ shim = "main"
  /\ \/ /\ "json" \in arts /\ ~Stacked
        /\ Advance("run")
        /\ arts' = IF "bwrap" \in layers THEN arts ELSE arts \ {"json"}
        /\ UNCHANGED layers
     \/ ShimFails
  /\ UNCHANGED Elsewhere

StartGvproxy ==
  /\ shim = "run"
  /\ \/ /\ Advance("net")
        /\ arts' = IF lcfg.net THEN arts \cup {"net"} ELSE arts
        /\ layers' = IF lcfg.net THEN layers \cup {"gvproxy"} ELSE layers
     \/ ShimFails
  /\ UNCHANGED Elsewhere

\* bux_shim::prepare, apply_all: the context with its machine, root and shares.
PrepareVm ==
  /\ shim = "net"
  /\ Advance("machine")
  /\ UNCHANGED <<arts, layers, Elsewhere>>

\* The virtio device on gvproxy's socket.
AddNet ==
  /\ shim = "machine" /\ lcfg.net
  /\ Advance("device")
  /\ layers' = layers \cup {"nic"}
  /\ UNCHANGED <<arts, Elsewhere>>

\* Without one libkrun would route the guest's sockets through the host unless
\* the implicit vsock is replaced by one without that feature.
PlainVsock ==
  /\ shim = "machine" /\ ~lcfg.net
  /\ Advance("device")
  /\ layers' = layers \cup {"plainvsock"}
  /\ UNCHANGED <<arts, Elsewhere>>

\* A listen socket that is still there is EEXIST.
AddPorts ==
  /\ shim = "device" /\ "sock" \notin arts
  /\ Advance("prepared")
  /\ UNCHANGED <<arts, layers, Elsewhere>>

\* A call of libkrun is refused; the context is freed.
KrunRefuses ==
  /\ shim \in {"net", "machine", "device"}
  /\ ShimFails
  /\ UNCHANGED Elsewhere

\* install_seccomp does nothing outside Linux.
InstallSeccomp ==
  /\ shim = "prepared"
  /\ \/ /\ Advance("sealed") /\ UNCHANGED arts
        /\ layers' = IF kern.os = "linux" THEN layers \cup {"seccomp"} ELSE layers
     \/ kern.os = "linux" /\ ShimFails
  /\ UNCHANGED Elsewhere

Enter ==
  /\ shim = "sealed"
  /\ \/ Advance("vm") /\ arts' = arts \cup {"sock"} /\ UNCHANGED layers
     \/ ShimFails
  /\ UNCHANGED Elsewhere

\* The guest powers off, or a signal the crash handler reports.
ShimEnds ==
  /\ Alive
  /\ Advance("dead")
  /\ UNCHANGED <<arts, layers, Elsewhere>>

\* start_watchdog_thread sees the pipe close.
Watchdog ==
  /\ Alive /\ "watchdog" \in layers /\ ~keep
  /\ Advance("dead")
  /\ UNCHANGED <<arts, layers, Elsewhere>>

\* A ghost goes on through its own main, and ends one day.
GhostStep ==
  /\ ghost
  /\ \/ arts' = arts \cup {"sock", "net"} /\ UNCHANGED ghost
     \/ ghost' = FALSE /\ UNCHANGED arts
  /\ UNCHANGED <<shim, layers, Elsewhere>>

Launching ==
  \/ RequestCreate \/ CreateRefused \/ RequestStart \/ Prepare \/ Overlay
  \/ Secrets \/ SecretsFail \/ Boot \/ BootFails \/ WriteJson \/ JsonFails
  \/ Files \/ FilesFail \/ Fork \/ ForkFails
  \/ Commit \/ CommitFails \/ Ready \/ ReadyFails
ShimStep ==
  \/ ReadJson \/ StartGvproxy \/ PrepareVm \/ AddNet \/ PlainVsock \/ AddPorts
  \/ KrunRefuses \/ InstallSeccomp \/ Enter
Next ==
  \/ Launching \/ StopVm \/ DropHandle \/ Crash \/ Reopen
  \/ ShimStep \/ ShimEnds \/ Watchdog \/ GhostStep

Spec == Init /\ [][Next]_lvars /\ WF_lvars(Watchdog)

-----------------------------------------------------------------------------

\* A create that failed, at whatever step, leaves nothing that could be used or
\* leaked: no entry of the secrets map, no shim JSON, no socket, no overlay, no
\* running shim.  Excepted is what the code cannot reach: what a parent that
\* died left for recovery, and a detached guest whose bwrap was killed.
FailedCreateLeavesNothing ==
  parent = "up" /\ lpc = "idle" /\ row = "none" /\ ~strayed =>
    /\ ~held /\ ~Alive /\ ~keep
    /\ arts \cap {"overlay", "json", "sock", "net"} = {}

\* krun_start_enter is reached only by a shim that is confined as its config
\* asks: on Linux inside bwrap, under Landlock (missing only where degraded
\* security was allowed) and with its seccomp filter in; on macOS under seatbelt
\* where sandbox-exec exists.  (With bwrap and Landlock both, none reaches it.)
\* On both the guest reaches the network only through its own gvproxy, and not at
\* all when it has none, and it was given the secrets its row says it needs.
EnteredAsConfigured ==
  shim = "vm" =>
    /\ kern.os = "linux" =>
         /\ "seccomp" \in layers
         /\ lcfg.jailer => "bwrap" \in layers
         /\ lcfg.landlock # "off" =>
              "landlock" \in layers \/ (lcfg.landlock = "degradable" /\ ~kern.landlock)
    /\ kern.os = "macos" /\ lcfg.jailer /\ kern.wrapper => "seatbelt" \in layers
    /\ IF lcfg.net THEN {"gvproxy", "nic"} \subseteq layers
       ELSE layers \cap {"nic", "plainvsock"} = {"plainvsock"}
    /\ required => carried

\* A guest that was not detached ends once nobody holds its keepalive: the
\* parent died at any point of the launch, or dropped the handle.  (A later
\* launch may take the place of the orphan first.)
OrphanEnds == (Alive /\ ~keep /\ ~lcfg.detach) ~> (~Alive \/ keep)
=============================================================================
