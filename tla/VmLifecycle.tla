---------------------------- MODULE VmLifecycle ----------------------------
(***************************************************************************)
(* The life of a micro-VM as crates/bux keeps it: the row of the state     *)
(* database, the shim process, the qcow2 overlay, the vsock socket file,   *)
(* and the tasks that work on them through Vm handles holding a copy of    *)
(* the row.  Every database statement, and every await or thread switch    *)
(* between two of them, is a step of its own.                              *)
(*                                                                         *)
(* An actor is one task (a CLI command, an HTTP handler, one row of a      *)
(* list, sweep or recover loop).  A loop over all rows reads them at once  *)
(* and treats each copy on its own, so it is as many single-row actors.    *)
(*                                                                         *)
(* Under the Linux jail the pid of a row is bubblewrap's, and the guest    *)
(* runs in its child.  A detached VM has neither --die-with-parent nor a   *)
(* watchdog, so a signal to that pid leaves its guest adrift.  Unlinking a *)
(* file, whose errors the code drops, is taken to succeed.                 *)
(***************************************************************************)

CONSTANTS
    Vms,          \* VM ids; gen_id never returns one twice
    Pids,         \* shim processes; a pid is not recycled
    Actors,       \* concurrent tasks of the runtime process
    AutoRemove,   \* VMs created with auto_remove
    Detach,       \* VMs created with detach: no keepalive pipe
    Jailed,       \* VMs whose shim runs under bubblewrap
    AutoStop,     \* VMs with a non-zero auto_stop_secs
    AutoDelete,   \* VMs with a non-zero auto_delete_secs
    Sweepers,     \* the tasks that run the sweep loop, and nothing else
    Exclusive,    \* TRUE: tasks on one VM never overlap (the embedder's choice)
    NoPid, NoVm

ASSUME FlagsAssumption ==
    /\ AutoRemove \subseteq Vms /\ Detach \subseteq Vms
    /\ AutoStop \subseteq Vms /\ AutoDelete \subseteq Vms /\ Jailed \subseteq Vms
    /\ Sweepers \subseteq Actors /\ Exclusive \in BOOLEAN

ASSUME NoneAssumption == NoPid \notin Pids /\ NoVm \notin Vms

VARIABLES
    up,        \* the runtime process: "down", "recovering" or "up"
    pending,   \* rows the recover loop has still to visit
    status,    \* vms.status; "none" when there is no row
    pid,       \* vms.pid
    overlay,   \* VMs whose disks/vms/{id}.qcow2 exists
    sock,      \* the shim whose listener inode is at socks/{id}.sock
    proc,      \* each shim process
    owner,     \* the VM a shim was spawned for
    adrift,    \* the guest a shim under bubblewrap left running when it was killed
    child,     \* shims that are children of the present runtime process
    waiters,   \* shims a wait_for_exit thread is blocked on
    task,      \* what each actor is at and holds
    used,      \* ids gen_id has returned
    lost,      \* history: shims not yet committed when the runtime died
    cut        \* history: VMs whose files were half made or half removed then

dbVars == <<status, pid>>
fileVars == <<overlay, sock>>
procVars == <<proc, owner, adrift, child, waiters>>
ghostVars == <<used, lost, cut>>
vars == <<up, pending, dbVars, fileVars, procVars, task, ghostVars>>

\* A task: its point, its VM, the status and pid its handle or row copy
\* caches, a shim it has spawned but not committed, a keepalive it holds.
Idle == [pc |-> "idle", vm |-> NoVm, st |-> "none",
         cp |-> NoPid, sp |-> NoPid, ka |-> NoPid]

Init ==
    /\ up = "down" /\ pending = {}
    /\ status = [v \in Vms |-> "none"] /\ pid = [v \in Vms |-> NoPid]
    /\ overlay = {} /\ sock = [v \in Vms |-> NoPid]
    /\ proc = [p \in Pids |-> "none"] /\ owner = [p \in Pids |-> NoVm]
    /\ adrift = [p \in Pids |-> "none"]
    /\ child = {} /\ waiters = {}
    /\ task = [a \in Actors |-> Idle]
    /\ used = {} /\ lost = {} /\ cut = {}

-----------------------------------------------------------------------------
(* Operations of the database, the process table and the file system.      *)

Active(s) == s \in {"Running", "Stopping"}

\* kill(pid, 0) succeeds for a zombie too.
PidAlive(p) == p \in Pids /\ proc[p] \in {"booting", "live", "killed", "zombie"}

\* SIGKILL, or SIGTERM with its five seconds; also EOF on the keepalive pipe.
Signal(p) ==
    [q \in Pids |-> IF q = p /\ proc[q] \in {"booting", "live"}
                    THEN "killed" ELSE proc[q]]

\* A signal to bubblewrap ends the guest only where its child is told to die
\* with it.
Outlives(p) == owner[p] \in Detach \cap Jailed

Strand(p) ==
    [q \in Pids |-> IF q = p /\ proc[q] \in {"booting", "live"} /\ Outlives(q)
                    THEN proc[q] ELSE adrift[q]]

\* Mutant: INSERT OR REPLACE instead of UPDATE.
UpsertStatus(v, s) == [status EXCEPT ![v] = s]

\* UPDATE of a row that is gone changes nothing and reports success.
UpdateStatus(v, s) == [status EXCEPT ![v] = IF @ = "none" THEN @ ELSE s]

UpdatePid(v, p) == [pid EXCEPT ![v] = IF status[v] = "none" THEN @ ELSE p]

Unlink(v) == [sock EXCEPT ![v] = NoPid]

Become(a, t) == task' = [task EXCEPT ![a] = t]

Goto(a, point) == Become(a, [task[a] EXCEPT !.pc = point])

\* The task returns or is dropped, with all it held.
Finish(a) == Become(a, Idle)

\* A handle on the shim just committed.
Running(a, point) ==
    [pc |-> point, vm |-> task[a].vm, st |-> "Running",
     cp |-> task[a].sp, sp |-> NoPid,
     ka |-> IF task[a].vm \in Detach THEN NoPid ELSE task[a].sp]

Claimed(v) == \E a \in Actors : task[a].pc # "idle" /\ task[a].vm = v

-----------------------------------------------------------------------------
(* Creating a VM: Runtime::create and spawn_config.                        *)

\* Name check, fresh id, overlay: up to the point where SpawnAbort is armed.
CreateOverlay(a, v) ==
    /\ up = "up" /\ a \notin Sweepers /\ task[a].pc = "idle" /\ v \notin used
    /\ used' = used \union {v}
    /\ overlay' = overlay \union {v}
    /\ Become(a, [Idle EXCEPT !.pc = "create_spawn", !.vm = v])
    /\ UNCHANGED <<up, pending, dbVars, sock, procVars, lost, cut>>

\* spawn_shim unlinks the socket path, then starts the process.
SpawnShim(a, p) ==
    /\ task[a].pc \in {"create_spawn", "start_spawn"}
    /\ proc[p] = "none"
    /\ proc' = [proc EXCEPT ![p] = "booting"]
    /\ owner' = [owner EXCEPT ![p] = task[a].vm]
    /\ child' = child \union {p}
    /\ sock' = Unlink(task[a].vm)
    /\ Become(a, [task[a] EXCEPT !.sp = p,
           !.pc = IF task[a].pc = "create_spawn" THEN "create_insert" ELSE "start_commit"])
    /\ UNCHANGED <<up, pending, dbVars, overlay, adrift, waiters, ghostVars>>

\* Mutant: the overlay is left behind.
RemoveFilesNotDisk(a) ==
    /\ sock' = Unlink(task[a].vm)
    /\ Goto(a, "delete")
    /\ UNCHANGED overlay

\* The clean-up before DELETE FROM vms that abort_partial_spawn,
\* abort_unready and remove_stored share.
RemoveFiles(a) ==
    /\ sock' = Unlink(task[a].vm)
    /\ overlay' = overlay \ {task[a].vm}
    /\ Goto(a, "delete")

CreateSpawnFails(a) ==
    /\ task[a].pc = "create_spawn"
    /\ RemoveFiles(a)
    /\ UNCHANGED <<up, pending, dbVars, procVars, ghostVars>>

CreateInsert(a) ==
    /\ task[a].pc = "create_insert"
    /\ status' = [status EXCEPT ![task[a].vm] = "Running"]
    /\ pid' = [pid EXCEPT ![task[a].vm] = task[a].sp]
    /\ Become(a, Running(a, "create_ready"))
    /\ UNCHANGED <<up, pending, fileVars, procVars, ghostVars>>

\* INSERT fails (a taken UNIQUE name, an I/O error): SpawnAbort is dropped.
CreateInsertFails(a) ==
    /\ task[a].pc = "create_insert"
    /\ proc' = Signal(task[a].sp) /\ adrift' = Strand(task[a].sp)
    /\ RemoveFiles(a)
    /\ UNCHANGED <<up, pending, dbVars, owner, child, waiters, ghostVars>>

\* Mutant: abort_unready forgets the shim.
CreateUnreadyNoKill(a) ==
    /\ task[a].pc = "create_ready"
    /\ RemoveFiles(a)
    /\ UNCHANGED <<up, pending, dbVars, procVars, ghostVars>>

\* A volume link fails or wait_ready does: abort_unready.
CreateUnready(a) ==
    /\ task[a].pc = "create_ready"
    /\ proc' = Signal(task[a].cp) /\ adrift' = Strand(task[a].cp)
    /\ RemoveFiles(a)
    /\ UNCHANGED <<up, pending, dbVars, owner, child, waiters, ghostVars>>

\* The guest answered the handshake, or ready_timeout is zero.
CreateReady(a) ==
    /\ task[a].pc = "create_ready"
    /\ Goto(a, "handle")
    /\ UNCHANGED <<up, pending, dbVars, fileVars, procVars, ghostVars>>

-----------------------------------------------------------------------------
(* Reading a row and reconciling it: get, list, remove, recover, sweep.    *)

Purposes == {"get", "list", "remove", "sweep"}

ReadRow(a, v, purpose) ==
    /\ task[a].pc = "idle" /\ status[v] # "none"
    /\ Exclusive => ~Claimed(v)
    /\ Become(a, [Idle EXCEPT !.pc = purpose, !.vm = v, !.st = status[v], !.cp = pid[v]])
    /\ UNCHANGED <<up, dbVars, fileVars, procVars, ghostVars>>

Read(a, v, purpose) ==
    /\ up = "up" /\ (a \in Sweepers) = (purpose = "sweep")
    /\ ReadRow(a, v, purpose)
    /\ UNCHANGED pending

RecoverRead(a, v) ==
    /\ up = "recovering" /\ v \in pending
    /\ ReadRow(a, v, "recover")
    /\ pending' = pending \ {v}

\* remove() needs can_remove; list and recover purge what is auto_remove.
Removes(a, s) ==
    s = "Stopped" /\ (task[a].pc = "remove" \/ task[a].vm \in AutoRemove)

\* reconcile_dead_pid and recover_dead decide on the copied status and pid.
Reconcile(a) ==
    LET v == task[a].vm
        dead == Active(task[a].st) /\ ~PidAlive(task[a].cp)
        s == IF dead THEN "Stopped" ELSE task[a].st
    IN  /\ task[a].pc \in {"get", "list", "remove", "recover"}
        /\ status' = IF dead THEN UpdateStatus(v, "Stopped") ELSE status
        /\ sock' = IF dead THEN Unlink(v) ELSE sock
        /\ CASE task[a].pc = "get" -> Become(a, [task[a] EXCEPT !.pc = "handle", !.st = s])
             [] task[a].pc # "get" /\ Removes(a, s) -> Goto(a, "remove_files")
             [] OTHER -> Finish(a)
        /\ UNCHANGED <<up, pending, pid, overlay, procVars, ghostVars>>

\* remove_stored and purge_vm_files, up to the DELETE.
RemoveStored(a) ==
    /\ task[a].pc = "remove_files"
    /\ RemoveFiles(a)
    /\ UNCHANGED <<up, pending, dbVars, procVars, ghostVars>>

\* DELETE FROM vms; the task ends and a handle's keepalive goes with it.
DeleteRow(a) ==
    /\ task[a].pc = "delete"
    /\ status' = [status EXCEPT ![task[a].vm] = "none"]
    /\ proc' = Signal(task[a].ka) /\ adrift' = Strand(task[a].ka)
    /\ Finish(a)
    /\ UNCHANGED <<up, pending, pid, fileVars, owner, child, waiters, ghostVars>>

\* Mutant: only Running rows are swept.
SweepRunning(a) ==
    /\ task[a].pc = "sweep" /\ task[a].st = "Running" /\ task[a].vm \in AutoStop
    /\ proc' = IF PidAlive(task[a].cp) THEN Signal(task[a].cp) ELSE proc
    /\ adrift' = Strand(task[a].cp)
    /\ Goto(a, "swept")
    /\ UNCHANGED <<up, pending, dbVars, fileVars, owner, child, waiters, ghostVars>>

\* sweep_one on an active copy whose auto_stop_secs has run out:
\* terminate_pid blocks for up to five seconds, then the row is written.
SweepTerminate(a) ==
    /\ task[a].pc = "sweep" /\ Active(task[a].st) /\ task[a].vm \in AutoStop
    /\ proc' = IF PidAlive(task[a].cp) THEN Signal(task[a].cp) ELSE proc
    /\ adrift' = Strand(task[a].cp)
    /\ Goto(a, "swept")
    /\ UNCHANGED <<up, pending, dbVars, fileVars, owner, child, waiters, ghostVars>>

SweepMark(a) ==
    /\ task[a].pc = "swept"
    /\ status' = UpdateStatus(task[a].vm, "Stopped")
    /\ sock' = Unlink(task[a].vm)
    /\ IF task[a].vm \in AutoRemove THEN Goto(a, "remove_files") ELSE Finish(a)
    /\ UNCHANGED <<up, pending, pid, overlay, procVars, ghostVars>>

\* A stopped copy whose auto_delete_secs has run out, or nothing to do.
SweepStopped(a) ==
    /\ task[a].pc = "sweep"
    /\ \/ task[a].st = "Stopped" /\ task[a].vm \in AutoDelete /\ Goto(a, "remove_files")
       \/ Finish(a)
    /\ UNCHANGED <<up, pending, dbVars, fileVars, procVars, ghostVars>>

-----------------------------------------------------------------------------
(* Operations on a handle: start_with, stop_timeout, kill, wait.           *)

\* Mutant: no status check.
StartBeginUnchecked(a) ==
    /\ task[a].pc = "handle"
    /\ Goto(a, "start_spawn")
    /\ UNCHANGED <<up, pending, dbVars, fileVars, procVars, ghostVars>>

\* The cached status is checked, then the payload is awaited.
StartBegin(a) ==
    /\ task[a].pc = "handle" /\ task[a].st = "Stopped"
    /\ Goto(a, "start_spawn")
    /\ UNCHANGED <<up, pending, dbVars, fileVars, procVars, ghostVars>>

\* Payload, secrets, network or spawn_shim fail, the last perhaps after
\* it has unlinked the socket path.
StartSpawnFails(a) ==
    /\ task[a].pc = "start_spawn"
    /\ sock' \in {sock, Unlink(task[a].vm)}
    /\ Goto(a, "handle")
    /\ UNCHANGED <<up, pending, dbVars, overlay, procVars, ghostVars>>

\* update_pid_status writes whatever row is there now; assigning keepalive
\* closes the pipe of an earlier shim.
StartCommit(a) ==
    /\ task[a].pc = "start_commit"
    /\ status' = UpdateStatus(task[a].vm, "Running")
    /\ pid' = UpdatePid(task[a].vm, task[a].sp)
    /\ proc' = Signal(task[a].ka) /\ adrift' = Strand(task[a].ka)
    /\ Become(a, Running(a, "start_ready"))
    /\ UNCHANGED <<up, pending, fileVars, owner, child, waiters, ghostVars>>

\* A failed UPDATE: revert_failed_start, the pid perhaps already stored.
StartCommitFails(a) ==
    /\ task[a].pc = "start_commit"
    /\ proc' = Signal(task[a].sp) /\ adrift' = Strand(task[a].sp)
    /\ sock' = Unlink(task[a].vm)
    /\ status' = UpdateStatus(task[a].vm, "Stopped")
    /\ pid' \in {pid, UpdatePid(task[a].vm, task[a].sp)}
    /\ Become(a, [task[a] EXCEPT !.sp = NoPid, !.pc = "handle"])
    /\ UNCHANGED <<up, pending, overlay, owner, child, waiters, ghostVars>>

StartReady(a) ==
    /\ task[a].pc = "start_ready"
    /\ Goto(a, "handle")
    /\ UNCHANGED <<up, pending, dbVars, fileVars, procVars, ghostVars>>

\* mark_stopped, up to the DELETE when the VM is auto_remove.
MarkStopped(a) ==
    /\ sock' = Unlink(task[a].vm)
    /\ \/ /\ task[a].vm \in AutoRemove
          /\ overlay' = overlay \ {task[a].vm}
          /\ Become(a, [task[a] EXCEPT !.pc = "mark_delete", !.st = "Stopped"])
          /\ UNCHANGED status
       \/ /\ task[a].vm \notin AutoRemove
          /\ status' = UpdateStatus(task[a].vm, "Stopped")
          /\ Become(a, [task[a] EXCEPT !.pc = "handle", !.st = "Stopped"])
          /\ UNCHANGED overlay
    /\ UNCHANGED <<up, pending, pid, owner, child, waiters, ghostVars>>

MarkDelete(a) ==
    /\ task[a].pc = "mark_delete"
    /\ status' = [status EXCEPT ![task[a].vm] = "none"]
    /\ Goto(a, "handle")
    /\ UNCHANGED <<up, pending, pid, fileVars, procVars, ghostVars>>

\* kill checks no status; a start whose guest never answers ends in it too.
Kill(a) ==
    /\ task[a].pc \in {"handle", "start_ready"}
    /\ proc' = Signal(task[a].cp) /\ adrift' = Strand(task[a].cp)
    /\ MarkStopped(a)

\* Mutant: no can_stop check.
StopBeginUnchecked(a) ==
    /\ task[a].pc = "handle"
    /\ status' = UpdateStatus(task[a].vm, "Stopping")
    /\ Become(a, [task[a] EXCEPT !.pc = "stop_rpc", !.st = "Stopping"])
    /\ UNCHANGED <<up, pending, pid, fileVars, procVars, ghostVars>>

\* stop_timeout writes Stopping, then awaits the Shutdown reply.
StopBegin(a) ==
    /\ task[a].pc = "handle" /\ task[a].st = "Running"
    /\ status' = UpdateStatus(task[a].vm, "Stopping")
    /\ Become(a, [task[a] EXCEPT !.pc = "stop_rpc", !.st = "Stopping"])
    /\ UNCHANGED <<up, pending, pid, fileVars, procVars, ghostVars>>

StopWait(a) ==
    /\ Goto(a, "stop_wait")
    /\ waiters' = waiters \union {task[a].cp}
    /\ UNCHANGED <<up, pending, dbVars, fileVars, proc, owner, adrift, child, ghostVars>>

\* A guest behind the socket path answers.
StopReply(a) == task[a].pc = "stop_rpc" /\ StopWait(a)

\* The connection breaks, or cannot be made, because the shim is dead.
StopRpcBroken(a) ==
    /\ task[a].pc = "stop_rpc" /\ proc[task[a].cp] \in {"zombie", "gone"}
    /\ StopWait(a)

StopExited(a) ==
    /\ task[a].pc = "stop_wait" /\ proc[task[a].cp] = "gone"
    /\ UNCHANGED <<proc, adrift>>
    /\ MarkStopped(a)

StopTimeout(a) ==
    /\ task[a].pc = "stop_wait"
    /\ proc' = Signal(task[a].cp) /\ adrift' = Strand(task[a].cp)
    /\ MarkStopped(a)

WaitBegin(a) ==
    /\ task[a].pc = "handle"
    /\ waiters' = waiters \union {task[a].cp}
    /\ Goto(a, "wait")
    /\ UNCHANGED <<up, pending, dbVars, fileVars, proc, owner, adrift, child, ghostVars>>

WaitExited(a) ==
    /\ task[a].pc = "wait" /\ proc[task[a].cp] = "gone"
    /\ UNCHANGED <<proc, adrift>>
    /\ MarkStopped(a)

\* The handle is dropped, or the future is at an await point: the keepalive
\* pipe closes and the shim of a non-detached VM shuts down.
Drop(a) ==
    /\ task[a].pc \in {"handle", "create_ready", "start_spawn", "start_ready",
                  "stop_rpc", "stop_wait", "wait"}
    /\ proc' = Signal(task[a].ka) /\ adrift' = Strand(task[a].ka)
    /\ Finish(a)
    /\ UNCHANGED <<up, pending, dbVars, fileVars, owner, child, waiters, ghostVars>>

-----------------------------------------------------------------------------
(* The shim process and the runtime process.                               *)

\* The guest boots: the disk opens and the listener binds a free path.
ShimBoots(p) ==
    /\ proc[p] = "booting" /\ owner[p] \in overlay /\ sock[owner[p]] = NoPid
    /\ proc' = [proc EXCEPT ![p] = "live"]
    /\ sock' = [sock EXCEPT ![owner[p]] = p]
    /\ UNCHANGED <<up, pending, dbVars, overlay, owner, adrift, child, waiters, task, ghostVars>>

\* Any end of the process; its socket inode stays behind, and a child of
\* the runtime stays a zombie until somebody waits for it.
ShimExits(p) ==
    /\ proc[p] \in {"booting", "live", "killed"}
    /\ proc' = [proc EXCEPT ![p] = IF p \in child THEN "zombie" ELSE "gone"]
    /\ UNCHANGED <<up, pending, dbVars, fileVars, owner, adrift, child, waiters, task, ghostVars>>

\* A guest adrift goes on booting, and ends when it pleases.
AdriftBoots(p) ==
    /\ adrift[p] = "booting" /\ owner[p] \in overlay /\ sock[owner[p]] = NoPid
    /\ adrift' = [adrift EXCEPT ![p] = "live"]
    /\ sock' = [sock EXCEPT ![owner[p]] = p]
    /\ UNCHANGED <<up, pending, dbVars, overlay, proc, owner, child, waiters, task, ghostVars>>

AdriftExits(p) ==
    /\ adrift[p] # "none"
    /\ adrift' = [adrift EXCEPT ![p] = "none"]
    /\ UNCHANGED <<up, pending, dbVars, fileVars, proc, owner, child, waiters, task, ghostVars>>

\* A wait_for_exit thread gets the zombie from waitpid; it outlives a
\* cancelled stop or wait.
Reap(p) ==
    /\ proc[p] = "zombie" /\ p \in waiters
    /\ proc' = [proc EXCEPT ![p] = "gone"]
    /\ child' = child \ {p} /\ waiters' = waiters \ {p}
    /\ UNCHANGED <<up, pending, dbVars, fileVars, owner, adrift, task, ghostVars>>

\* The process is gone: init reaps its zombies, and the keepalive pipe and
\* the parent-death signal end the shims of non-detached VMs.
AfterExit(p) ==
    CASE proc[p] = "zombie" -> "gone"
      [] proc[p] \in {"booting", "live"} /\ owner[p] \notin Detach -> "killed"
      [] OTHER -> proc[p]

ProcessEnds ==
    /\ up' = "down" /\ pending' = {}
    /\ proc' = [p \in Pids |-> AfterExit(p)]
    /\ child' = {} /\ waiters' = {}
    /\ task' = [a \in Actors |-> Idle]
    /\ UNCHANGED <<pid, fileVars, owner, adrift, used>>

Uncommitted == {"create_insert", "start_commit"}

FilesPartial == {"create_spawn", "create_insert", "delete", "mark_delete"}

\* The runtime process dies at any point.
Crash ==
    /\ up # "down"
    /\ lost' = lost \union {task[a].sp : a \in {b \in Actors : task[b].pc \in Uncommitted}}
    /\ cut' = cut \union {task[a].vm : a \in {b \in Actors : task[b].pc \in FilesPartial}}
    /\ ProcessEnds
    /\ UNCHANGED status

\* Drop for Runtime: shutdown_sync terminates active non-detached shims and
\* marks their rows, then the process exits.
Shutdown ==
    /\ up = "up" /\ \A a \in Actors : task[a].pc = "idle"
    /\ status' = [v \in Vms |->
           IF Active(status[v]) /\ PidAlive(pid[v]) /\ v \notin Detach
           THEN "Stopped" ELSE status[v]]
    /\ ProcessEnds
    /\ UNCHANGED <<lost, cut>>

\* Runtime::open_with takes the lock and lists the rows to recover.
Open ==
    /\ up = "down"
    /\ up' = "recovering"
    /\ pending' = {v \in Vms : status[v] # "none"}
    /\ UNCHANGED <<dbVars, fileVars, procVars, task, ghostVars>>

\* Mutant: the known ids are those of stopped VMs.
RecoverDoneForgets ==
    /\ up = "recovering" /\ pending = {} /\ \A a \in Actors : task[a].pc = "idle"
    /\ up' = "up"
    /\ sock' = [v \in Vms |-> IF status[v] # "Stopped" THEN NoPid ELSE sock[v]]
    /\ UNCHANGED <<pending, dbVars, overlay, procVars, task, ghostVars>>

\* The last phase of recover: clean_orphan_socks.
RecoverDone ==
    /\ up = "recovering" /\ pending = {} /\ \A a \in Actors : task[a].pc = "idle"
    /\ up' = "up"
    /\ sock' = [v \in Vms |-> IF status[v] = "none" THEN NoPid ELSE sock[v]]
    /\ UNCHANGED <<pending, dbVars, overlay, procVars, task, ghostVars>>

-----------------------------------------------------------------------------

CreateStep(a) ==
    \/ \E v \in Vms : CreateOverlay(a, v)
    \/ \E p \in Pids : SpawnShim(a, p)
    \/ CreateSpawnFails(a) \/ CreateInsert(a) \/ CreateInsertFails(a)
    \/ CreateUnready(a) \/ CreateReady(a)

RowStep(a) ==
    \/ \E v \in Vms, purpose \in Purposes : Read(a, v, purpose)
    \/ \E v \in Vms : RecoverRead(a, v)
    \/ Reconcile(a) \/ RemoveStored(a) \/ DeleteRow(a)
    \/ SweepTerminate(a) \/ SweepMark(a) \/ SweepStopped(a)

HandleStep(a) ==
    \/ StartBegin(a) \/ StartSpawnFails(a) \/ StartCommit(a) \/ StartCommitFails(a)
    \/ StartReady(a) \/ MarkDelete(a) \/ Kill(a)
    \/ StopBegin(a) \/ StopReply(a) \/ StopRpcBroken(a) \/ StopExited(a) \/ StopTimeout(a)
    \/ WaitBegin(a) \/ WaitExited(a) \/ Drop(a)

ShimStep(p) == ShimBoots(p) \/ ShimExits(p) \/ Reap(p)

AdriftStep(p) == AdriftBoots(p) \/ AdriftExits(p)

RuntimeStep == Crash \/ Shutdown \/ Open \/ RecoverDone

Next ==
    \/ \E a \in Actors : CreateStep(a) \/ RowStep(a) \/ HandleStep(a)
    \/ \E p \in Pids : ShimStep(p) \/ AdriftStep(p)
    \/ RuntimeStep

Spec == Init /\ [][Next]_vars

\* Steps a task takes without waiting for a client or for the guest: the
\* scheduler runs it, timers fire, a dead peer breaks the connection, and a
\* handler that is done drops its handle.
TaskProgress(a) ==
    \/ CreateSpawnFails(a) \/ CreateInsert(a) \/ CreateUnready(a)
    \/ Reconcile(a) \/ RemoveStored(a) \/ DeleteRow(a) \/ SweepMark(a) \/ SweepStopped(a)
    \/ StartSpawnFails(a) \/ StartCommit(a) \/ (task[a].pc = "start_ready" /\ Kill(a))
    \/ (task[a].pc = "handle" /\ Drop(a))
    \/ MarkDelete(a) \/ StopRpcBroken(a) \/ StopExited(a) \/ StopTimeout(a) \/ WaitExited(a)

\* Signalled processes die, waiting threads reap; `bux serve` sweeps every
\* 30 s and an idle time that keeps growing runs out; clients keep listing.
Fairness ==
    /\ \A a \in Actors : WF_vars(TaskProgress(a))
    /\ \A p \in Pids : WF_vars(proc[p] = "killed" /\ ShimExits(p)) /\ WF_vars(Reap(p))
    /\ \A a \in Sweepers : SF_vars(SweepTerminate(a))
    /\ \A v \in Vms : /\ SF_vars(\E a \in Actors : Read(a, v, "sweep"))
                     /\ SF_vars(\E a \in Actors : Read(a, v, "list"))

LiveSpec == Spec /\ Fairness

-----------------------------------------------------------------------------
(* Properties.                                                             *)

Statuses == {"Running", "Stopping", "Stopped"}

Points == {"idle", "create_spawn", "create_insert", "create_ready", "handle",
           "get", "list", "remove", "sweep", "recover", "remove_files", "delete",
           "swept", "start_spawn", "start_commit", "start_ready", "mark_delete",
           "stop_rpc", "stop_wait", "wait"}

TaskRecord == [pc : Points, vm : Vms \union {NoVm}, st : Statuses \union {"none"},
               cp : Pids \union {NoPid}, sp : Pids \union {NoPid}, ka : Pids \union {NoPid}]

\* Every variable keeps its type.
TypeOK ==
    /\ up \in {"down", "recovering", "up"} /\ pending \in SUBSET Vms
    /\ status \in [Vms -> Statuses \union {"none"}]
    /\ pid \in [Vms -> Pids \union {NoPid}]
    /\ overlay \in SUBSET Vms /\ sock \in [Vms -> Pids \union {NoPid}]
    /\ proc \in [Pids -> {"none", "booting", "live", "killed", "zombie", "gone"}]
    /\ owner \in [Pids -> Vms \union {NoVm}]
    /\ adrift \in [Pids -> {"none", "booting", "live"}]
    /\ child \in SUBSET Pids /\ waiters \in SUBSET Pids
    /\ task \in [Actors -> TaskRecord]
    /\ used \in SUBSET Vms /\ lost \in SUBSET Pids /\ cut \in SUBSET Vms

\* A row says who runs the VM.
Recorded(p) == Active(status[owner[p]]) /\ pid[owner[p]] = p

\* A create or start has spawned the shim and not yet written its row.
InFlight(p) == \E a \in Actors : task[a].pc \in Uncommitted /\ task[a].sp = p

\* A guest runs and writes the overlay of its VM.
Guest(p) == proc[p] = "live" \/ adrift[p] = "live"

\* Guests the runtime has no hold on: their shim was spawned in a crash between
\* spawn_shim and the row write, or was a killed bubblewrap that let them go.
OutOfReach(p) == p \in lost \/ (adrift[p] # "none" /\ Outlives(p))

\* Every guest that runs is known: its shim is the pid of an active row, or
\* the create or start that spawned it is about to write that row.  The two
\* ways out are a crash of the runtime between spawn_shim and the row write,
\* and the kill, stop, sweep or failed start of a VM that is both detached and
\* under bubblewrap, whose guest outlives the pid that is signalled
\* (recover.rs, terminate_pid; bux-jail bwrap.rs).
NoStrayShim ==
    \A p \in Pids : Guest(p) => Recorded(p) \/ InFlight(p) \/ OutOfReach(p)

\* Two guests never write one qcow2 overlay, but for those two ways out:
\* start, stop, kill, sweep, recovery and drop leave at most one of them.
OneWriter ==
    \A p, q \in Pids :
        /\ Guest(p) /\ Guest(q) /\ owner[p] = owner[q]
        /\ ~OutOfReach(p) /\ ~OutOfReach(q)
        => p = q

\* Rows and overlays come and go together: each row has its disk and each
\* disk its row, but while a create or a removal is between the two, or
\* after a crash there.
RowHasDisk ==
    \A v \in Vms :
        \/ (status[v] # "none") = (v \in overlay)
        \/ v \in cut
        \/ \E a \in Actors : task[a].vm = v /\ task[a].pc \in FilesPartial

\* A guest that an active row names can be reached: no clean-up of another
\* life of the VM unlinks the socket its shim listens on.
Reachable ==
    \A p \in Pids : proc[p] = "live" /\ Recorded(p) => sock[owner[p]] = p

\* can_transition_to is what really happens to a row's status.
CanTransition(s, t) ==
    \/ s = "Stopped" /\ t = "Running"
    \/ Active(s) /\ t = "Stopped"
    \/ s = "Running" /\ t = "Stopping"

StatusTransitions ==
    [][\A v \in Vms : status[v] # "none" /\ status'[v] \notin {"none", status[v]}
           => CanTransition(status[v], status'[v])]_vars

\* The row of a removed VM never comes back, whatever late stop, start,
\* sweep or reconcile still holds a copy of it.
NoResurrection ==
    [][\A v \in Vms : v \in used /\ status[v] = "none" /\ status'[v] # "none"
           => \E a \in Actors : task[a].pc = "create_insert" /\ task[a].vm = v]_vars

\* The guests that write the disk of v, the ones out of reach apart.
Guests(v) == {p \in Pids : Guest(p) /\ owner[p] = v /\ ~OutOfReach(p)}

\* Ids whose VM is removed or was never finished.
Retired ==
    {v \in used : /\ status[v] = "none"
                  /\ \A a \in Actors : task[a].vm = v =>
                         task[a].pc \notin {"create_spawn", "create_insert"}}

Contract == INSTANCE VmContract
    WITH row <- status, gone <- Retired, guests <- [v \in Vms |-> Guests(v)]

\* Seen through rows and running guests alone, the tasks, the shims, crashes
\* and recovery do what VmContract promises: a row is marked Stopped or
\* deleted only once its guest is, and one guest ends before the next boots,
\* but for the guests out of reach.
ImplementsContract == Contract!Spec

\* start_with never spawns a second shim beside the guest an active row names.
StartOnlyStopped ==
    [][\A a \in Actors : task[a].pc = "start_spawn" /\ task'[a].pc = "start_commit"
           => \A p \in Pids : proc[p] = "live" /\ owner[p] = task[a].vm => ~Recorded(p)]_vars

\* While the runtime stays up, the sweep settles every row of a VM with an
\* idle policy that nothing else would: one left Stopping by a cancelled or
\* hanging stop, one whose shim is dead (a zombie passes is_pid_alive).
SweepSettles ==
    <>[](up = "up") =>
        \A v \in AutoStop :
            status[v] = "Stopping" \/ (Active(status[v]) /\ proc[pid[v]] \in {"zombie", "gone"})
                ~> ~Active(status[v])

\* A VM whose process has exited is listed as Stopped, sooner or later.
ExitedIsListed ==
    <>[](up = "up") =>
        \A v \in Vms :
            Active(status[v]) /\ proc[pid[v]] \in {"zombie", "gone"} ~> ~Active(status[v])

\* stop_timeout comes back: the guest stops in time or gets SIGKILL.
StopReturns ==
    \A a \in Actors : task[a].pc = "stop_rpc" ~> task[a].pc \notin {"stop_rpc", "stop_wait"}

=============================================================================
