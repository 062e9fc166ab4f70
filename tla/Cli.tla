--------------------------------- MODULE Cli ---------------------------------
(****************************************************************************)
(* The bux commands, as processes that come and go.  Each opens the         *)
(* runtime (an exclusive flock on bux.lock, then recovery of the rows),     *)
(* works on one VM, and either returns, so that dropping the Runtime stops  *)
(* the attached VMs, or leaves by std::process::exit, which drops nothing.  *)
(* A VM started without --detach belongs to the command that started it.    *)
(*                                                                          *)
(* Writes to the state database may fail (a full disk); reads do not.  How  *)
(* a VM is created, booted and watched is the subject of Launch.            *)
(****************************************************************************)
EXTENDS Naturals, FiniteSets

CONSTANTS Commands, Vms, Nobody

VARIABLES
    vmrow,   \* VM -> its row: status, and the detach and auto_remove flags
    vmdisk,  \* the VMs that have an overlay
    vmshim,  \* VM -> its shim: alive, attached to its parent, and the parent
    rtlock,  \* the holder of bux.lock
    cmd      \* command -> where it is, its VM, and where a stop leads it

cvars == <<vmrow, vmdisk, vmshim, rtlock, cmd>>

NoRow == [st |-> "none", detach |-> FALSE, rm |-> FALSE]
NoShim == [up |-> FALSE, attached |-> FALSE, parent |-> "left"]
Idle == [at |-> "idle", vm |-> Nobody, after |-> "drop"]

Init ==
    /\ vmrow = [v \in Vms |-> NoRow]
    /\ vmdisk = {}
    /\ vmshim = [v \in Vms |-> NoShim]
    /\ rtlock = Nobody
    /\ cmd = [c \in Commands |-> Idle]

Exists(v) == vmrow[v].st # "none"
Active(r) == r.st \in {"running", "stopping"}
Alive(v) == vmshim[v].up

At(c, at) == cmd[c].at = at
Goto(c, at) == cmd' = [cmd EXCEPT ![c].at = at]

(* Vm::mark_stopped: an auto_remove VM goes altogether, disk before row.    *)
MarkStopped(v, ok) ==
    /\ vmdisk' = IF vmrow[v].rm THEN vmdisk \ {v} ELSE vmdisk
    /\ vmrow' = CASE ~ok \/ ~Exists(v) -> vmrow
                  [] ok /\ Exists(v) /\ vmrow[v].rm -> [vmrow EXCEPT ![v] = NoRow]
                  [] OTHER -> [vmrow EXCEPT ![v].st = "stopped"]

SigKill(v) == vmshim' = [vmshim EXCEPT ![v].up = FALSE]

(* Runtime::recover: a row without a process is stopped, and goes if it is  *)
(* auto_remove; a live shim keeps its row.                                  *)
Recovered(v) ==
    LET dead == Active(vmrow[v]) /\ ~Alive(v)
    IN  CASE vmrow[v].rm /\ (dead \/ vmrow[v].st = "stopped") -> NoRow
          [] dead /\ ~vmrow[v].rm -> [vmrow[v] EXCEPT !.st = "stopped"]
          [] OTHER -> vmrow[v]

Recover ==
    /\ vmrow' = [v \in Vms |-> Recovered(v)]
    /\ vmdisk' = {v \in vmdisk : Exists(v) => Recovered(v) # NoRow}

(* Every command but reset opens the runtime; a second one finds it busy.   *)
OpenRuntime(c, op, v) ==
    /\ At(c, "idle")
    /\ rtlock = Nobody
    /\ rtlock' = c
    /\ Recover
    /\ cmd' = [cmd EXCEPT ![c] = [at |-> op, vm |-> v, after |-> "drop"]]
    /\ UNCHANGED vmshim

(* Runtime::drop ends in releasing the lock; process::exit only does that.  *)
Release(c) ==
    /\ rtlock' = Nobody
    /\ cmd' = [cmd EXCEPT ![c] = Idle]

Forsaken(c, how) ==
    [v \in Vms |-> IF vmshim[v].parent = c
                     THEN [vmshim[v] EXCEPT !.parent = how] ELSE vmshim[v]]

(* ------------------------------ bux run --------------------------------- *)

(* create, or nothing: a failed one undoes itself.  A detached run is over  *)
(* with it, a foreground one goes on to its job.                            *)
Create(c, detach, rm) ==
    LET v == cmd[c].vm IN
    /\ At(c, "run")
    /\ ~Exists(v)
    /\ ~Alive(v)
    /\ \/ /\ vmrow' = [vmrow EXCEPT ![v] = [st |-> "running", detach |-> detach, rm |-> rm]]
          /\ vmdisk' = vmdisk \cup {v}
          /\ vmshim' = [vmshim EXCEPT ![v] = [up |-> TRUE, attached |-> ~detach, parent |-> c]]
          /\ Goto(c, IF detach THEN "drop" ELSE "await")
       \/ /\ Goto(c, "drop")
          /\ UNCHANGED <<vmrow, vmdisk, vmshim>>
    /\ UNCHANGED rtlock

(* The foreground job: it ends with a code, it breaks, there was none and   *)
(* the VM ended, or SIGTERM or SIGINT comes first.                          *)
JobDone(c) ==
    /\ At(c, "await")
    /\ \E after \in {"drop", "exit", "signal"} :
           cmd' = [cmd EXCEPT ![c].at = "stop", ![c].after = after]
    /\ UNCHANGED <<vmrow, vmdisk, vmshim, rtlock>>

JobFailed(c) ==
    /\ At(c, "await")
    /\ Goto(c, "drop")
    /\ UNCHANGED <<vmrow, vmdisk, vmshim, rtlock>>

(* Vm::wait, of a run without a job and of bux wait.                        *)
Wait(c) ==
    LET v == cmd[c].vm IN
    /\ \/ At(c, "await")
       \/ At(c, "wait") /\ Exists(v)
    /\ ~Alive(v)
    /\ \E ok \in BOOLEAN : MarkStopped(v, ok)
    /\ Goto(c, "drop")
    /\ UNCHANGED <<vmshim, rtlock>>

(* ------------------------------- stopping ------------------------------- *)

(* Mutation: a stop that failed is left at that.                            *)
FallBackNot(c) == UNCHANGED <<vmrow, vmdisk, vmshim>>
(* stop_handle after a signal: a stop that failed is followed by a kill.    *)
FallBack(c) ==
    IF cmd[c].after = "signal" /\ Alive(cmd[c].vm)
      THEN SigKill(cmd[c].vm) /\ \E ok \in BOOLEAN : MarkStopped(cmd[c].vm, ok)
      ELSE UNCHANGED <<vmrow, vmdisk, vmshim>>

AfterFailure(c) == Goto(c, IF cmd[c].after = "signal" THEN "exit" ELSE "drop")
AfterStop(c) ==
    Goto(c, CASE cmd[c].after = "signal" -> "exit" [] OTHER -> cmd[c].after)

(* stop_timeout: only a running VM; Stopping is written before the guest is *)
(* asked to shut down.                                                      *)
BeginStop(c) ==
    LET v == cmd[c].vm IN
    /\ At(c, "stop")
    /\ \/ /\ vmrow[v].st = "running"
          /\ vmrow' = [vmrow EXCEPT ![v].st = "stopping"]
          /\ Goto(c, "stopping")
          /\ UNCHANGED <<vmdisk, vmshim>>
       \/ FallBack(c) /\ AfterFailure(c)
    /\ UNCHANGED rtlock

(* The shim ends in time, or is killed; then the row follows.               *)
EndStop(c) ==
    LET v == cmd[c].vm IN
    /\ At(c, "stopping")
    /\ SigKill(v)
    /\ \E ok \in BOOLEAN :
           /\ MarkStopped(v, ok)
           /\ IF ok THEN AfterStop(c) ELSE AfterFailure(c)
    /\ UNCHANGED rtlock

(* bux stop and restart begin with a handle: a dead shim's row is stopped.  *)
Get(c, op) ==
    LET v == cmd[c].vm
        dead == Active(vmrow[v]) /\ ~Alive(v) IN
    /\ At(c, op)
    /\ Exists(v)
    /\ vmrow' = IF dead THEN [vmrow EXCEPT ![v].st = "stopped"] ELSE vmrow
    /\ cmd' = [cmd EXCEPT ![c] = [at |-> IF op = "restart" /\ vmrow'[v].st # "running"
                                           THEN "start" ELSE "stop",
                                  vm |-> v,
                                  after |-> IF op = "restart" THEN "start" ELSE "drop"]]
    /\ UNCHANGED <<vmdisk, vmshim, rtlock>>

(* Vm::start, the second half of a restart: only a stopped VM, and a VM     *)
(* that --rm took with the stop has no disk to boot from.                   *)
Start(c) ==
    LET v == cmd[c].vm IN
    /\ At(c, "start")
    /\ \/ /\ vmrow[v].st = "stopped"
          /\ v \in vmdisk
          /\ vmrow' = [vmrow EXCEPT ![v].st = "running"]
          /\ vmshim' = [vmshim EXCEPT ![v] = [up |-> TRUE, attached |-> ~vmrow[v].detach,
                                             parent |-> c]]
       \/ UNCHANGED <<vmrow, vmshim>>
    /\ Goto(c, "drop")
    /\ UNCHANGED <<vmdisk, rtlock>>

(* ------------------------- commands on other VMs ------------------------ *)

(* bux kill signals the shim and leaves the row to whoever looks next.      *)
KillVm(c) ==
    /\ At(c, "kill")
    /\ Exists(cmd[c].vm)
    /\ SigKill(cmd[c].vm)
    /\ Goto(c, "drop")
    /\ UNCHANGED <<vmrow, vmdisk, rtlock>>

(* bux rm: with -f the VM is killed first; only a stopped VM goes.          *)
Rm(c, force) ==
    LET v == cmd[c].vm IN
    /\ At(c, "rm")
    /\ Exists(v)
    /\ IF force \/ ~Alive(v)
         THEN /\ SigKill(v)
              /\ vmrow' = [vmrow EXCEPT ![v] = NoRow]
              /\ vmdisk' = vmdisk \ {v}
         ELSE UNCHANGED <<vmrow, vmdisk, vmshim>>
    /\ Goto(c, "drop")
    /\ UNCHANGED rtlock

(* bux prune: list marks dead rows stopped, and every stopped row goes.     *)
Prune(c) ==
    LET gone == {v \in Vms : Exists(v) /\ (~Alive(v) \/ vmrow[v].st = "stopped")} IN
    /\ At(c, "prune")
    /\ vmrow' = [v \in Vms |-> IF v \in gone THEN NoRow ELSE vmrow[v]]
    /\ vmdisk' = vmdisk \ gone
    /\ Goto(c, "drop")
    /\ UNCHANGED <<vmshim, rtlock>>

(* bux clone, and snapshot restore: a VM of its own, --rm like its source,  *)
(* and always detached.                                                     *)
CloneBox(c) ==
    LET v == cmd[c].vm
        dead == Active(vmrow[v]) /\ ~Alive(v)
        got == [vmrow EXCEPT ![v].st = IF dead THEN "stopped" ELSE @]
    IN
    /\ At(c, "clone")
    /\ Exists(v)
    /\ \/ \E w \in Vms :
            /\ ~Exists(w)
            /\ ~Alive(w)
            /\ vmrow' = [got EXCEPT ![w] = [st |-> "running", detach |-> TRUE, rm |-> got[v].rm]]
            /\ vmdisk' = vmdisk \cup {w}
            /\ vmshim' = [vmshim EXCEPT ![w] = [up |-> TRUE, attached |-> FALSE, parent |-> c]]
       \/ vmrow' = got /\ UNCHANGED <<vmdisk, vmshim>>
    /\ Goto(c, "drop")
    /\ UNCHANGED rtlock

(* bux exec passes a failing job's code on with process::exit.              *)
Exec(c) ==
    /\ At(c, "exec")
    /\ \E at \in {"exit", "drop"} : Goto(c, at)
    /\ UNCHANGED <<vmrow, vmdisk, vmshim, rtlock>>

(* bux cp, inspect, logs, stats: nothing of a VM changes here.              *)
Look(c) ==
    /\ At(c, "look")
    /\ Goto(c, "drop")
    /\ UNCHANGED <<vmrow, vmdisk, vmshim, rtlock>>

(* bux ps: Runtime::list marks the rows of dead shims stopped, and takes    *)
(* those of --rm away.                                                      *)
Ps(c) ==
    /\ At(c, "ps")
    /\ Recover
    /\ Goto(c, "drop")
    /\ UNCHANGED <<vmshim, rtlock>>

(* The target is not there: the command fails.                              *)
NotFound(c) ==
    /\ \E op \in {"stop", "restart", "kill", "rm", "wait", "clone", "exec", "look"} :
           At(c, op)
    /\ ~Exists(cmd[c].vm)
    /\ Goto(c, "drop")
    /\ UNCHANGED <<vmrow, vmdisk, vmshim, rtlock>>

(* bux system reset takes the lock and deletes the data directory; it does  *)
(* not look for VMs.                                                        *)
Reset(c) ==
    /\ At(c, "idle")
    /\ rtlock = Nobody
    /\ vmrow' = [v \in Vms |-> NoRow]
    /\ vmdisk' = {}
    /\ UNCHANGED <<vmshim, rtlock, cmd>>

(* ------------------------------- leaving -------------------------------- *)

(* Runtime::drop calls shutdown_sync: every live attached VM is terminated, *)
(* one after the other, and its row marked stopped (best effort).           *)
Terminates(v) == Active(vmrow[v]) /\ Alive(v) /\ ~vmrow[v].detach

ShutdownOne(c, v) ==
    /\ At(c, "drop")
    /\ Terminates(v)
    /\ SigKill(v)
    /\ \/ vmrow' = [vmrow EXCEPT ![v].st = "stopped"]
       \/ UNCHANGED vmrow
    /\ UNCHANGED <<vmdisk, rtlock, cmd>>

Return(c) ==
    /\ At(c, "drop")
    /\ \A v \in Vms : ~Terminates(v)
    /\ vmshim' = Forsaken(c, "left")
    /\ Release(c)
    /\ UNCHANGED <<vmrow, vmdisk>>

ProcessExit(c) ==
    /\ At(c, "exit")
    /\ vmshim' = Forsaken(c, "left")
    /\ Release(c)
    /\ UNCHANGED <<vmrow, vmdisk>>

(* A command can be killed anywhere, and interrupted until its handlers are *)
(* there; the kernel drops its lock.                                        *)
Killed(c) ==
    /\ ~At(c, "idle")
    /\ vmshim' = Forsaken(c, "killed")
    /\ Release(c)
    /\ UNCHANGED <<vmrow, vmdisk>>

(* A shim ends: the guest powers off, it crashes, its watchdog sees the     *)
(* parent gone.                                                             *)
ShimEnds(v) ==
    /\ Alive(v)
    /\ SigKill(v)
    /\ UNCHANGED <<vmrow, vmdisk, rtlock, cmd>>

Ops == {"run", "stop", "restart", "kill", "rm", "wait", "prune", "clone", "exec", "look",
        "ps"}

Step(c) ==
    \/ \E op \in Ops, v \in Vms : OpenRuntime(c, op, v)
    \/ \E detach, rm \in BOOLEAN : Create(c, detach, rm)
    \/ JobDone(c) \/ JobFailed(c) \/ Wait(c)
    \/ BeginStop(c) \/ EndStop(c)
    \/ \E op \in {"stop", "restart"} : Get(c, op)
    \/ Start(c) \/ KillVm(c) \/ (\E force \in BOOLEAN : Rm(c, force))
    \/ Prune(c) \/ CloneBox(c) \/ Exec(c) \/ Look(c) \/ Ps(c) \/ NotFound(c) \/ Reset(c)
    \/ (\E v \in Vms : ShutdownOne(c, v)) \/ Return(c) \/ ProcessExit(c) \/ Killed(c)

Next == (\E c \in Commands : Step(c)) \/ \E v \in Vms : ShimEnds(v)

Spec == Init /\ [][Next]_cvars

-----------------------------------------------------------------------------
(* What bux run promises without --detach: when the command that started a  *)
(* VM has left by itself, by any path (the job ended or broke, a signal, a  *)
(* failed stop, a restart of an attached VM, an exit that drops nothing),   *)
(* the VM's shim no longer runs.  Only a killed command may leave one, for  *)
(* the shim's own watchdog to end.                                          *)
AttachedEnds ==
    \A v \in Vms : Alive(v) /\ vmshim[v].attached => vmshim[v].parent # "left"

=============================================================================
