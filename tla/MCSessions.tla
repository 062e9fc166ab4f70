------------------------------- MODULE MCSessions -------------------------------
(* The components whose two sides wait for one another, for TLC: snapshots,    *)
(* exec sessions, the child reaper and the launch of a shim.  They share no    *)
(* state: each behaviour is a behaviour of one of them, chosen at the start,   *)
(* while the others rest.                                                      *)
EXTENDS Naturals, Sequences, Snapshot

CONSTANTS
    PipeCap, WireCap, MaxStdin, OutCap,  \* ExecSession
    Kids, Strays, Drain, Nobody          \* Reaper

VARIABLES
    part,           \* the component of this behaviour
    opt, guest, got, skewed, job, inpipe, stdin, outpipe, open,
    ended, killer, cause, unguarded, host, up, rest, down,
    proc, waiters, told, lock, rstep, sigchld,
    lcfg, kern, parent, lop, lpc, arts, row, held, carried, required,
    keep, shim, layers, ghost, strayed

X == INSTANCE ExecSession
R == INSTANCE Reaper
L == INSTANCE Launch

snapshotVars == <<serial, vm, frozen, list, slipped, req, step, copy, hot, bare,
                 torn, name, files, rows>>
execVars == <<opt, guest, got, skewed, job, inpipe, stdin, outpipe, open,
             ended, killer, cause, unguarded, host, up, rest, down>>
reaperVars == <<proc, waiters, told, lock, rstep, sigchld>>
launchVars == <<lcfg, kern, parent, lop, lpc, arts, row, held, carried, required,
               keep, shim, layers, ghost, strayed>>

all == <<part, snapshotVars, execVars, reaperVars, launchVars>>

AllInit ==
    /\ part \in {"snapshot", "exec", "reaper", "launch"}
    /\ Init
    /\ X!Init
    /\ R!Init
    /\ L!Init
    /\ part = "snapshot" \/ (serial /\ vm = "running")

\* A step of component p, which leaves the others as they are.
Only(p) ==
    /\ part = p
    /\ UNCHANGED part
    /\ IF p = "snapshot" THEN TRUE ELSE UNCHANGED snapshotVars
    /\ IF p = "exec" THEN TRUE ELSE UNCHANGED execVars
    /\ IF p = "reaper" THEN TRUE ELSE UNCHANGED reaperVars
    /\ IF p = "launch" THEN TRUE ELSE UNCHANGED launchVars

AllNext ==
    \/ Only("snapshot") /\ Next
    \/ Only("exec") /\ X!Next
    \/ Only("reaper") /\ R!Next
    \/ Only("launch") /\ L!Next

\* The fairness of a component, for its own behaviours.
SnapshotFairness ==
    \A s \in Snaps :
        /\ WF_snapshotVars(part = "snapshot" /\ CopyEnds(s))
        /\ WF_snapshotVars(part = "snapshot" /\ CopyReturns(s))
        /\ WF_snapshotVars(part = "snapshot" /\ ThawFails(s))
        /\ WF_snapshotVars(part = "snapshot" /\ Insert(s))
        /\ WF_snapshotVars(part = "snapshot" /\ GuestStep(s))

ExecFairness ==
    /\ WF_execVars(part = "exec" /\ X!GuestStep)
    /\ WF_execVars(part = "exec" /\ X!Timeout)
    /\ WF_execVars(part = "exec" /\ X!HostRecv)
    /\ WF_execVars(part = "exec" /\ X!Deliver)

ReaperFairness ==
    /\ WF_reaperVars(part = "reaper" /\ R!DrainTask)
    /\ \A k \in Kids : WF_reaperVars(part = "reaper" /\ R!Spawner(k))

LaunchFairness == WF_launchVars(part = "launch" /\ L!Watchdog)

AllSpec == AllInit /\ [][AllNext]_all

-----------------------------------------------------------------------------
(* The properties of the components, as properties of this module.         *)

\* A guest that one snapshot froze is thawed again, if the snapshot is alone
\* and its task is polled (snapshot.rs, create).
Thaws == SnapshotFairness => SerialThaws

\* No process of a job's group outlives the session that ran it (exec/mod.rs,
\* KillerGuard).
JobEndsWithSession == X!JobEndsWithSession

\* The exit status is sent after all the output of the job (exec/mod.rs, the
\* relay loop).
OutputBeforeExit == X!OutputBeforeExit

\* An exec session with a timeout ends, however its two sides block one another,
\* unless a process that left the job's group stays (exec/mod.rs,
\* spawn_timeout_killer and kill_job).
SessionEnds == ExecFairness => X!SessionEnds

\* The exit of a child reaches the session that waits for it (reaper.rs).
ExitDelivered == ReaperFairness => R!ExitDelivered

\* A create that fails leaves no disk, socket, shim or secret behind
\* (boot/spawn.rs, SpawnAbort).
FailedCreateLeavesNothing == L!FailedCreateLeavesNothing

\* A shim enters the VM with every layer its configuration asks for (shim
\* apply.rs, jail lib.rs).
EnteredAsConfigured == L!EnteredAsConfigured

\* A shim that is not detached ends when its runtime has died (watchdog.rs).
OrphanEnds == LaunchFairness => L!OrphanEnds

=============================================================================
