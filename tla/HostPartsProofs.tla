-------------------------- MODULE HostPartsProofs ---------------------------
(***************************************************************************)
(* Components of the host: a command that leaves by itself leaves no       *)
(* attached VM, a worker keeps the name it serves under, what the payload  *)
(* store gave out stays whole, and a base disk has what its name says,     *)
(* with an inductive invariant for each component.                         *)
(***************************************************************************)
EXTENDS HostParts, TLAPS

-----------------------------------------------------------------------------
(* Attached runs (cli run.rs and the commands beside it).                  *)

\* The values of the variables.
Rows == [st : {"none", "running", "stopping", "stopped"}, detach : BOOLEAN, rm : BOOLEAN]
Shims == [up : BOOLEAN, attached : BOOLEAN, parent : Commands \cup {"left", "killed"}]
Places == {"idle", "await", "stopping", "start", "drop", "exit"} \cup C!Ops
Cmds == [at : Places, vm : Vms \cup {Nobody}, after : {"drop", "exit", "signal", "start"}]

\* A command at work has the lock of the runtime and a VM.
CliTypes ==
    /\ vmrow \in [Vms -> Rows] /\ vmshim \in [Vms -> Shims] /\ cmd \in [Commands -> Cmds]
    /\ \A c \in Commands : cmd[c].at # "idle" => rtlock = c /\ cmd[c].vm \in Vms

\* v runs attached to command c.
Held(c, v) == vmshim[v].up /\ vmshim[v].attached /\ vmshim[v].parent = c

\* Where a command may be while a VM runs attached to it.
Working == {"await", "stop", "stopping", "drop"}

\* A shim has a parent only while that holds the lock; one that runs attached to it is the
\* VM it works on, and its row says what a drop of the runtime looks for.
Minded(v) ==
    /\ vmshim[v].parent \in Commands => rtlock = vmshim[v].parent
    /\ ~Held("left", v)
    /\ \A c \in Commands : Held(c, v) =>
           v = cmd[c].vm /\ cmd[c].at \in Working /\ C!Active(vmrow[v]) /\ ~vmrow[v].detach

\* The inductive invariant.
CInv == CliTypes /\ \A v \in Vms : Minded(v)

\* CInv holds at first: no VM and no command.
LEMMA CInvInit == C!Init => CInv
<1> SUFFICES ASSUME C!Init PROVE CInv
    BY Zenon
<1>1. C!NoRow \in Rows /\ C!NoShim \in Shims /\ C!Idle \in Cmds /\ C!Idle.at = "idle"
    <2>1. C!NoRow \in Rows
        BY Zenon DEF C!NoRow, Rows
    <2>2. C!NoShim \in Shims
        BY Zenon DEF C!NoShim, Shims
    <2>3. C!Idle \in Cmds /\ C!Idle.at = "idle"
        BY Zenon DEF C!Idle, Cmds, Places
    <2> QED BY Zenon, <2>1, <2>2, <2>3
<1>2. ~C!NoShim.up /\ C!NoShim.parent \notin Commands
    BY Zenon, CliAssumption DEF C!NoShim
<1> HIDE DEF C!NoRow, C!NoShim, C!Idle
<1> QED BY Zenon, <1>1, <1>2 DEF C!Init, CInv, CliTypes, Minded, Held

\* A step of the command that holds the lock and keeps it.
LEMMA CommandStep ==
    ASSUME CInv, NEW c \in Commands, rtlock = c, UNCHANGED rtlock,
           NEW r \in Cmds, r.vm \in Vms, cmd' = [cmd EXCEPT ![c] = r],
           vmrow' \in [Vms -> Rows], vmshim' \in [Vms -> Shims],
           \A v \in Vms : \/ vmshim'[v] = vmshim[v]
                          \/ ~vmshim'[v].up /\ vmshim'[v].parent = vmshim[v].parent
                          \/ vmshim'[v].parent = c,
           \A v \in Vms : Held(c, v)' =>
                v = r.vm /\ r.at \in Working /\ C!Active(vmrow'[v]) /\ ~vmrow'[v].detach
    PROVE  CInv'
<1>1. cmd' \in [Commands -> Cmds] /\ cmd'[c] = r /\ \A d \in Commands \ {c} : cmd'[d] = cmd[d]
    BY Zenon DEF CInv, CliTypes
<1>2. CliTypes'
    BY Zenon, <1>1 DEF CInv, CliTypes
<1>3. ASSUME NEW v \in Vms PROVE Minded(v)'
    <2>1. Minded(v) /\ "left" \notin Commands
        BY Zenon, CliAssumption DEF CInv
    <2>2. vmshim'[v].parent \in Commands => vmshim'[v].parent = c
        BY Zenon, <2>1 DEF Minded
    <2>3. ~Held("left", v)'
        BY Zenon, <2>1 DEF Minded, Held
    <2> QED BY Zenon, <1>1, <2>2, <2>3 DEF Minded, Held
<1> QED BY Zenon, <1>2, <1>3 DEF CInv

\* One that leaves alone who runs and what the rows of its own VMs say.
LEMMA GotoStep ==
    ASSUME CInv, NEW c \in Commands, cmd[c].at # "idle", UNCHANGED rtlock,
           NEW r \in Cmds, r.vm = cmd[c].vm, cmd' = [cmd EXCEPT ![c] = r],
           vmrow' \in [Vms -> Rows], vmshim' \in [Vms -> Shims],
           \A v \in Vms : vmshim'[v] = vmshim[v] \/ (~vmshim'[v].up /\ vmshim'[v].parent = vmshim[v].parent),
           \A v \in Vms : Held(c, v) =>
                \/ ~vmshim'[v].up
                \/ /\ r.at \in Working
                   /\ \/ vmrow'[v] = vmrow[v] 
                      \/ C!Active(vmrow'[v]) /\ vmrow'[v].detach = vmrow[v].detach
    PROVE  CInv'
<1>1. rtlock = c /\ r.vm \in Vms
    BY Zenon DEF CInv, CliTypes
<1>2. ASSUME NEW v \in Vms, Held(c, v)'
      PROVE  v = r.vm /\ r.at \in Working /\ C!Active(vmrow'[v]) /\ ~vmrow'[v].detach
    <2>1. Held(c, v) /\ vmshim'[v].up
        BY Zenon, <1>2 DEF Held
    <2>2. v = cmd[c].vm /\ C!Active(vmrow[v]) /\ ~vmrow[v].detach
        BY Zenon, <2>1 DEF CInv, Minded
    <2> QED BY Zenon, <2>1, <2>2
<1> QED BY Zenon, <1>1, <1>2, CommandStep

\* SIGKILL ends one shim.
LEMMA SigKillEffect ==
    ASSUME CInv, NEW v \in Vms, C!SigKill(v)
    PROVE  /\ vmshim' \in [Vms -> Shims] /\ ~vmshim'[v].up
           /\ \A u \in Vms : vmshim'[u] = vmshim[u] \/ (~vmshim'[u].up /\ vmshim'[u].parent = vmshim[u].parent)
<1> DEFINE r == [vmshim[v] EXCEPT !.up = FALSE]
<1>0. vmshim \in [Vms -> Shims]
    BY Zenon DEF CInv, CliTypes
<1>1. r \in Shims /\ ~r.up /\ r.parent = vmshim[v].parent
    BY Zenon, <1>0 DEF Shims
<1>2. vmshim' = [vmshim EXCEPT ![v] = r]
    BY Zenon DEF C!SigKill
<1> HIDE DEF r
<1> QED BY Zenon, <1>0, <1>1, <1>2

\* mark_stopped changes one row, or removes it.
LEMMA MarkStoppedEffect ==
    ASSUME CInv, NEW v \in Vms, NEW ok \in BOOLEAN, C!MarkStopped(v, ok)
    PROVE  vmrow' \in [Vms -> Rows] /\ \A u \in Vms \ {v} : vmrow'[u] = vmrow[u]
<1> DEFINE r == [vmrow[v] EXCEPT !.st = "stopped"]
<1>0. vmrow \in [Vms -> Rows]
    BY Zenon DEF CInv, CliTypes
<1>1. r \in Rows /\ C!NoRow \in Rows
    BY Zenon, <1>0 DEF Rows, C!NoRow
<1>2. vmrow' = vmrow \/ vmrow' = [vmrow EXCEPT ![v] = C!NoRow] \/ vmrow' = [vmrow EXCEPT ![v] = r]
    <2>1. CASE ~ok \/ ~C!Exists(v)
        BY Zenon, <2>1 DEF C!MarkStopped
    <2>2. CASE ~(~ok \/ ~C!Exists(v)) /\ vmrow[v].rm
        BY Zenon, <2>2 DEF C!MarkStopped
    <2>3. CASE ~(~ok \/ ~C!Exists(v)) /\ ~vmrow[v].rm
        BY Zenon, <2>3 DEF C!MarkStopped
    <2> QED BY Zenon, <2>1, <2>2, <2>3
<1> HIDE DEF r, C!NoRow
<1> QED BY Zenon, <1>0, <1>1, <1>2

\* Recovery, and what else walks the rows, leaves rows.
LEMMA RecoverEffect == ASSUME CInv, C!Recover PROVE vmrow' \in [Vms -> Rows]
<1>1. ASSUME NEW v \in Vms PROVE C!Recovered(v) \in Rows
    <2>0. vmrow[v] \in Rows
        BY Zenon DEF CInv, CliTypes
    <2>1. [vmrow[v] EXCEPT !.st = "stopped"] \in Rows /\ C!NoRow \in Rows
        BY Zenon, <2>0 DEF Rows, C!NoRow
    <2> QED BY Zenon, <2>0, <2>1 DEF C!Recovered
<1> QED BY Zenon, <1>1 DEF C!Recover

\* The command goes on with its VM.
LEMMA GotoRec ==
    ASSUME CInv, NEW c \in Commands, NEW at \in Places, C!Goto(c, at)
    PROVE  \E r \in Cmds : r.vm = cmd[c].vm /\ r.at = at /\ r.after = cmd[c].after
                           /\ cmd' = [cmd EXCEPT ![c] = r]
<1> DEFINE r == [cmd[c] EXCEPT !.at = at]
<1>1. cmd[c] \in Cmds
    BY Zenon DEF CInv, CliTypes
<1>2. r \in Cmds /\ r.vm = cmd[c].vm /\ r.at = at /\ r.after = cmd[c].after
    BY Zenon, <1>1 DEF Cmds
<1>3. cmd' = [cmd EXCEPT ![c] = r]
    BY Zenon DEF C!Goto
<1> QED BY Zenon, <1>2, <1>3

\* Every step of a command keeps CInv.
LEMMA CInvCommand == CInv /\ (\E c \in Commands : C!Step(c)) => CInv'
<1> SUFFICES ASSUME CInv, NEW c \in Commands, C!Step(c) PROVE CInv'
    BY Zenon
<1> DEFINE o == cmd[c]
           v == o.vm
<1>0. /\ vmrow \in [Vms -> Rows] /\ vmshim \in [Vms -> Shims] /\ o \in Cmds
      /\ cmd \in [Commands -> Cmds]
      /\ o.at \in Places /\ o.after \in {"drop", "exit", "signal", "start"}
      /\ o.at # "idle" => v \in Vms /\ rtlock = c
    BY Zenon DEF CInv, CliTypes, Cmds
<1>a. \A u \in Vms : Held(c, u) =>
          u = v /\ o.at \in Working /\ C!Active(vmrow[u]) /\ ~vmrow[u].detach
    BY Zenon DEF CInv, Minded
<1>b. \A u \in Vms : Held(c, u) => vmrow[u].st \in {"running", "stopping"} /\ C!Exists(u) /\ vmshim[u].up
    BY Zenon, <1>a DEF C!Active, C!Exists, Held
<1> HIDE DEF o, v
\* It goes on, and nothing of its VM changes.
<1>c. ASSUME NEW at \in Places, C!Goto(c, at), o.at # "idle", UNCHANGED rtlock,
             o.at \in Working => at \in Working \/ \A u \in Vms : ~Held(c, u),
             vmrow' \in [Vms -> Rows], \A u \in Vms : Held(c, u) => vmrow'[u] = vmrow[u],
             UNCHANGED vmshim
      PROVE  CInv'
    <2>1. PICK r \in Cmds : r.vm = o.vm /\ r.at = at /\ cmd' = [cmd EXCEPT ![c] = r]
        <3>1. C!Goto(c, at)
            BY Zenon, <1>c
        <3> QED BY Zenon, <3>1, GotoRec DEF o
    <2> QED BY Zenon, <1>0, <1>a, <1>c, <2>1, GotoStep DEF o
\* It goes on, having killed its VM.
<1>d. ASSUME NEW at \in Places, C!Goto(c, at), o.at # "idle", UNCHANGED rtlock,
             vmrow' \in [Vms -> Rows], C!SigKill(v)
      PROVE  CInv'
    <2>1. PICK r \in Cmds : r.vm = o.vm /\ r.at = at /\ cmd' = [cmd EXCEPT ![c] = r]
        <3>1. C!Goto(c, at)
            BY Zenon, <1>d
        <3> QED BY Zenon, <3>1, GotoRec DEF o
    <2>2. /\ vmshim' \in [Vms -> Shims] /\ ~vmshim'[v].up
          /\ \A u \in Vms : vmshim'[u] = vmshim[u] \/ (~vmshim'[u].up /\ vmshim'[u].parent = vmshim[u].parent)
        BY Zenon, <1>0, <1>d, SigKillEffect
    <2> QED BY Zenon, <1>0, <1>a, <1>d, <2>1, <2>2, GotoStep DEF o
<1>1. ASSUME NEW op \in C!Ops, NEW w \in Vms, C!OpenRuntime(c, op, w) PROVE CInv'
    <2> DEFINE r == [at |-> op, vm |-> w, after |-> "drop"]
    <2>1. /\ rtlock = Nobody /\ rtlock' = c /\ UNCHANGED vmshim /\ C!Recover
          /\ cmd' = [cmd EXCEPT ![c] = r] /\ Nobody \notin Commands /\ "left" \notin Commands
        BY Zenon, <1>1, CliAssumption DEF C!OpenRuntime
    <2>2. r \in Cmds /\ r.vm \in Vms
        BY Zenon DEF Cmds, Places
    <2> HIDE DEF r
    <2>3. vmrow' \in [Vms -> Rows] /\ cmd' \in [Commands -> Cmds] /\ cmd'[c].vm \in Vms
        BY Zenon, <1>0, <2>1, <2>2, RecoverEffect
    <2>4. \A d \in Commands \ {c} : cmd'[d] = cmd[d] /\ cmd[d].at = "idle"
        BY Zenon, <1>0, <2>1, <2>2 DEF CInv, CliTypes
    <2>5. CliTypes'
        BY Zenon, <1>0, <2>1, <2>3, <2>4 DEF CliTypes
    <2>6. \A u \in Vms : vmshim[u].parent \notin Commands /\ ~Held("left", u)
        BY Zenon, <2>1 DEF CInv, Minded
    <2>7. \A u \in Vms : Minded(u)'
        BY Zenon, <2>1, <2>6 DEF Minded, Held
    <2> QED BY Zenon, <2>5, <2>7 DEF CInv
<1>2. ASSUME NEW detach \in BOOLEAN, NEW rm \in BOOLEAN, C!Create(c, detach, rm) PROVE CInv'
    <2>0. o.at = "run" /\ v \in Vms /\ rtlock = c /\ UNCHANGED rtlock /\ \A u \in Vms : ~Held(c, u)
        BY Zenon, <1>0, <1>2, <1>a DEF C!Create, C!At, o, Working, C!Ops
    <2>1. CASE C!Goto(c, "drop") /\ UNCHANGED <<vmrow, vmdisk, vmshim>>
        BY Zenon, <1>0, <1>c, <2>0, <2>1 DEF Places
    <2>2. CASE /\ vmrow' = [vmrow EXCEPT ![v] = [st |-> "running", detach |-> detach, rm |-> rm]]
               /\ vmshim' = [vmshim EXCEPT ![v] = [up |-> TRUE, attached |-> ~detach, parent |-> c]]
               /\ C!Goto(c, IF detach THEN "drop" ELSE "await")
        <3> DEFINE row == [st |-> "running", detach |-> detach, rm |-> rm]
                   shim == [up |-> TRUE, attached |-> ~detach, parent |-> c]
                   at == IF detach THEN "drop" ELSE "await"
        <3>1. row \in Rows /\ C!Active(row) /\ row.detach = detach
            BY Zenon DEF Rows, C!Active
        <3>2. shim \in Shims /\ shim.parent = c /\ shim.attached = ~detach
            BY Zenon DEF Shims
        <3>3. at \in Places /\ at \in Working /\ C!Goto(c, at)
            BY Zenon, <2>2 DEF Places, Working
        <3>4. vmrow' = [vmrow EXCEPT ![v] = row] /\ vmshim' = [vmshim EXCEPT ![v] = shim]
            BY Zenon, <2>2
        <3> HIDE DEF row, shim, at
        <3>5. vmrow' \in [Vms -> Rows] /\ vmrow'[v] = row
            BY Zenon, <1>0, <2>0, <3>1, <3>4
        <3>6. vmshim' \in [Vms -> Shims] /\ vmshim'[v] = shim /\ \A u \in Vms \ {v} : vmshim'[u] = vmshim[u]
            BY Zenon, <1>0, <2>0, <3>2, <3>4
        <3>7. PICK r \in Cmds : r.vm = v /\ r.at = at /\ cmd' = [cmd EXCEPT ![c] = r]
            BY Zenon, <3>3, GotoRec DEF o, v
        <3>8. ASSUME NEW u \in Vms, Held(c, u)'
              PROVE  u = v /\ C!Active(vmrow'[u]) /\ ~vmrow'[u].detach
            <4>1. u = v
                BY Zenon, <2>0, <3>6, <3>8 DEF Held
            <4> QED BY Zenon, <3>1, <3>2, <3>5, <3>6, <3>8, <4>1 DEF Held
        <3>9. \A u \in Vms : vmshim'[u] = vmshim[u] \/ vmshim'[u].parent = c
            BY Zenon, <3>2, <3>6
        <3> QED BY Zenon, <2>0, <3>3, <3>5, <3>6, <3>7, <3>8, <3>9, CommandStep
    <2> QED BY Zenon, <1>2, <2>1, <2>2 DEF C!Create, o, v
<1>3. CASE C!JobDone(c)
    <2>1. PICK after \in {"drop", "exit", "signal"} :
              cmd' = [cmd EXCEPT ![c].at = "stop", ![c].after = after]
        BY Zenon, <1>3 DEF C!JobDone
    <2> DEFINE r == [o EXCEPT !.at = "stop", !.after = after]
    <2>2. r \in Cmds /\ r.vm = v /\ r.at = "stop"
        BY Zenon, <1>0 DEF Cmds, Places, C!Ops, v
    <2>3. cmd' = [cmd EXCEPT ![c] = r]
        BY Zenon, <2>1 DEF o
    <2>4. UNCHANGED <<vmrow, vmshim, rtlock>> /\ o.at = "await"
        BY Zenon, <1>3 DEF C!JobDone, C!At, o
    <2> HIDE DEF r
    <2> QED BY Zenon, <1>0, <2>2, <2>3, <2>4, GotoStep DEF o, v, Working
<1>4. CASE C!JobFailed(c)
    BY Zenon, <1>0, <1>4, <1>c DEF C!JobFailed, C!At, o, Places, Working
<1>5. CASE C!Wait(c)
    <2>1. /\ o.at \in {"await", "wait"} /\ v \in Vms /\ ~vmshim[v].up
          /\ UNCHANGED <<vmshim, rtlock>> /\ C!Goto(c, "drop")
        BY Zenon, <1>0, <1>5 DEF C!Wait, C!At, C!Alive, o, v
    <2>2. vmrow' \in [Vms -> Rows]
        BY Zenon, <1>5, <2>1, MarkStoppedEffect DEF C!Wait, o, v
    <2>3. \A u \in Vms : ~Held(c, u)
        BY Zenon, <1>a, <2>1 DEF Held
    <2> QED BY Zenon, <1>c, <2>1, <2>2, <2>3 DEF Places
<1>6. CASE C!BeginStop(c)
    <2>0. o.at = "stop" /\ v \in Vms /\ UNCHANGED rtlock
        BY Zenon, <1>0, <1>6 DEF C!BeginStop, C!At, o
    <2>1. CASE /\ vmrow[v].st = "running"
               /\ vmrow' = [vmrow EXCEPT ![v].st = "stopping"]
               /\ C!Goto(c, "stopping")
               /\ UNCHANGED <<vmdisk, vmshim>>
        <3> DEFINE row == [vmrow[v] EXCEPT !.st = "stopping"]
        <3>1. row \in Rows /\ C!Active(row) /\ row.detach = vmrow[v].detach
            BY Zenon, <1>0, <2>0 DEF Rows, C!Active
        <3>2. vmrow' = [vmrow EXCEPT ![v] = row]
            BY Zenon, <2>1
        <3> HIDE DEF row
        <3>3. vmrow' \in [Vms -> Rows] /\ vmrow'[v] = row /\ \A u \in Vms \ {v} : vmrow'[u] = vmrow[u]
            BY Zenon, <1>0, <2>0, <3>1, <3>2
        <3>4. PICK r \in Cmds : r.vm = v /\ r.at = "stopping" /\ cmd' = [cmd EXCEPT ![c] = r]
            BY Zenon, <2>1, GotoRec DEF o, v, Places
        <3>5. \A u \in Vms : vmrow'[u] = vmrow[u] \/ (C!Active(vmrow'[u]) /\ vmrow'[u].detach = vmrow[u].detach)
            BY Zenon, <3>1, <3>3
        <3>6. vmshim' \in [Vms -> Shims] /\ \A u \in Vms : vmshim'[u] = vmshim[u]
            BY Zenon, <1>0, <2>1
        <3>7. "stopping" \in Working /\ cmd[c].at # "idle" /\ v = cmd[c].vm
            BY Zenon, <2>0 DEF Working, o, v
        <3> QED BY Zenon, <2>0, <3>3, <3>4, <3>5, <3>6, <3>7, GotoStep
    <2>2. CASE C!FallBack(c) /\ C!AfterFailure(c)
        <3> DEFINE at == IF o.after = "signal" THEN "exit" ELSE "drop"
        <3>1. C!Goto(c, at) /\ at \in Places
            BY Zenon, <2>2 DEF C!AfterFailure, o, Places
        <3>2. CASE o.after = "signal" /\ vmshim[v].up
            <4>1. C!SigKill(v) /\ \E ok \in BOOLEAN : C!MarkStopped(v, ok)
                BY Zenon, <2>2, <3>2 DEF C!FallBack, C!Alive, o, v
            <4>2. vmrow' \in [Vms -> Rows]
                BY Zenon, <2>0, <4>1, MarkStoppedEffect
            <4> HIDE DEF at
            <4> QED BY Zenon, <1>d, <2>0, <3>1, <4>1, <4>2
        <3>3. CASE ~(o.after = "signal" /\ vmshim[v].up)
            <4>1. UNCHANGED <<vmrow, vmshim>>
                BY Zenon, <2>2, <3>3 DEF C!FallBack, C!Alive, o, v
            <4>2. at \in Working \/ \A u \in Vms : ~Held(c, u)
                BY Zenon, <1>a, <3>3 DEF Held, Working
            <4> HIDE DEF at
            <4> QED BY Zenon, <1>0, <1>c, <2>0, <3>1, <4>1, <4>2
        <3> QED BY Zenon, <3>2, <3>3
    <2> QED BY Zenon, <1>6, <2>1, <2>2 DEF C!BeginStop, o, v
<1>7. CASE C!EndStop(c)
    <2>1. o.at = "stopping" /\ v \in Vms /\ UNCHANGED rtlock /\ C!SigKill(v)
        BY Zenon, <1>0, <1>7 DEF C!EndStop, C!At, o, v
    <2>2. vmrow' \in [Vms -> Rows]
        BY Zenon, <1>7, <2>1, MarkStoppedEffect DEF C!EndStop, o, v
    <2>3. \E at \in Places : C!Goto(c, at)
        BY Zenon, <1>0, <1>7 DEF C!EndStop, C!AfterStop, C!AfterFailure, Places, o
    <2> QED BY Zenon, <1>d, <2>1, <2>2, <2>3
<1>8. ASSUME NEW op \in {"stop", "restart"}, C!Get(c, op) PROVE CInv'
    <2> DEFINE dead == C!Active(vmrow[v]) /\ ~C!Alive(v)
               at == IF op = "restart" /\ vmrow'[v].st # "running" THEN "start" ELSE "stop"
               r == [at |-> at, vm |-> v, after |-> IF op = "restart" THEN "start" ELSE "drop"]
               row == [vmrow[v] EXCEPT !.st = "stopped"]
    <2>1. o.at = op /\ v \in Vms /\ UNCHANGED <<vmshim, rtlock>>
        BY Zenon, <1>0, <1>8 DEF C!Get, C!At, o
    <2>2. r \in Cmds /\ r.vm = v /\ r.at = at /\ (op = "stop" => r.at = "stop")
        BY Zenon, <2>1 DEF Cmds, Places, C!Ops
    <2>3. cmd' = [cmd EXCEPT ![c] = r]
        BY Zenon, <1>8 DEF C!Get, o, v
    <2>4. vmrow' = vmrow \/ (~C!Alive(v) /\ vmrow' = [vmrow EXCEPT ![v] = row])
        BY Zenon, <1>8 DEF C!Get, o, v
    <2>5. row \in Rows
        BY Zenon, <1>0, <2>1 DEF Rows
    <2> HIDE DEF r, row, at
    <2>6. vmrow' \in [Vms -> Rows] /\ \A u \in Vms : Held(c, u) => vmrow'[u] = vmrow[u]
        BY Zenon, <1>0, <1>a, <2>1, <2>4, <2>5 DEF Held, C!Alive
    <2>7. op = "restart" => \A u \in Vms : ~Held(c, u)
        BY Zenon, <1>a, <2>1 DEF Working
    <2>8. vmshim' \in [Vms -> Shims] /\ \A u \in Vms : vmshim'[u] = vmshim[u]
        BY Zenon, <1>0, <2>1
    <2>9. "stop" \in Working /\ cmd[c].at # "idle" /\ v = cmd[c].vm
        BY Zenon, <2>1 DEF Working, o, v
    <2> QED BY Zenon, <2>1, <2>2, <2>3, <2>6, <2>7, <2>8, <2>9, GotoStep
<1>9. CASE C!Start(c)
    <2>0. o.at = "start" /\ v \in Vms /\ rtlock = c /\ UNCHANGED rtlock /\ C!Goto(c, "drop") /\ \A u \in Vms : ~Held(c, u)
        BY Zenon, <1>0, <1>9, <1>a DEF C!Start, C!At, o, Working
    <2>1. CASE UNCHANGED <<vmrow, vmshim>>
        BY Zenon, <1>0, <1>c, <2>0, <2>1 DEF Places
    <2>2. CASE /\ vmrow' = [vmrow EXCEPT ![v].st = "running"]
               /\ vmshim' = [vmshim EXCEPT ![v] = [up |-> TRUE, attached |-> ~vmrow[v].detach, parent |-> c]]
        <3> DEFINE row == [vmrow[v] EXCEPT !.st = "running"]
                   shim == [up |-> TRUE, attached |-> ~vmrow[v].detach, parent |-> c]
        <3>1. row \in Rows /\ C!Active(row) /\ row.detach = vmrow[v].detach /\ vmrow[v].detach \in BOOLEAN
            BY Zenon, <1>0, <2>0 DEF Rows, C!Active
        <3>2. shim \in Shims /\ shim.parent = c /\ shim.attached = ~vmrow[v].detach
            BY Zenon, <3>1 DEF Shims
        <3>4. vmrow' = [vmrow EXCEPT ![v] = row] /\ vmshim' = [vmshim EXCEPT ![v] = shim]
            BY Zenon, <2>2
        <3> HIDE DEF row, shim
        <3>5. vmrow' \in [Vms -> Rows] /\ vmrow'[v] = row
            BY Zenon, <1>0, <2>0, <3>1, <3>4
        <3>6. vmshim' \in [Vms -> Shims] /\ vmshim'[v] = shim /\ \A u \in Vms \ {v} : vmshim'[u] = vmshim[u]
            BY Zenon, <1>0, <2>0, <3>2, <3>4
        <3>7. PICK r \in Cmds : r.vm = v /\ r.at = "drop" /\ cmd' = [cmd EXCEPT ![c] = r]
            BY Zenon, <2>0, GotoRec DEF o, v, Places
        <3>8. ASSUME NEW u \in Vms, Held(c, u)'
              PROVE  u = v /\ C!Active(vmrow'[u]) /\ ~vmrow'[u].detach
            <4>1. u = v
                BY Zenon, <2>0, <3>6, <3>8 DEF Held
            <4> QED BY Zenon, <3>1, <3>2, <3>5, <3>6, <3>8, <4>1 DEF Held
        <3>9. \A u \in Vms : vmshim'[u] = vmshim[u] \/ vmshim'[u].parent = c
            BY Zenon, <3>2, <3>6
        <3> QED BY Zenon, <2>0, <3>5, <3>6, <3>7, <3>8, <3>9, CommandStep DEF Working
    <2> QED BY Zenon, <1>9, <2>1, <2>2 DEF C!Start, o, v
<1>10. CASE C!KillVm(c)
    <2>1. o.at = "kill" /\ v \in Vms /\ UNCHANGED <<vmrow, rtlock>> /\ C!Goto(c, "drop") /\ C!SigKill(v)
        BY Zenon, <1>0, <1>10 DEF C!KillVm, C!At, o, v
    <2> QED BY Zenon, <1>0, <1>d, <2>1 DEF Places
<1>11. ASSUME NEW force \in BOOLEAN, C!Rm(c, force) PROVE CInv'
    <2>1. o.at = "rm" /\ v \in Vms /\ UNCHANGED rtlock /\ C!Goto(c, "drop")
        BY Zenon, <1>0, <1>11 DEF C!Rm, C!At, o, v
    <2>2. CASE UNCHANGED <<vmrow, vmshim>>
        BY Zenon, <1>0, <1>c, <2>1, <2>2 DEF Places, Working
    <2>3. CASE C!SigKill(v) /\ vmrow' = [vmrow EXCEPT ![v] = C!NoRow]
        <3>1. C!NoRow \in Rows
            BY Zenon DEF C!NoRow, Rows
        <3>2. vmrow' \in [Vms -> Rows]
            BY Zenon, <1>0, <2>3, <3>1
        <3> QED BY Zenon, <1>d, <2>1, <2>3, <3>2 DEF Places
    <2> QED BY Zenon, <1>11, <2>2, <2>3 DEF C!Rm, o, v
<1>12. CASE C!Prune(c)
    <2>1. o.at = "prune" /\ UNCHANGED <<vmshim, rtlock>> /\ C!Goto(c, "drop")
        BY Zenon, <1>12 DEF C!Prune, C!At, o
    <2>2. C!NoRow \in Rows
        BY Zenon DEF C!NoRow, Rows
    <2>3. vmrow' \in [Vms -> Rows]
        BY Zenon, <1>0, <1>12, <2>2 DEF C!Prune
    <2>4. \A u \in Vms : ~Held(c, u)
        BY Zenon, <1>a, <2>1 DEF Working
    <2> QED BY Zenon, <1>c, <2>1, <2>3, <2>4 DEF Places
<1>13. CASE C!CloneBox(c)
    <2> DEFINE s == IF C!Active(vmrow[v]) /\ ~C!Alive(v) THEN "stopped" ELSE vmrow[v].st
               row == [vmrow[v] EXCEPT !.st = s]
               got == [vmrow EXCEPT ![v] = row]
    <2>0. o.at = "clone" /\ v \in Vms /\ rtlock = c /\ UNCHANGED rtlock /\ C!Goto(c, "drop") /\ \A u \in Vms : ~Held(c, u)
        BY Zenon, <1>0, <1>13, <1>a DEF C!CloneBox, C!At, o, Working
    <2>1. row \in Rows
        BY Zenon, <1>0, <2>0 DEF Rows
    <2>2. \/ vmrow' = got /\ UNCHANGED vmshim
          \/ \E w \in Vms :
                /\ vmrow' = [got EXCEPT ![w] = [st |-> "running", detach |-> TRUE, rm |-> got[v].rm]]
                /\ vmshim' = [vmshim EXCEPT ![w] = [up |-> TRUE, attached |-> FALSE, parent |-> c]]
        BY Zenon, <1>13 DEF C!CloneBox, o, v
    <2> HIDE DEF row
    <2>3. got \in [Vms -> Rows] /\ got[v].rm \in BOOLEAN
        BY Zenon, <1>0, <2>0, <2>1 DEF Rows
    <2> HIDE DEF got
    <2>4. CASE vmrow' = got /\ UNCHANGED vmshim
        BY Zenon, <1>0, <1>c, <2>0, <2>3, <2>4 DEF Places
    <2>5. ASSUME NEW w \in Vms,
                 vmrow' = [got EXCEPT ![w] = [st |-> "running", detach |-> TRUE, rm |-> got[v].rm]],
                 vmshim' = [vmshim EXCEPT ![w] = [up |-> TRUE, attached |-> FALSE, parent |-> c]]
          PROVE  CInv'
        <3> DEFINE new == [st |-> "running", detach |-> TRUE, rm |-> got[v].rm]
                   shim == [up |-> TRUE, attached |-> FALSE, parent |-> c]
        <3>1. new \in Rows /\ shim \in Shims /\ shim.parent = c /\ ~shim.attached
            BY Zenon, <2>3 DEF Rows, Shims
        <3>2. vmrow' = [got EXCEPT ![w] = new] /\ vmshim' = [vmshim EXCEPT ![w] = shim]
            BY Zenon, <2>5
        <3> HIDE DEF new, shim
        <3>3. /\ vmrow' \in [Vms -> Rows] /\ vmshim' \in [Vms -> Shims] /\ vmshim'[w] = shim
              /\ \A u \in Vms \ {w} : vmshim'[u] = vmshim[u]
            BY Zenon, <1>0, <2>3, <3>1, <3>2
        <3>4. PICK r \in Cmds : r.vm = v /\ cmd' = [cmd EXCEPT ![c] = r]
            BY Zenon, <2>0, GotoRec DEF o, v, Places
        <3>5. \A u \in Vms : ~Held(c, u)' /\ (vmshim'[u] = vmshim[u] \/ vmshim'[u].parent = c)
            BY Zenon, <2>0, <3>1, <3>3 DEF Held
        <3> QED BY Zenon, <2>0, <3>3, <3>4, <3>5, CommandStep
    <2> QED BY Zenon, <2>2, <2>4, <2>5
<1>14. CASE C!Exec(c)
    <2>1. /\ o.at = "exec" /\ UNCHANGED <<vmrow, vmshim, rtlock>>
          /\ C!Goto(c, "exit") \/ C!Goto(c, "drop")
        BY Zenon, <1>14 DEF C!Exec, C!At, o
    <2> QED BY Zenon, <1>0, <1>c, <2>1 DEF Places, Working
<1>15. CASE C!Look(c)
    BY Zenon, <1>0, <1>c, <1>15 DEF C!Look, C!At, o, Places, Working
<1>16. CASE C!Ps(c)
    <2>1. /\ o.at = "ps" /\ UNCHANGED <<vmshim, rtlock>> /\ C!Goto(c, "drop") /\ vmrow' \in [Vms -> Rows]
        BY Zenon, <1>16, RecoverEffect DEF C!Ps, C!At, o
    <2>2. \A u \in Vms : ~Held(c, u)
        BY Zenon, <1>a, <2>1 DEF Working
    <2> QED BY Zenon, <1>c, <2>1, <2>2 DEF Places
<1>17. CASE C!NotFound(c)
    <2>1. /\ UNCHANGED <<vmrow, vmshim, rtlock>> /\ C!Goto(c, "drop") /\ o.at # "idle"
        BY Zenon, <1>17 DEF C!NotFound, C!At, o
    <2> QED BY Zenon, <1>0, <1>c, <2>1 DEF Places, Working
<1>18. CASE C!Reset(c)
    <2>1. /\ rtlock = Nobody /\ UNCHANGED <<vmshim, rtlock, cmd>>
          /\ vmrow' = [u \in Vms |-> C!NoRow] /\ Nobody \notin Commands
        BY Zenon, <1>18, CliAssumption DEF C!Reset
    <2>2. C!NoRow \in Rows
        BY Zenon DEF C!NoRow, Rows
    <2>3. CliTypes'
        BY Zenon, <2>1, <2>2 DEF CInv, CliTypes
    <2>4. \A u \in Vms : vmshim[u].parent \notin Commands /\ ~Held("left", u)
        BY Zenon, <2>1 DEF CInv, Minded
    <2>5. \A u \in Vms : Minded(u)'
        BY Zenon, <2>1, <2>4 DEF Minded, Held
    <2> QED BY Zenon, <2>3, <2>5 DEF CInv
<1>19. ASSUME NEW w \in Vms, C!ShutdownOne(c, w) PROVE CInv'
    <2>1. o.at = "drop" /\ C!SigKill(w) /\ UNCHANGED <<rtlock, cmd>>
        BY Zenon, <1>19 DEF C!ShutdownOne, C!At, o
    <2> DEFINE row == [vmrow[w] EXCEPT !.st = "stopped"]
    <2>2. row \in Rows
        BY Zenon, <1>0 DEF Rows
    <2>3. vmrow' = vmrow \/ vmrow' = [vmrow EXCEPT ![w] = row]
        BY Zenon, <1>19 DEF C!ShutdownOne
    <2> HIDE DEF row
    <2>4. vmrow' \in [Vms -> Rows] /\ \A u \in Vms \ {w} : vmrow'[u] = vmrow[u]
        BY Zenon, <1>0, <2>2, <2>3
    <2>5. /\ vmshim' \in [Vms -> Shims] /\ ~vmshim'[w].up
          /\ \A u \in Vms : vmshim'[u] = vmshim[u] \/ (~vmshim'[u].up /\ vmshim'[u].parent = vmshim[u].parent)
        BY Zenon, <2>1, SigKillEffect
    <2>6. o \in Cmds /\ cmd' = [cmd EXCEPT ![c] = o] /\ o.at \in Working
        BY Zenon, <1>0, <2>1 DEF o, Working
    <2> QED BY Zenon, <2>1, <2>4, <2>5, <2>6, GotoStep DEF o
<1>20. CASE C!Return(c) \/ C!ProcessExit(c) \/ C!Killed(c)
    <2>1. PICK how \in {"left", "killed"} :
              /\ vmshim' = C!Forsaken(c, how) /\ C!Release(c) /\ UNCHANGED vmrow
              /\ how = "left" => \A u \in Vms : ~Held(c, u)
        <3>1. CASE C!Return(c)
            <4>1. \A u \in Vms : ~(C!Active(vmrow[u]) /\ C!Alive(u) /\ ~vmrow[u].detach)
                BY Zenon, <3>1 DEF C!Return, C!Terminates
            <4>2. \A u \in Vms : ~Held(c, u)
                BY Zenon, <1>a, <4>1 DEF Held, C!Alive
            <4> QED BY Zenon, <3>1, <4>2 DEF C!Return
        <3>2. CASE C!ProcessExit(c)
            <4>1. \A u \in Vms : ~Held(c, u)
                BY Zenon, <1>a, <3>2 DEF C!ProcessExit, C!At, o, Working
            <4> QED BY Zenon, <3>2, <4>1 DEF C!ProcessExit
        <3>3. CASE C!Killed(c)
            BY Zenon, <3>3 DEF C!Killed
        <3> QED BY Zenon, <1>20, <3>1, <3>2, <3>3
    <2>2. o.at # "idle" /\ rtlock = c /\ rtlock' = Nobody /\ cmd' = [cmd EXCEPT ![c] = C!Idle]
        BY Zenon, <1>0, <1>20, <2>1 DEF C!Return, C!ProcessExit, C!Killed, C!Release, C!At, o
    <2>3. C!Idle \in Cmds /\ C!Idle.at = "idle"
        BY Zenon DEF C!Idle, Cmds, Places
    <2>4. /\ \A d \in Commands : cmd'[d].at = "idle"
          /\ cmd' \in [Commands -> Cmds]
        BY Zenon, <1>0, <2>2, <2>3 DEF CInv, CliTypes
    <2>5. ASSUME NEW u \in Vms
          PROVE  /\ vmshim'[u] \in Shims
                 /\ vmshim'[u].parent \notin Commands
                 /\ ~Held("left", u)'
        <3> DEFINE s == [vmshim[u] EXCEPT !.parent = how]
        <3>1. /\ s \in Shims /\ s.parent = how /\ s.up = vmshim[u].up /\ s.attached = vmshim[u].attached
            BY Zenon, <1>0 DEF Shims
        <3>2. vmshim'[u] = IF vmshim[u].parent = c THEN s ELSE vmshim[u]
            BY Zenon, <2>1 DEF C!Forsaken
        <3> HIDE DEF s
        <3>3. vmshim[u] \in Shims /\ Minded(u) /\ {"left", "killed"} \cap Commands = {}
            BY Zenon, <1>0, CliAssumption DEF CInv
        <3> QED BY Zenon, <2>1, <2>2, <3>1, <3>2, <3>3 DEF Minded, Held
    <2>6. vmshim' \in [Vms -> Shims]
        BY Zenon, <2>1, <2>5 DEF C!Forsaken
    <2>7. CliTypes'
        BY Zenon, <1>0, <2>1, <2>4, <2>6 DEF CliTypes
    <2>8. \A u \in Vms : Minded(u)'
        BY Zenon, <2>5 DEF Minded, Held
    <2> QED BY Zenon, <2>7, <2>8 DEF CInv
<1> QED BY Zenon, <1>1, <1>2, <1>3, <1>4, <1>5, <1>6, <1>7, <1>8, <1>9, <1>10, <1>11, <1>12, <1>13,
           <1>14, <1>15, <1>16, <1>17, <1>18, <1>19, <1>20 DEF C!Step

\* A shim that ends by itself keeps CInv.
LEMMA CInvShim == CInv /\ (\E v \in Vms : C!ShimEnds(v)) => CInv'
<1> SUFFICES ASSUME CInv, NEW v \in Vms, C!ShimEnds(v) PROVE CInv'
    BY Zenon
<1>1. C!SigKill(v) /\ UNCHANGED <<vmrow, rtlock, cmd>>
    BY Zenon DEF C!ShimEnds
<1>2. /\ vmshim' \in [Vms -> Shims] /\ ~vmshim'[v].up
      /\ \A u \in Vms : vmshim'[u] = vmshim[u] \/ (~vmshim'[u].up /\ vmshim'[u].parent = vmshim[u].parent)
    BY Zenon, <1>1, SigKillEffect
<1>3. CliTypes'
    BY Zenon, <1>1, <1>2 DEF CInv, CliTypes
<1>4. \A u \in Vms : Minded(u)'
    BY Zenon, <1>1, <1>2 DEF CInv, Minded, Held
<1> QED BY Zenon, <1>3, <1>4 DEF CInv

\* A command that leaves by itself, by whichever path, leaves no VM running attached to it: the drop of
\* the runtime finds its row and stops it (cli run.rs, Runtime::drop).
THEOREM AttachedRunsEnd == C!Spec => []AttachedEnds
<1>1. CInv /\ [C!Next]_(C!cvars) => CInv'
    <2>1. CInv /\ UNCHANGED C!cvars => CInv'
        BY DEF C!cvars, CInv, CliTypes, Minded, Held
    <2> QED BY Zenon, <2>1, CInvCommand, CInvShim DEF C!Next
<1>2. CInv => AttachedEnds
    BY Zenon DEF CInv, Minded, Held, C!Alive, AttachedEnds, C!AttachedEnds
<1> QED BY <1>1, <1>2, CInvInit, PTL DEF C!Spec

-----------------------------------------------------------------------------
(* The socket of a worker (listen.rs).                                     *)

\* The stages before the socket, and the values of the variables.
Opening == {"down", "tcp", "prepare", "bind"}
WorkerRecs == [at : Opening \cup {"stat", "serve"}, bound : Inodes \cup {0}, guard : Inodes \cup {0},
               tcp : {"off", "up"}, unix : {"off", "up", "check", "unlink"}, stop : BOOLEAN]

\* The name leads to an inode or to none.
ListenTypes == sockname \in Inodes \cup {0} /\ worker \in [Workers -> WorkerRecs] /\ crossed \in BOOLEAN

\* What a worker may rely on, by how far it has come: its guard knows its own inode, and the name
\* leads there until another takes it over.
Owned(w) ==
    LET r == worker[w] IN
    /\ r.at \in Opening => r.bound = 0 /\ r.unix = "off" /\ w \notin stolen
    /\ r.at = "stat" => r.bound # 0 /\ r.unix = "off" /\ (~crossed => sockname = r.bound)
    /\ r.unix # "off" => r.at = "serve" /\ r.bound # 0 /\ (~crossed => r.guard = r.bound)
    /\ r.unix = "up" /\ ~crossed /\ w \notin stolen => sockname = r.bound
    /\ r.unix = "unlink" /\ ~crossed => sockname = r.bound

\* No two workers' sockets are one inode.
BoundDiffer == \A v, w \in Workers : v # w /\ worker[v].bound = worker[w].bound => worker[w].bound = 0

\* The inductive invariant.
WInv == ListenTypes /\ BoundDiffer /\ \A w \in Workers : Owned(w)

\* WInv holds at first: no worker runs.
LEMMA WInvInit == W!Init => WInv
<1> SUFFICES ASSUME W!Init PROVE WInv
    BY Zenon
<1>1. W!Down \in WorkerRecs /\ W!Down.at = "down" /\ W!Down.bound = 0 /\ W!Down.unix = "off"
    BY Zenon DEF W!Down, WorkerRecs, Opening
<1>2. worker = [w \in Workers |-> W!Down] /\ crossed = FALSE /\ stolen = {} /\ sockname = 0
    BY Zenon DEF W!Init
<1> HIDE DEF W!Down
<1> QED BY Zenon, <1>1, <1>2 DEF WInv, ListenTypes, BoundDiffer, Owned, Opening

\* A step of one worker.
LEMMA ListenStep ==
    ASSUME WInv, NEW w \in Workers, NEW r \in WorkerRecs,
           worker' = [worker EXCEPT ![w] = r], crossed' \in BOOLEAN, sockname' \in Inodes \cup {0},
           r.bound = 0 \/ r.bound = worker[w].bound \/ W!Free(r.bound),
           Owned(w)',
           \A v \in Workers \ {w} : worker'[v] = worker[v] => Owned(v)'
    PROVE  WInv'
<1>1. worker' \in [Workers -> WorkerRecs] /\ worker'[w] = r
    BY Zenon DEF WInv, ListenTypes
<1>2. \A v \in Workers \ {w} : worker'[v] = worker[v]
    BY Zenon DEF WInv, ListenTypes
<1>3. BoundDiffer'
    BY <1>1, <1>2 DEF WInv, BoundDiffer, W!Free
<1> QED BY Zenon, <1>1, <1>2, <1>3 DEF WInv, ListenTypes

\* One that leaves the name alone, and of the others who was stolen from.
LEMMA QuietStep ==
    ASSUME WInv, NEW w \in Workers, NEW r \in WorkerRecs,
           worker' = [worker EXCEPT ![w] = r],
           UNCHANGED <<sockname, crossed>>, stolen' \in {stolen, stolen \ {w}},
           r.bound = 0 \/ r.bound = worker[w].bound \/ W!Free(r.bound),
           Owned(w)'
    PROVE  WInv'
<1>1. \A v \in Workers \ {w} : worker'[v] = worker[v] => Owned(v)'
    BY DEF WInv, Owned
<1> QED BY Zenon, <1>1, ListenStep DEF WInv, ListenTypes

\* A worker ends, by itself or by a crash; the name stays as it is.
LEMMA QuitStep ==
    ASSUME WInv, NEW w \in Workers, W!Quit(w), UNCHANGED <<sockname, crossed>>
    PROVE  WInv'
<1>1. W!Down \in WorkerRecs /\ W!Down.at = "down" /\ W!Down.bound = 0 /\ W!Down.unix = "off"
    BY Zenon DEF W!Down, WorkerRecs, Opening
<1>2. worker' = [worker EXCEPT ![w] = W!Down] /\ stolen' = stolen \ {w}
    BY Zenon DEF W!Quit
<1>3. worker'[w] = W!Down
    BY Zenon, <1>2 DEF WInv, ListenTypes
<1> HIDE DEF W!Down
<1>4. Owned(w)'
    BY Zenon, <1>1, <1>2, <1>3 DEF Owned
<1> QED BY Zenon, <1>1, <1>2, <1>4, QuietStep

\* Every step of a worker keeps WInv.
LEMMA WInvStep == WInv /\ (\E w \in Workers : W!Step(w)) => WInv'
<1> SUFFICES ASSUME WInv, NEW w \in Workers, W!Step(w) PROVE WInv'
    BY Zenon
<1> DEFINE o == worker[w]
<1>0. o \in WorkerRecs /\ worker \in [Workers -> WorkerRecs] /\ crossed \in BOOLEAN /\ Owned(w)
    BY Zenon DEF WInv, ListenTypes
<1>a. \A r \in WorkerRecs : worker' = [worker EXCEPT ![w] = r] => worker'[w] = r
    BY Zenon, <1>0
<1> HIDE DEF o
<1>b. ASSUME NEW at \in {"tcp", "prepare"}, W!Goto(w, at), UNCHANGED <<sockname, stolen, crossed>>,
             o.at \in Opening
      PROVE  WInv'
    <2> DEFINE r == [o EXCEPT !.at = at]
    <2>1. r \in WorkerRecs /\ r.at = at /\ r.bound = o.bound /\ r.unix = o.unix
        BY Zenon, <1>0 DEF WorkerRecs, Opening
    <2>2. worker' = [worker EXCEPT ![w] = r]
        BY Zenon, <1>b DEF W!Goto, o
    <2> HIDE DEF r
    <2>3. worker'[w] = r
        BY Zenon, <1>a, <2>1, <2>2
    <2>4. Owned(w)'
        BY Zenon, <1>0, <1>b, <2>1, <2>3 DEF Owned, Opening, o
    <2> QED BY Zenon, <1>b, <2>1, <2>2, <2>4, QuietStep DEF o
<1>1. CASE W!OpenRuntime(w) BY Zenon, <1>1, <1>b DEF W!OpenRuntime, W!At, o, Opening
<1>2. CASE W!BindTcp(w) BY Zenon, <1>2, <1>b, QuitStep DEF W!BindTcp, W!At, o, Opening
<1>3. CASE W!PrepareUnixPath(w)
    <2> DEFINE r == [o EXCEPT !.at = "bind"]
    <2>1. r \in WorkerRecs /\ r.at = "bind" /\ r.bound = o.bound /\ r.unix = o.unix /\ r.stop = o.stop
        BY Zenon, <1>0 DEF WorkerRecs, Opening
    <2>2. worker' = [worker EXCEPT ![w] = r]
        BY Zenon, <1>3 DEF W!Goto, o, W!PrepareUnixPath
    <2> HIDE DEF r
    <2>3. worker'[w] = r
        BY Zenon, <1>a, <2>1, <2>2
    <2>4. o.at = "prepare" /\ o.bound = 0 /\ o.unix = "off" /\ w \notin stolen
        BY Zenon, <1>0, <1>3 DEF W!PrepareUnixPath, Owned, o, W!At, Opening
    <2>5. /\ stolen' = stolen \cup {v \in Workers : sockname # 0 /\ worker[v].bound = sockname}
          /\ crossed' = (crossed \/ W!Looking(w)) /\ sockname' = 0
        BY Zenon, <1>3 DEF W!PrepareUnixPath
    <2>6. Owned(w)'
        BY Zenon, <2>1, <2>3, <2>4, <2>5 DEF Owned, Opening, o
    <2>7. ASSUME NEW v \in Workers \ {w}, worker'[v] = worker[v] PROVE Owned(v)'
        <3>1. Owned(v) /\ (~crossed' => ~crossed /\ worker[v].at # "stat" /\ worker[v].unix # "unlink")
            BY Zenon, <2>5 DEF W!Looking, WInv, W!At
        <3> QED BY Zenon, <2>5, <2>7, <3>1 DEF Owned
    <2>8. crossed' \in BOOLEAN
        BY Zenon, <2>5
    <2>9. sockname' \in Inodes \cup {0}
        BY Zenon, <2>5
    <2> QED BY Zenon, <2>1, <2>2, <2>5, <2>6, <2>7, <2>8, <2>9, ListenStep DEF o
<1>4. CASE W!BindUnix(w)
    <2>1. CASE sockname # 0 /\ W!Quit(w) /\ UNCHANGED <<sockname, crossed>>
        BY Zenon, <2>1, QuitStep
    <2>2. CASE /\ sockname = 0
               /\ \E i \in Inodes : /\ W!Free(i) /\ sockname' = i
                                    /\ worker' = [worker EXCEPT ![w].at = "stat", ![w].bound = i]
               /\ crossed' = (crossed \/ W!Looking(w))
               /\ UNCHANGED <<dirlock, stolen>>
        <3>1. PICK i \in Inodes : /\ W!Free(i) /\ sockname' = i
                                  /\ worker' = [worker EXCEPT ![w].at = "stat", ![w].bound = i]
            BY Zenon, <2>2
        <3> DEFINE r == [o EXCEPT !.at = "stat", !.bound = i]
        <3>2. r \in WorkerRecs /\ r.at = "stat" /\ r.bound = i /\ r.unix = o.unix
            BY Zenon, <1>0 DEF WorkerRecs
        <3>3. worker' = [worker EXCEPT ![w] = r]
            BY Zenon, <3>1 DEF o
        <3> HIDE DEF r
        <3>4. worker'[w] = r
            BY Zenon, <1>a, <3>2, <3>3
        <3>5. Owned(w)'
            BY Zenon, <1>0, <1>4, <3>1, <3>2, <3>4, ListenAssumption DEF W!BindUnix, Owned, W!At, Opening, o
        <3>6. ASSUME NEW v \in Workers \ {w}, worker'[v] = worker[v] PROVE Owned(v)'
            <4>1. Owned(v) /\ (~crossed' => ~crossed /\ worker[v].at # "stat" /\ worker[v].unix # "unlink")
                BY Zenon, <2>2 DEF W!Looking, WInv, W!At
            <4> QED BY Zenon, <2>2, <3>6, <4>1 DEF Owned
        <3>7. crossed' \in BOOLEAN
            BY Zenon, <2>2
        <3> QED BY Zenon, <3>1, <3>2, <3>3, <3>5, <3>6, <3>7, ListenStep
    <2> QED BY Zenon, <1>4, <2>1, <2>2 DEF W!BindUnix
<1>5. CASE W!FromBound(w)
    <2>1. CASE sockname = 0 /\ W!Quit(w)
        BY Zenon, <1>5, <2>1, QuitStep DEF W!FromBound
    <2>2. CASE /\ sockname # 0
               /\ worker' = [worker EXCEPT ![w].at = "serve", ![w].guard = sockname,
                                           ![w].tcp = "up", ![w].unix = "up"]
               /\ UNCHANGED <<dirlock, stolen>>
        <3> DEFINE r == [o EXCEPT !.at = "serve", !.guard = sockname, !.tcp = "up", !.unix = "up"]
        <3>1. sockname \in Inodes \cup {0}
            BY Zenon DEF WInv, ListenTypes
        <3>2. r \in WorkerRecs /\ r.at = "serve" /\ r.bound = o.bound /\ r.unix = "up" /\ r.guard = sockname
            BY Zenon, <1>0, <3>1 DEF WorkerRecs
        <3>3. worker' = [worker EXCEPT ![w] = r]
            BY Zenon, <2>2 DEF o
        <3> HIDE DEF r
        <3>4. worker'[w] = r
            BY Zenon, <1>a, <3>2, <3>3
        <3>5. Owned(w)'
            BY Zenon, <1>0, <1>5, <3>2, <3>4 DEF W!FromBound, Owned, W!At, Opening, o
        <3> QED BY Zenon, <1>5, <2>2, <3>2, <3>3, <3>5, QuietStep DEF W!FromBound, o
    <2> QED BY Zenon, <1>5, <2>1, <2>2 DEF W!FromBound
<1>6. CASE W!Shutdown(w)
    <2> DEFINE r == [o EXCEPT !.stop = TRUE]
    <2>1. /\ r \in WorkerRecs /\ r.at = o.at /\ r.bound = o.bound /\ r.unix = o.unix
          /\ r.guard = o.guard
        BY Zenon, <1>0 DEF WorkerRecs
    <2>2. worker' = [worker EXCEPT ![w] = r]
        BY Zenon, <1>6 DEF W!Shutdown, o
    <2>3. UNCHANGED <<sockname, stolen, crossed>>
        BY Zenon, <1>6 DEF W!Shutdown
    <2> HIDE DEF r
    <2>4. worker'[w] = r
        BY Zenon, <1>a, <2>1, <2>2
    <2>5. Owned(w)'
        BY Zenon, <1>0, <2>1, <2>3, <2>4 DEF Owned, o
    <2> QED BY Zenon, <2>1, <2>2, <2>3, <2>5, QuietStep DEF o
<1>7. CASE W!ServeOne(w)
    <2> DEFINE r == [o EXCEPT !.tcp = "off", !.stop = TRUE]
               s == [o EXCEPT !.unix = "check", !.stop = TRUE]
    <2>1. /\ r \in WorkerRecs /\ r.at = o.at /\ r.bound = o.bound /\ r.unix = o.unix
          /\ r.guard = o.guard
        BY Zenon, <1>0 DEF WorkerRecs
    <2>2. /\ s \in WorkerRecs /\ s.at = o.at /\ s.bound = o.bound /\ s.unix = "check"
          /\ s.guard = o.guard
        BY Zenon, <1>0 DEF WorkerRecs
    <2>3. \/ worker' = [worker EXCEPT ![w] = r]
          \/ o.unix = "up" /\ worker' = [worker EXCEPT ![w] = s]
        BY Zenon, <1>7 DEF W!ServeOne, o
    <2>4. UNCHANGED <<sockname, stolen, crossed>>
        BY Zenon, <1>7 DEF W!ServeOne
    <2> HIDE DEF r, s
    <2>5. CASE worker' = [worker EXCEPT ![w] = r]
        <3>1. worker'[w] = r
            BY Zenon, <1>a, <2>1, <2>5
        <3>2. Owned(w)'
            BY Zenon, <1>0, <2>1, <2>4, <3>1 DEF Owned, o
        <3> QED BY Zenon, <2>1, <2>4, <2>5, <3>2, QuietStep DEF o
    <2>6. CASE o.unix = "up" /\ worker' = [worker EXCEPT ![w] = s]
        <3>1. worker'[w] = s
            BY Zenon, <1>a, <2>2, <2>6
        <3>2. Owned(w)'
            BY Zenon, <1>0, <2>2, <2>4, <2>6, <3>1 DEF Owned, o, Opening
        <3> QED BY Zenon, <2>2, <2>4, <2>6, <3>2, QuietStep DEF o
    <2> QED BY Zenon, <2>3, <2>5, <2>6
<1>8. CASE W!CheckGuard(w)
    <2> DEFINE r == [o EXCEPT !.unix = "unlink"]
               s == [o EXCEPT !.unix = "off", !.bound = 0]
    <2>1. /\ r \in WorkerRecs /\ r.at = o.at /\ r.bound = o.bound /\ r.unix = "unlink"
          /\ r.guard = o.guard
        BY Zenon, <1>0 DEF WorkerRecs
    <2>2. /\ s \in WorkerRecs /\ s.at = o.at /\ s.bound = 0 /\ s.unix = "off"
        BY Zenon, <1>0 DEF WorkerRecs
    <2>3. \/ sockname = o.guard /\ worker' = [worker EXCEPT ![w] = r]
          \/ worker' = [worker EXCEPT ![w] = s]
        BY Zenon, <1>8 DEF W!CheckGuard, o
    <2>4. UNCHANGED <<sockname, stolen, crossed>> /\ o.unix = "check"
        BY Zenon, <1>8 DEF W!CheckGuard, o
    <2> HIDE DEF r, s
    <2>5. CASE sockname = o.guard /\ worker' = [worker EXCEPT ![w] = r]
        <3>1. worker'[w] = r
            BY Zenon, <1>a, <2>1, <2>5
        <3>2. Owned(w)'
            BY Zenon, <1>0, <2>1, <2>4, <2>5, <3>1 DEF Owned, o, Opening
        <3> QED BY Zenon, <2>1, <2>4, <2>5, <3>2, QuietStep DEF o
    <2>6. CASE worker' = [worker EXCEPT ![w] = s]
        <3>1. worker'[w] = s
            BY Zenon, <1>a, <2>2, <2>6
        <3>2. Owned(w)'
            BY Zenon, <1>0, <2>2, <2>4, <3>1 DEF Owned, o, Opening
        <3> QED BY Zenon, <2>2, <2>4, <2>6, <3>2, QuietStep DEF o
    <2> QED BY Zenon, <2>3, <2>5, <2>6
<1>9. CASE W!UnlinkSocket(w)
    <2> DEFINE r == [o EXCEPT !.unix = "off", !.bound = 0]
    <2>1. r \in WorkerRecs /\ r.at = o.at /\ r.bound = 0 /\ r.unix = "off"
        BY Zenon, <1>0 DEF WorkerRecs
    <2>2. worker' = [worker EXCEPT ![w] = r]
        BY Zenon, <1>9 DEF W!UnlinkSocket, o
    <2>3. UNCHANGED <<stolen, crossed>> /\ sockname' = 0 /\ o.unix = "unlink"
        BY Zenon, <1>9 DEF W!UnlinkSocket, o
    <2> HIDE DEF r
    <2>4. worker'[w] = r
        BY Zenon, <1>a, <2>1, <2>2
    <2>5. o.at = "serve" /\ o.bound # 0 /\ (~crossed => sockname = o.bound)
        BY Zenon, <1>0, <2>3 DEF Owned, o
    <2>6. Owned(w)'
        BY Zenon, <2>1, <2>3, <2>4, <2>5 DEF Owned, Opening
    <2>7. ASSUME NEW v \in Workers \ {w}, worker'[v] = worker[v] PROVE Owned(v)'
        <3>1. Owned(v) /\ worker[v].bound # o.bound
            BY Zenon, <2>5 DEF WInv, BoundDiffer, o
        <3> QED BY Zenon, <2>3, <2>5, <2>7, <3>1 DEF Owned
    <2> QED BY Zenon, <1>0, <2>1, <2>2, <2>3, <2>6, <2>7, ListenStep
<1>10. CASE W!JoinServers(w) BY Zenon, <1>10, QuitStep DEF W!JoinServers
<1>11. CASE W!Crash(w) BY Zenon, <1>11, QuitStep DEF W!Crash
<1> QED BY Zenon, <1>1, <1>2, <1>3, <1>4, <1>5, <1>6, <1>7, <1>8, <1>9, <1>10, <1>11 DEF W!Step

\* A worker that serves is found under the socket's name until a later one takes it over, whatever
\* ends or crashes and however inodes are used again (listen.rs, UnixSocketGuard).
THEOREM SocketsKept == W!Spec => []SocketKept
<1>1. WInv /\ [W!Next]_(W!wvars) => WInv'
    <2>1. WInv /\ UNCHANGED W!wvars => WInv'
        BY DEF W!wvars, WInv, ListenTypes, BoundDiffer, Owned
    <2> QED BY Zenon, <2>1, WInvStep DEF W!Next
<1>2. WInv => SocketKept
    BY Zenon DEF WInv, Owned, SocketKept, W!SocketKept
<1> QED BY <1>1, <1>2, WInvInit, PTL DEF W!Spec

-----------------------------------------------------------------------------
(* The payload store (payload.rs).                                         *)

\* The stages under the lock, and the values of the variables.
Locked == {"check", "fetch", "stage", "unpack", "verify", "remove", "rename"}
States == {"none", "part", "whole"}
ProcRecs == [at : {"idle", "lock", "done"} \cup Locked, want : P!Items, tries : Nat,
         got : P!Items \cup {"none"}]

\* An item is absent, partly there or whole, in the store and in staging.
PayloadTypes ==
    /\ store \in [P!Items -> States]
    /\ staging \in [P!Items -> States]
    /\ proc_at \in [Procs -> ProcRecs]

\* A process past its check has the lock and fills what is missing; what it renames is whole; what
\* it returned is there.
Filling(p) ==
    /\ proc_at[p].at \in Locked => flock = p
    /\ proc_at[p].at \in Locked \ {"check"} => store[proc_at[p].want] # "whole"
    /\ proc_at[p].at \in {"remove", "rename"} => staging[proc_at[p].want] = "whole"
    /\ P!At(p, "done") /\ proc_at[p].got # "none" => store[proc_at[p].got] = "whole"

\* The inductive invariant.
PInv == PayloadTypes /\ \A p \in Procs : Filling(p)

\* PInv holds at first: no process has asked.
LEMMA PInvInit == P!Init => PInv
BY PayloadAssumption DEF P!Init, States, ProcRecs, PInv, PayloadTypes, Filling, P!Items, Locked, P!Absent, P!At

\* A step of one process: the others hold no lock if it changes anything they share, and
\* what is whole stays.
LEMMA PayloadStep ==
    ASSUME PInv, NEW p \in Procs, NEW r \in ProcRecs,
           proc_at' = [proc_at EXCEPT ![p] = r],
           store' \in [P!Items -> States], staging' \in [P!Items -> States],
           \/ UNCHANGED <<store, staging, flock>>
           \/ flock \in {p, P!Free} /\ \A i \in P!Items : store[i] = "whole" => store'[i] = "whole",
           r.at \in Locked => flock' = p,
           r.at \in Locked \ {"check"} => store'[r.want] # "whole",
           r.at \in {"remove", "rename"} => staging'[r.want] = "whole",
           r.at = "done" /\ r.got # "none" => store'[r.got] = "whole"
    PROVE  PInv'
<1>1. proc_at' \in [Procs -> ProcRecs] /\ proc_at'[p] = r
    BY Zenon DEF PInv, PayloadTypes
<1>2. Filling(p)'
    BY Zenon, <1>1 DEF Filling, P!At
<1>3. ASSUME NEW q \in Procs \ {p} PROVE Filling(q)'
    <2>1. proc_at'[q] = proc_at[q] /\ Filling(q) /\ proc_at[q] \in ProcRecs
        BY Zenon DEF PInv, PayloadTypes
    <2>2. CASE UNCHANGED <<store, staging, flock>>
        BY Zenon, <2>1, <2>2 DEF Filling, P!At
    <2>3. CASE flock \in {p, P!Free} /\ \A i \in P!Items : store[i] = "whole" => store'[i] = "whole"
        <3>1. proc_at[q].at \notin Locked
            BY <2>1, <2>3, PayloadAssumption DEF Filling
        <3> QED BY <2>1, <2>3, <3>1 DEF Filling, P!At, ProcRecs, Locked
    <2> QED BY Zenon, <2>2, <2>3
<1> QED BY Zenon, <1>1, <1>2, <1>3 DEF PInv, PayloadTypes

\* Every step of a process keeps PInv.
LEMMA PInvStep == PInv /\ (\E p \in Procs : P!Step(p)) => PInv'
<1> SUFFICES ASSUME PInv, NEW p \in Procs, P!Step(p) PROVE PInv'
    BY Zenon
<1> DEFINE o == proc_at[p]
<1>0. /\ o \in ProcRecs /\ o.at \in {"idle", "lock", "done"} \cup Locked /\ o.want \in P!Items
      /\ o.tries \in Nat /\ Attempts \in Nat
      /\ store \in [P!Items -> States] /\ staging \in [P!Items -> States]
      /\ proc_at \in [Procs -> ProcRecs]
      /\ Filling(p)
    BY Zenon, PayloadAssumption DEF PInv, PayloadTypes, ProcRecs
<1>a. /\ P!Absent \in ProcRecs
      /\ \A w \in P!Items : [P!Absent EXCEPT !.at = "lock", !.want = w] \in ProcRecs
      /\ \A g \in P!Items \cup {"none"} : [P!Absent EXCEPT !.at = "done", !.got = g] \in ProcRecs
      /\ \A at \in Locked : [o EXCEPT !.at = at] \in ProcRecs
    BY ZenonT(30), <1>0 DEF P!Absent, ProcRecs, P!Items
<1> HIDE DEF o
<1>b. ASSUME NEW g \in P!Items \cup {"none"}, P!Return(p, g),
             flock = p, g # "none" => store'[g] = "whole",
             store' \in [P!Items -> States], staging' \in [P!Items -> States],
             \A i \in P!Items : store[i] = "whole" => store'[i] = "whole"
      PROVE  PInv'
    <2> DEFINE r == [P!Absent EXCEPT !.at = "done", !.got = g]
    <2>1. r \in ProcRecs /\ r.at = "done" /\ r.got = g /\ proc_at' = [proc_at EXCEPT ![p] = r]
        BY Zenon, <1>a, <1>b DEF P!Return, P!Absent
    <2> HIDE DEF r
    <2> QED BY Zenon, <1>b, <2>1, PayloadStep DEF Locked
<1>c. ASSUME NEW at \in Locked, P!Goto(p, at), UNCHANGED flock, flock = p,
             at # "check" => store'[o.want] # "whole",
             at \in {"remove", "rename"} => staging'[o.want] = "whole",
             store' \in [P!Items -> States], staging' \in [P!Items -> States],
             \A i \in P!Items : store[i] = "whole" => store'[i] = "whole"
      PROVE  PInv'
    <2> DEFINE r == [o EXCEPT !.at = at]
    <2>1. r \in ProcRecs /\ r.at = at /\ r.want = o.want /\ proc_at' = [proc_at EXCEPT ![p] = r]
        BY Zenon, <1>0, <1>a, <1>c DEF P!Goto, o, ProcRecs
    <2> HIDE DEF r
    <2> QED BY Zenon, <1>c, <2>1, PayloadStep DEF Locked
<1>d. o.at \in Locked => flock = p
    BY Zenon, <1>0 DEF Filling, o
<1>e. o.at \in Locked \ {"check"} => store[o.want] # "whole"
    BY Zenon, <1>0 DEF Filling, o
<1> USE <1>0, <1>d, <1>e
<1>1. CASE P!Ensure(p)
    <2>1. \A w \in P!Items : [P!Absent EXCEPT !.at = "lock", !.want = w].at = "lock"
        BY Zenon DEF P!Absent
    <2>2. PICK r \in ProcRecs : r.at = "lock" /\ proc_at' = [proc_at EXCEPT ![p] = r]
        BY Zenon, <1>a, <1>1, <2>1 DEF P!Ensure
    <2>3. UNCHANGED <<store, staging, flock>>
        BY Zenon, <1>1 DEF P!Ensure
    <2> QED BY Zenon, <2>2, <2>3, PayloadStep DEF Locked
<1>2. CASE P!EnsureLocal(p)
    <2> DEFINE r == [P!Absent EXCEPT !.at = "done"]
    <2>1. r \in ProcRecs /\ r.at = "done" /\ r.got = "none" /\ proc_at' = [proc_at EXCEPT ![p] = r]
        BY <1>a, <1>2 DEF P!Absent, P!EnsureLocal, ProcRecs, P!Items
    <2> HIDE DEF r
    <2> QED BY Zenon, <2>1, <1>2, PayloadStep DEF P!EnsureLocal, Locked
<1>3. CASE P!Lock(p)
    <2> DEFINE r == [o EXCEPT !.at = "check"]
    <2>1. r \in ProcRecs /\ r.at = "check"
        BY Zenon DEF Locked, ProcRecs
    <2>2. proc_at' = [proc_at EXCEPT ![p] = r]
        BY Zenon, <1>3 DEF P!Lock, P!Goto, o
    <2>3. UNCHANGED <<store, staging>> /\ flock = P!Free /\ flock' = p
        BY Zenon, <1>3 DEF P!Lock
    <2> HIDE DEF r
    <2> QED BY Zenon, <2>1, <2>2, <2>3, PayloadStep DEF Locked
<1>4. CASE P!Check(p)
    <2>1. CASE store["product"] = "whole" /\ P!Return(p, "product")
        BY Zenon, <1>4, <2>1, <1>b DEF P!Check, P!At, o, Locked, P!Items
    <2>2. CASE store["agent"] = "whole" /\ P!Return(p, "agent")
        BY Zenon, <1>4, <2>2, <1>b DEF P!Check, P!At, o, Locked, P!Items
    <2>3. CASE /\ store["product"] # "whole" /\ (o.want = "product" \/ store["agent"] # "whole")
               /\ proc_at' = [proc_at EXCEPT ![p].at = "fetch", ![p].tries = Attempts]
               /\ UNCHANGED flock
        <3> DEFINE r == [o EXCEPT !.at = "fetch", !.tries = Attempts]
        <3>1. r \in ProcRecs /\ r.at = "fetch" /\ r.want = o.want
            BY Zenon DEF Locked, ProcRecs
        <3>2. proc_at' = [proc_at EXCEPT ![p] = r]
            BY Zenon, <2>3 DEF o
        <3>3. store[o.want] # "whole" /\ UNCHANGED <<store, staging, flock>> /\ flock = p
            BY Zenon, <1>4, <2>3 DEF P!Items, P!Check, P!At, o, Locked
        <3> HIDE DEF r
        <3> QED BY Zenon, <3>1, <3>2, <3>3, PayloadStep DEF Locked
    <2> QED BY Zenon, <1>4, <2>1, <2>2, <2>3 DEF P!Check, o
<1>5. CASE P!Fetch(p) BY Zenon, <1>5, <1>c DEF P!Fetch, P!At, o, Locked
<1>6. CASE P!Retry(p)
    <2> DEFINE r == [o EXCEPT !.tries = @ - 1]
    <2>1. o.at = "fetch" /\ o.tries > 1 /\ UNCHANGED <<store, staging, flock>>
        BY Zenon, <1>6 DEF P!Retry, P!At, o
    <2>2. r \in ProcRecs /\ r.at = "fetch" /\ r.want = o.want
        BY <2>1 DEF ProcRecs
    <2>3. proc_at' = [proc_at EXCEPT ![p] = r]
        BY Zenon, <1>6 DEF P!Retry, o
    <2> HIDE DEF r
    <2> QED BY Zenon, <2>1, <2>2, <2>3, PayloadStep DEF Locked
<1>7. CASE P!FetchFails(p) BY Zenon, <1>7, <1>b DEF P!FetchFails, P!At, o, Locked
<1>8. CASE P!Stage(p) \/ P!StageAgent(p)
    <2>1. staging' \in [P!Items -> States] /\ UNCHANGED store /\ o.at = "stage"
        BY Zenon, <1>8 DEF P!Stage, P!StageAgent, States, P!Items, P!At, o
    <2>2. (P!Goto(p, "unpack") /\ UNCHANGED flock) \/ P!Return(p, "none")
        BY Zenon, <1>8 DEF P!Stage, P!StageAgent
    <2> QED BY Zenon, <2>1, <2>2, <1>b, <1>c DEF Locked
<1>9. CASE P!Unpack(p)
    <2>1. staging' \in [P!Items -> States]
        BY Zenon, <1>9 DEF P!Unpack, States, o
    <2> QED BY Zenon, <2>1, <1>9, <1>c DEF P!Unpack, Locked, P!At, o
<1>10. CASE P!UnpackRefused(p)
    <2>1. staging' \in [P!Items -> States]
        BY Zenon, <1>10 DEF P!UnpackRefused, P!Discard, States, o
    <2> QED BY Zenon, <2>1, <1>10, <1>b DEF P!UnpackRefused, Locked, P!At, o
<1>11. CASE P!Verify(p) \/ P!VerifyAgent(p)
    <2>1. staging' \in [P!Items -> States] /\ UNCHANGED store /\ o.at = "verify"
        BY Zenon, <1>11 DEF P!Verify, P!VerifyAgent, P!Discard, States, P!Items, P!At, o
    <2>2. \/ P!Goto(p, "remove") /\ UNCHANGED flock /\ staging'[o.want] = "whole"
          \/ P!Return(p, "none")
        BY Zenon, <1>11 DEF P!Verify, P!VerifyAgent, o
    <2> QED BY Zenon, <2>1, <2>2, <1>b, <1>c DEF Locked
<1>12. CASE P!Remove(p)
    <2>1. /\ store' \in [P!Items -> States] /\ staging' \in [P!Items -> States] /\ o.at = "remove"
          /\ store'[o.want] # "whole" /\ staging[o.want] = "whole"
          /\ \A i \in P!Items : store[i] = "whole" => store'[i] = "whole"
        BY Zenon, <1>12 DEF P!Remove, P!Discard, States, P!At, o, Filling, Locked
    <2> QED BY Zenon, <1>12, <2>1, <1>b, <1>c DEF P!Remove, Locked
<1>13. CASE P!Rename(p)
    <2>1. /\ store' \in [P!Items -> States] /\ staging' \in [P!Items -> States] /\ o.at = "rename"
          /\ \A i \in P!Items : store[i] = "whole" => store'[i] = "whole"
          /\ (P!Return(p, o.want) /\ store'[o.want] = "whole") \/ P!Return(p, "none")
        BY Zenon, <1>13 DEF P!Rename, P!Discard, States, P!At, o, Filling, Locked
    <2> QED BY Zenon, <2>1, <1>b DEF Locked
<1>14. CASE P!Kill(p)
    <2>1. P!Absent.at = "idle"
        BY Zenon DEF P!Absent
    <2> QED BY Zenon, <1>14, <2>1, <1>a, PayloadStep DEF P!Kill, Locked
<1> QED BY Zenon, <1>1, <1>2, <1>3, <1>4, <1>5, <1>6, <1>7, <1>8, <1>9, <1>10, <1>11, <1>12, <1>13,
           <1>14 DEF P!Step

\* A file removed by others ends the claim of every process that has its paths.
LEMMA PInvDamage == PInv /\ P!Damage => PInv'
BY PayloadAssumption DEF P!Damage, States, ProcRecs, PInv, PayloadTypes, Filling, P!Items, Locked, P!Absent, P!At

\* While nobody but ensure_blocking touches the store, the binaries a process was given stay whole,
\* for any number of processes, attempts and kills (payload.rs, lock_payload_root to rename).
THEOREM PayloadsStay == P!Spec => []PayloadStays
<1>1. PInv /\ [P!Next]_(P!pvars) => PInv'
  <2>1. PInv /\ UNCHANGED P!pvars => PInv'
    BY Zenon DEF P!pvars, PInv, PayloadTypes, Filling, P!At
  <2> QED BY Zenon, <2>1, PInvStep, PInvDamage DEF P!Next
<1>2. PInv => PayloadStays
  BY Zenon DEF PInv, Filling, PayloadStays, P!PayloadStays
<1> QED BY <1>1, <1>2, PInvInit, PTL DEF P!Spec

-----------------------------------------------------------------------------
(* Base disks (disk/mod.rs, guest.rs).                                     *)

\* What a file may hold, the stages of a build and its record.
Contents == [tree : BOOLEAN, agent : Nat, torn : BOOLEAN, lost : BOOLEAN]
Stages == {"idle", "create", "mkfs", "journal", "populate", "stage", "inject", "write", "rename"}
Inode == DOMAIN files
Builds == [at : Stages, key : B!Keys, fs : Nat]

\* Inodes are numbered as they are made; every name leads to one or to none.
BaseTypes ==
    /\ installed \in {1, 2}
    /\ \E n \in Nat : files \in [1 .. n -> Contents]
    /\ tmp \in [B!Keys -> Inode \cup {0}] /\ base \in [B!Keys -> Inode \cup {0}]
    /\ staged \in [B!Keys -> {0, 1, 2}]
    /\ builder \in [Builders -> Builds] /\ \A b \in Builders : builder[b].fs \in Inode \cup {0}
    /\ muddled \subseteq B!Keys

\* The files of different keys, and a base and the file in the making, are different ones.
FilesDiffer ==
    /\ \A j, k \in B!Keys : tmp[j] # 0 => tmp[j] # base[k] /\ (j # k => tmp[j] # tmp[k])
    /\ \A j, k \in B!Keys : j # k /\ base[j] # 0 => base[j] # base[k]
    /\ \A b \in Builders : builder[b].fs # 0 =>
          \A k \in B!Keys \ {builder[b].key} : builder[b].fs # tmp[k] /\ builder[b].fs # base[k]

\* A key in order is built by one thread at a time, with the agent it is named for.
Alone == \A b, c \in Builders :
    b # c /\ builder[b].at # "idle" /\ builder[c].at # "idle" /\ builder[b].key = builder[c].key =>
        builder[b].key \in muddled

\* A filesystem with the rootfs, without and with the agent.
Bare == [B!Empty EXCEPT !.tree = TRUE]

\* What the thread has made of the temporary file by then.
Made(b) ==
    LET k == builder[b].key
        at == builder[b].at
        i == tmp[k] IN
    /\ at = "idle" => builder[b].fs = 0
    /\ at \in {"journal", "populate", "write"} => builder[b].fs # 0
    /\ at \notin {"idle"} /\ k \notin muddled =>
        /\ k \in {0, installed}
        /\ builder[b].fs = IF at \in {"journal", "populate", "write"} THEN i ELSE 0
        /\ at # "create" => i # 0
        /\ at \in {"mkfs", "journal", "populate"} => files[i] = B!Empty
        /\ at \in {"stage", "inject", "write"} => k # 0 /\ (files[i].lost \/ files[i] = Bare)
        /\ at \in {"inject", "write"} => staged[k] = k
        /\ at = "rename" => files[i].lost \/ files[i] = B!Whole(k)

\* The inductive invariant.
BInv ==
    /\ BaseTypes /\ FilesDiffer /\ Alone
    /\ \A b \in Builders : Made(b)
    /\ B!BaseWhole

\* The other keys.
Others(k) == B!Keys \ {k}

\* The record of a thread that builds nothing.
LEMMA RestingRec == B!Resting \in Builds /\ B!Resting.at = "idle" /\ B!Resting.fs = 0
BY DEF B!Resting, Builds, Stages, B!Keys

\* Files with the same contents are the same.
LEMMA SameContent ==
    ASSUME NEW f \in Contents, NEW g \in Contents, f.tree = g.tree, f.agent = g.agent, f.torn = g.torn,
           f.lost = g.lost
    PROVE  f = g
BY DEF Contents

\* The contents a build goes through.
LEMMA ContentRecs == B!Empty \in Contents /\ Bare \in Contents /\ Bare = B!Whole(0)
<1>1. B!Empty \in Contents /\ Bare \in Contents
    BY Zenon DEF B!Empty, Bare, Contents
<1>2. B!Whole(0) \in Contents
    BY Zenon DEF B!Whole, Contents
<1>3. Bare.tree = TRUE /\ Bare.agent = 0 /\ Bare.torn = FALSE /\ Bare.lost = FALSE
    BY Zenon DEF Bare, B!Empty
<1>4. B!Whole(0).tree = TRUE /\ B!Whole(0).agent = 0 /\ B!Whole(0).torn = FALSE
      /\ B!Whole(0).lost = FALSE
    BY Zenon DEF B!Whole
<1>5. Bare = B!Whole(0)
    BY Zenon, <1>1, <1>2, <1>3, <1>4, SameContent
<1> QED BY Zenon, <1>1, <1>5

\* A file that lost what was written says so.
LEMMA LostRec == B!Lost \in Contents /\ B!Lost.lost
BY Zenon DEF B!Lost, B!Empty, Contents

\* BInv holds at first: no base.
LEMMA BInvInit == B!Init => BInv
<1> SUFFICES ASSUME B!Init PROVE BInv
    BY Zenon
<1>1. files \in [1 .. 0 -> Contents] /\ DOMAIN files = {}
    BY DEF B!Init
<1>2. /\ tmp = [k \in B!Keys |-> 0] /\ base = [k \in B!Keys |-> 0] /\ staged = [k \in B!Keys |-> 0]
      /\ builder = [b \in Builders |-> B!Resting] /\ muddled = {} /\ installed = 1
    BY Zenon DEF B!Init
<1>3. \E n \in Nat : files \in [1 .. n -> Contents]
    BY Zenon, <1>1
<1>4. BaseTypes
    BY Zenon, <1>2, <1>3, RestingRec DEF BaseTypes, Inode
<1>5. FilesDiffer /\ Alone /\ B!BaseWhole /\ \A b \in Builders : Made(b)
    BY Zenon, <1>2, RestingRec DEF FilesDiffer, Alone, B!BaseWhole, Made
<1> QED BY Zenon, <1>4, <1>5 DEF BInv

\* A sequence is a function.
LEMMA SeqIsFun == ASSUME NEW S, NEW a \in Seq(S) PROVE a \in [1 .. Len(a) -> S]
OBVIOUS

\* A file more.
LEMMA OneMoreFile ==
    ASSUME NEW S, NEW fs \in Seq(S), NEW e \in S
    PROVE  /\ Append(fs, e) \in [1 .. Len(fs) + 1 -> S] /\ Append(fs, e)[Len(fs) + 1] = e
           /\ \A j \in 1 .. Len(fs) : Append(fs, e)[j] = fs[j]
<1>1. Append(fs, e) \in Seq(S) /\ Len(Append(fs, e)) = Len(fs) + 1 /\ Append(fs, e)[Len(fs) + 1] = e
    OBVIOUS
<1>2. ASSUME NEW j \in 1 .. Len(fs) PROVE Append(fs, e)[j] = fs[j]
    OBVIOUS
<1>3. Append(fs, e) \in [1 .. Len(fs) + 1 -> S]
    BY Zenon, <1>1, SeqIsFun
<1> QED BY Zenon, <1>1, <1>2, <1>3

\* The inodes are the numbers from one.
LEMMA InodeFacts ==
    ASSUME BaseTypes
    PROVE  /\ Inode = 1 .. Len(files) /\ Len(files) \in Nat /\ files \in Seq(Contents)
           /\ files \in [Inode -> Contents] /\ 0 \notin Inode
<1>1. PICK n \in Nat : files \in [1 .. n -> Contents]
    BY Zenon DEF BaseTypes
<1>2. Inode = 1 .. n
    BY Zenon, <1>1 DEF Inode
<1>3. files \in Seq(Contents) /\ Len(files) = n
    BY SMTT(20), <1>1
<1> QED BY <1>1, <1>2, <1>3

\* What a step makes of the thread, of the files and of the base of its key.
Becomes(b, k, r) ==
    /\ r \in Builds /\ builder' = [builder EXCEPT ![b] = r]
    /\ r.at = "idle" \/ r.key = k
    /\ r.fs \in {0, tmp[k], builder[b].fs} /\ (r.at = "idle" => r.fs = 0)
Own(k, i) == (\A j \in Others(k) : i # tmp[j] /\ i # base[j]) /\ (k \notin muddled => i # base[k])
Spares(k) ==
    /\ \E n \in Nat : files' \in [1 .. n -> Contents]
    /\ \A i \in Inode : i \in DOMAIN files' /\ (files'[i] = files[i] \/ Own(k, i))
Renamed(k) ==
    /\ base' = [base EXCEPT ![k] = tmp[k]]
    /\ k \notin muddled /\ tmp[k] # 0 => files'[tmp[k]].lost \/ files'[tmp[k]] = B!Whole(k)

\* What a thread made is there as long as its file and its names are.
LEMMA MadeKept ==
    ASSUME NEW c, Made(c), UNCHANGED <<installed, muddled>>, builder'[c] = builder[c],
           NEW j, j = builder[c].key, tmp'[j] = tmp[j], staged'[j] = staged[j],
           tmp[j] # 0 => files'[tmp[j]] = files[tmp[j]]
    PROVE  Made(c)'
BY SMTT(30) DEF Made

\* Nothing is said of the file of a thread that rests or shares its key.
LEMMA MadeMuddled ==
    ASSUME NEW c, Made(c), builder'[c] = builder[c], muddled' = muddled,
           builder[c].at = "idle" \/ builder[c].key \in muddled
    PROVE  Made(c)'
BY SMTT(30) DEF Made

\* A thread that has just truncated its temporary file.
LEMMA MadeEmpty ==
    ASSUME NEW b, NEW k, builder'[b].at = "mkfs", builder'[b].key = k, builder'[b].fs = 0,
           k \notin muddled' => k \in {0, installed'} /\ tmp'[k] # 0 /\ files'[tmp'[k]] = B!Empty
    PROVE  Made(b)'
BY SMTT(30) DEF Made

\* A step of one thread that writes to no file that is another's, or a base.
LEMMA BuildStep ==
    ASSUME BInv, NEW b \in Builders, builder[b].at # "idle", NEW k \in B!Keys, k = builder[b].key,
           NEW r, Becomes(b, k, r),
           UNCHANGED <<installed, muddled>>,
           Spares(k),
           NEW t \in {0, tmp[k]} \cup (DOMAIN files' \ Inode), tmp' = [tmp EXCEPT ![k] = t],
           NEW s \in {0, 1, 2}, staged' = [staged EXCEPT ![k] = s],
           UNCHANGED base \/ (Renamed(k) /\ t = 0),
           Made(b)'
    PROVE  BInv'
<1> USE DEF Becomes, Own, Spares, Renamed
<1>0. /\ BaseTypes /\ FilesDiffer /\ Alone /\ B!BaseWhole
      /\ tmp \in [B!Keys -> Inode \cup {0}] /\ base \in [B!Keys -> Inode \cup {0}]
      /\ staged \in [B!Keys -> {0, 1, 2}] /\ builder \in [Builders -> Builds]
      /\ \A c \in Builders : builder[c].fs \in Inode \cup {0}
      /\ 0 \notin Inode /\ 0 \notin DOMAIN files'
    <2>1. 0 \notin DOMAIN files'
        OBVIOUS
    <2> QED BY Zenon, <2>1, InodeFacts DEF BInv, BaseTypes
<1>1. /\ builder' \in [Builders -> Builds] /\ builder'[b] = r
      /\ \A c \in Builders \ {b} : builder'[c] = builder[c]
    BY Zenon, <1>0
<1>2. tmp'[k] = t /\ \A j \in Others(k) : tmp'[j] = tmp[j] /\ staged'[j] = staged[j] /\ base'[j] = base[j]
    BY Zenon, <1>0 DEF Others
<1>3. base'[k] = base[k] \/ (base'[k] = tmp[k] /\ t = 0 /\ 
         (k \notin muddled /\ tmp[k] # 0 => files'[tmp[k]].lost \/ files'[tmp[k]] = B!Whole(k)))
    BY Zenon, <1>0
<1>4. BaseTypes'
    <2>1. tmp' \in [B!Keys -> Inode' \cup {0}] /\ base' \in [B!Keys -> Inode' \cup {0}]
        <3>1. Inode \subseteq Inode' /\ t \in Inode' \cup {0} /\ tmp[k] \in Inode \cup {0}
            BY <1>0 DEF Inode
        <3>2. \A j \in B!Keys : tmp'[j] \in Inode' \cup {0} /\ base'[j] \in Inode' \cup {0}
            <4> SUFFICES ASSUME NEW j \in B!Keys
                         PROVE  tmp'[j] \in Inode' \cup {0} /\ base'[j] \in Inode' \cup {0}
                BY Zenon
            <4>1. tmp[j] \in Inode \cup {0} /\ base[j] \in Inode \cup {0}
                BY Zenon, <1>0
            <4>2. CASE j = k
                <5>1. tmp'[j] = t
                    BY Zenon, <1>2, <4>2
                <5>2. base'[j] = base[j] \/ base'[j] = tmp[k]
                    BY Zenon, <1>3, <4>2
                <5> QED BY Zenon, <3>1, <4>1, <5>1, <5>2
            <4>3. CASE j # k
                <5>1. tmp'[j] = tmp[j] /\ base'[j] = base[j]
                    BY Zenon, <1>2, <4>3 DEF Others
                <5> QED BY Zenon, <3>1, <4>1, <5>1
            <4> QED BY Zenon, <4>2, <4>3
        <3>3. /\ tmp' = [j \in B!Keys |-> tmp'[j]]
              /\ base' = [j \in B!Keys |-> base'[j]]
            BY Zenon, <1>0
        <3> QED BY Zenon, <3>2, <3>3
    <2>2. staged' \in [B!Keys -> {0, 1, 2}]
        BY Zenon, <1>0
    <2>3. \A c \in Builders : builder'[c].fs \in Inode' \cup {0}
        BY <1>0, <1>1 DEF Inode
    <2> QED BY Zenon, <1>0, <1>1, <2>1, <2>2, <2>3 DEF BaseTypes
<1>5. FilesDiffer'
    <2>0. tmp[k] \in Inode \cup {0} /\ base[k] \in Inode \cup {0} /\ (t \notin Inode \/ t = tmp[k])
        BY Zenon, <1>0
    <2>1. ASSUME NEW i \in B!Keys, NEW j \in B!Keys, tmp'[i] # 0
          PROVE  tmp'[i] # base'[j] /\ (i # j => tmp'[i] # tmp'[j])
        <3>1. CASE i # k
            <4>1. tmp'[i] = tmp[i] /\ tmp[i] \in Inode
                BY SMTT(20), <1>0, <1>2, <2>1, <3>1 DEF Others
            <4>2. tmp[i] # base'[j]
                BY SMTT(20), <1>0, <1>2, <1>3, <3>1, <4>1 DEF FilesDiffer, Others
            <4>3. i # j => tmp[i] # tmp'[j]
                BY SMTT(20), <1>0, <1>2, <2>0, <3>1, <4>1 DEF FilesDiffer, Others
            <4> QED BY Zenon, <4>1, <4>2, <4>3
        <3>2. CASE i = k /\ t = tmp[k]
            BY SMTT(20), <1>0, <1>2, <1>3, <2>1, <3>2 DEF FilesDiffer, Others
        <3>3. CASE i = k /\ t \notin Inode
            BY SMTT(20), <1>0, <1>2, <1>3, <2>0, <2>1, <3>3 DEF Others
        <3> QED BY Zenon, <2>0, <3>1, <3>2, <3>3
    <2>2. ASSUME NEW i \in B!Keys, NEW j \in B!Keys, i # j, base'[i] # 0
          PROVE  base'[i] # base'[j]
        BY <1>0, <1>2, <1>3, <2>2 DEF FilesDiffer, Others
    <2>3. ASSUME NEW c \in Builders, builder'[c].fs # 0, NEW j \in B!Keys \ {builder'[c].key}
          PROVE  builder'[c].fs # tmp'[j] /\ builder'[c].fs # base'[j]
        <3>1. CASE c = b
            BY SMTT(20), <1>0, <1>1, <1>2, <2>3, <3>1 DEF FilesDiffer, Others
        <3>2. CASE c # b
            BY <1>0, <1>1, <1>2, <1>3, <2>3, <3>2 DEF FilesDiffer, Others, Inode
        <3> QED BY Zenon, <3>1, <3>2
    <2> QED BY Zenon, <2>1, <2>2, <2>3 DEF FilesDiffer
<1>6. Alone'
    BY <1>0, <1>1 DEF Alone
<1>7. ASSUME NEW c \in Builders PROVE Made(c)'
    <2>1. CASE c = b
        BY Zenon, <2>1
    <2>2. CASE c # b /\ builder[c].key = k
        <3>1. builder[c].at = "idle" \/ builder[c].key \in muddled
            BY Zenon, <2>2 DEF BInv, Alone
        <3>2. Made(c) /\ builder'[c] = builder[c] /\ muddled' = muddled
            BY Zenon, <1>1, <2>2 DEF BInv
        <3> QED BY Zenon, <3>1, <3>2, MadeMuddled
    <2>3. CASE c # b /\ builder[c].key # k
        <3> DEFINE j == builder[c].key
        <3>1. j \in Others(k) /\ builder'[c] = builder[c] /\ tmp'[j] = tmp[j] /\ staged'[j] = staged[j]
            BY <1>0, <1>1, <1>2, <2>3 DEF Others, Builds
        <3>2. tmp[j] # 0 => files'[tmp[j]] = files[tmp[j]]
            BY <1>0, <3>1 DEF Others
        <3>3. Made(c)
            BY Zenon DEF BInv
        <3> QED BY Zenon, <3>1, <3>2, <3>3, MadeKept
    <2> QED BY Zenon, <2>1, <2>2, <2>3
<1>8. B!BaseWhole'
    <2> SUFFICES ASSUME NEW j \in B!Keys \ muddled, base'[j] # 0
                 PROVE  files'[base'[j]].lost \/ files'[base'[j]] = B!Whole(j)
        BY Zenon DEF B!BaseWhole
    <2>1. j # k => base[j] # 0 /\ files'[base[j]] = files[base[j]]
        BY <1>0, <1>2 DEF Others
    <2>2. j = k /\ base'[j] = base[j] => files'[base[j]] = files[base[j]]
        BY <1>0, <1>2 DEF Others
    <2>3. base[j] # 0 => files[base[j]].lost \/ files[base[j]] = B!Whole(j)
        BY Zenon, <1>0 DEF B!BaseWhole
    <2> QED BY <1>2, <1>3, <2>1, <2>2, <2>3 DEF Others
<1> QED BY Zenon, <1>4, <1>5, <1>6, <1>7, <1>8 DEF BInv

\* The file a thread writes to is of its own key, and not yet a base unless muddled.
LEMMA OwnInode ==
    ASSUME BInv, NEW b \in Builders, builder[b].at # "idle", NEW k \in B!Keys, k = builder[b].key,
           NEW i \in {tmp[k], builder[b].fs}, i # 0
    PROVE  /\ i \in Inode
           /\ \A j \in Others(k) : i # tmp[j] /\ i # base[j]
           /\ k \notin muddled => i = tmp[k] /\ i # base[k]
<1>1. FilesDiffer /\ Made(b) /\ tmp[k] \in Inode \cup {0} /\ builder[b].fs \in Inode \cup {0}
    BY Zenon DEF BInv, BaseTypes
<1>2. \A j \in Others(k) : i # tmp[j] /\ i # base[j]
    BY Zenon, <1>1 DEF FilesDiffer, Others
<1>3. k \notin muddled => i = tmp[k]
    BY Zenon, <1>1 DEF Made
<1>4. k \notin muddled => i # base[k]
    BY Zenon, <1>1, <1>3 DEF FilesDiffer
<1> QED BY Zenon, <1>1, <1>2, <1>3, <1>4

\* Nobody else has the temporary file of a key in order open.
LEMMA Uncontended ==
    ASSUME BInv, NEW b \in Builders, builder[b].at # "idle", NEW k \in B!Keys, k = builder[b].key,
           k \notin muddled, tmp[k] # 0
    PROVE  ~B!Contended(b, tmp[k])
<1> SUFFICES ASSUME NEW c \in Builders \ {b}, builder[c].fs = tmp[k] PROVE FALSE
    BY Zenon DEF B!Contended
<1>1. FilesDiffer /\ Alone /\ Made(c) /\ builder[c] \in Builds
    BY Zenon DEF BInv, BaseTypes
<1>2. builder[c].at # "idle"
    BY Zenon, <1>1 DEF Made
<1>3. builder[c].key # k
    BY Zenon, <1>1, <1>2 DEF Alone
<1> QED BY Zenon, <1>1, <1>3 DEF FilesDiffer

\* A step that writes to no file and makes none.
LEMMA PathStep ==
    ASSUME BInv, NEW b \in Builders, builder[b].at # "idle", NEW k \in B!Keys, k = builder[b].key,
           NEW r, Becomes(b, k, r),
           UNCHANGED <<installed, muddled, files>>,
           NEW t \in {0, tmp[k]}, tmp' = [tmp EXCEPT ![k] = t],
           NEW s \in {0, 1, 2}, staged' = [staged EXCEPT ![k] = s],
           UNCHANGED base \/ (Renamed(k) /\ t = 0),
           Made(b)'
    PROVE  BInv'
<1>1. Spares(k)
    BY Zenon DEF BInv, BaseTypes, Spares, Inode
<1> QED BY Zenon, <1>1, BuildStep

\* A step that writes to the file of its thread.
LEMMA ContentStep ==
    ASSUME BInv, NEW b \in Builders, builder[b].at # "idle", NEW k \in B!Keys, k = builder[b].key,
           NEW r, Becomes(b, k, r),
           UNCHANGED <<installed, muddled, tmp, base>>,
           NEW i \in {tmp[k], builder[b].fs}, i # 0, NEW f \in Contents, B!Content(i, f),
           NEW s \in {0, 1, 2}, staged' = [staged EXCEPT ![k] = s],
           files'[i] = f => Made(b)'
    PROVE  BInv'
<1>1. PICK n \in Nat : files \in [1 .. n -> Contents]
    BY Zenon DEF BInv, BaseTypes
<1>2. i \in Inode /\ Inode = 1 .. n /\ files' = [files EXCEPT ![i] = f]
    BY Zenon, <1>1, OwnInode DEF Inode, B!Content
<1>3. files' \in [1 .. n -> Contents] /\ files'[i] = f
    BY Zenon, <1>1, <1>2
<1>4. \A j \in Inode : j \in DOMAIN files' /\ (j = i \/ files'[j] = files[j])
    BY Zenon, <1>1, <1>2
<1>5. /\ \A j \in Others(k) : i # tmp[j] /\ i # base[j]
      /\ k \notin muddled => i # base[k]
    BY OwnInode
<1>6. tmp' = [tmp EXCEPT ![k] = tmp[k]]
    BY Zenon DEF BInv, BaseTypes
<1>7. Spares(k)
    BY Zenon, <1>3, <1>4, <1>5 DEF Spares, Own
<1>8. tmp[k] \in {0, tmp[k]} \cup (DOMAIN files' \ Inode) /\ Made(b)'
    BY Zenon, <1>3
<1>9. UNCHANGED <<installed, muddled>> /\ UNCHANGED base
    BY Zenon
<1> QED BY Zenon, <1>6, <1>7, <1>8, <1>9, BuildStep

\* An error on the way removes the temporary file and ends the build.
LEMMA FailStep ==
    ASSUME BInv, NEW b \in Builders, builder[b].at # "idle", B!Fail(b),
           UNCHANGED <<installed, files, base, muddled>>,
           staged' \in {staged, [staged EXCEPT ![builder[b].key] = 0]}
    PROVE  BInv'
<1> DEFINE k == builder[b].key
<1>0. /\ k \in B!Keys /\ tmp \in [B!Keys -> Inode \cup {0}] /\ staged \in [B!Keys -> {0, 1, 2}]
      /\ builder \in [Builders -> Builds]
    BY Zenon DEF BInv, BaseTypes, Builds
<1>1. PICK t \in {0, tmp[k]} : tmp' = [tmp EXCEPT ![k] = t]
    BY Zenon, <1>0 DEF B!Fail
<1>2. PICK s \in {0, 1, 2} : staged' = [staged EXCEPT ![k] = s]
    BY Zenon, <1>0
<1>3. builder' = [builder EXCEPT ![b] = B!Resting]
    BY Zenon DEF B!Fail
<1>4. Made(b)'
    BY Zenon, <1>0, <1>3, RestingRec DEF Made
<1>5. Becomes(b, k, B!Resting)
    BY Zenon, <1>3, RestingRec DEF Becomes
<1> QED BY Zenon, <1>0, <1>1, <1>2, <1>4, <1>5, PathStep

\* A thread goes on to another stage of the same base.
Turns(b, a, f) == builder' = [builder EXCEPT ![b] = [builder[b] EXCEPT !.at = a, !.fs = f]]

\* What such a turn makes of the thread.
LEMMA StageStep ==
    ASSUME BInv, NEW b \in Builders, NEW a \in Stages \ {"idle"},
           NEW f \in {0, tmp[builder[b].key], builder[b].fs}, Turns(b, a, f)
    PROVE  /\ \E r : Becomes(b, builder[b].key, r)
           /\ builder'[b].at = a /\ builder'[b].key = builder[b].key /\ builder'[b].fs = f
<1> DEFINE k == builder[b].key
<1>1. /\ builder \in [Builders -> Builds] /\ builder[b].fs \in Inode \cup {0}
      /\ tmp[k] \in Inode \cup {0} /\ Inode \subseteq Nat
    BY SMTT(20), InodeFacts DEF BInv, BaseTypes, Builds
<1>2. f \in Nat
    BY <1>1
<1> DEFINE r == [builder[b] EXCEPT !.at = a, !.fs = f]
<1>3. r \in Builds /\ r.at = a /\ r.key = k /\ r.fs = f
    BY Zenon, <1>1, <1>2 DEF Builds
<1>4. builder' = [builder EXCEPT ![b] = r]
    BY Zenon DEF Turns
<1> HIDE DEF r
<1>5. builder'[b] = r
    BY Zenon, <1>1, <1>4
<1>6. Becomes(b, k, r)
    BY Zenon, <1>3, <1>4 DEF Becomes
<1> QED BY Zenon, <1>3, <1>5, <1>6

\* The journal is added.
LEMMA AddJournalStep ==
    ASSUME BInv, NEW b \in Builders, B!AddJournal(b) PROVE BInv'
<1> DEFINE k == builder[b].key
<1>0. /\ k \in B!Keys /\ tmp \in [B!Keys -> Inode \cup {0}] /\ staged \in [B!Keys -> {0, 1, 2}]
      /\ builder \in [Builders -> Builds] /\ Made(b) /\ builder[b].at = "journal"
    BY Zenon DEF BInv, BaseTypes, Builds, B!AddJournal
<1>1. CASE B!Fail(b)
    BY Zenon, <1>0, <1>1, FailStep DEF B!AddJournal
<1>2. CASE builder' = [builder EXCEPT ![b].at = "populate"] /\ UNCHANGED tmp
    <2>1. Turns(b, "populate", builder[b].fs)
        BY Zenon, <1>0, <1>2 DEF Builds, Turns
    <2>2. "populate" \in Stages \ {"idle"}
        BY Zenon DEF Stages
    <2>3. (\E r : Becomes(b, k, r)) /\ builder'[b].at = "populate" /\ builder'[b].key = k /\ builder'[b].fs = builder[b].fs
        BY Zenon, <2>1, <2>2, StageStep
    <2>4. UNCHANGED <<installed, muddled, files, base, staged>>
        BY Zenon DEF B!AddJournal
    <2>5. Made(b)'
        BY <1>0, <1>2, <2>3, <2>4 DEF Made
    <2>6. tmp' = [tmp EXCEPT ![k] = tmp[k]] /\ staged' = [staged EXCEPT ![k] = staged[k]] /\ staged[k] \in {0, 1, 2}
        BY Zenon, <1>0, <1>2, <2>4
    <2> QED BY Zenon, <1>0, <2>3, <2>4, <2>5, <2>6, PathStep
<1> QED BY Zenon, <1>1, <1>2 DEF B!AddJournal

\* stage_executable_copy.
LEMMA StageCopyStep ==
    ASSUME BInv, NEW b \in Builders, B!Stage(b) PROVE BInv'
<1> DEFINE k == builder[b].key
<1>0. /\ k \in B!Keys /\ tmp \in [B!Keys -> Inode \cup {0}] /\ staged \in [B!Keys -> {0, 1, 2}]
      /\ builder \in [Builders -> Builds] /\ Made(b) /\ builder[b].at = "stage" /\ installed \in {1, 2}
    BY Zenon DEF BInv, BaseTypes, Builds, B!Stage
<1>1. CASE B!Fail(b) /\ staged' = [staged EXCEPT ![k] = 0]
    BY Zenon, <1>0, <1>1, FailStep DEF B!Stage
<1>2. CASE staged' = [staged EXCEPT ![k] = installed] /\ B!Goto(b, "inject") /\ UNCHANGED tmp
    <2>1. Turns(b, "inject", 0)
        BY Zenon, <1>2 DEF B!Goto, Turns
    <2>2. "inject" \in Stages \ {"idle"}
        BY Zenon DEF Stages
    <2>3. (\E r : Becomes(b, k, r)) /\ builder'[b].at = "inject" /\ builder'[b].key = k /\ builder'[b].fs = 0
        BY Zenon, <2>1, <2>2, StageStep
    <2>4. UNCHANGED <<installed, muddled, files, base>>
        BY  DEF B!Stage
    <2>5. Made(b)'
        BY Zenon, <1>0, <1>2, <2>3, <2>4 DEF Made
    <2>6. tmp' = [tmp EXCEPT ![k] = tmp[k]] /\ installed \in {0, 1, 2}
        BY Zenon, <1>0, <1>2
    <2> QED BY Zenon, <1>0, <1>2, <2>3, <2>4, <2>5, <2>6, PathStep
<1> QED BY Zenon, <1>1, <1>2 DEF B!Stage

\* inject_file opens the temporary path once more.
LEMMA OpenStep ==
    ASSUME BInv, NEW b \in Builders, B!OpenFilesystem(b) PROVE BInv'
<1> DEFINE k == builder[b].key
<1>0. /\ k \in B!Keys /\ tmp \in [B!Keys -> Inode \cup {0}] /\ staged \in [B!Keys -> {0, 1, 2}]
      /\ builder \in [Builders -> Builds] /\ Made(b) /\ builder[b].at = "inject"
    BY Zenon DEF BInv, BaseTypes, Builds, B!OpenFilesystem
<1>1. CASE B!Fail(b) /\ staged' = [staged EXCEPT ![k] = 0]
    BY Zenon, <1>0, <1>1, FailStep DEF B!OpenFilesystem
<1>2. CASE tmp[k] # 0 /\ builder' = [builder EXCEPT ![b].at = "write", ![b].fs = tmp[k]] /\ UNCHANGED <<tmp, staged>>
    <2>1. Turns(b, "write", tmp[k])
        BY Zenon, <1>2 DEF Turns
    <2>2. "write" \in Stages \ {"idle"}
        BY Zenon DEF Stages
    <2>3. (\E r : Becomes(b, k, r)) /\ builder'[b].at = "write" /\ builder'[b].key = k /\ builder'[b].fs = tmp[k]
        BY Zenon, <2>1, <2>2, StageStep
    <2>4. UNCHANGED <<installed, muddled, files, base>>
        BY Zenon DEF B!OpenFilesystem
    <2>5. Made(b)'
        BY <1>0, <1>2, <2>3, <2>4 DEF Made
    <2>6. tmp' = [tmp EXCEPT ![k] = tmp[k]] /\ staged' = [staged EXCEPT ![k] = staged[k]] /\ staged[k] \in {0, 1, 2}
        BY Zenon, <1>0, <1>2, <2>4
    <2> QED BY Zenon, <1>0, <2>3, <2>4, <2>5, <2>6, PathStep
<1> QED BY Zenon, <1>1, <1>2 DEF B!OpenFilesystem

\* The temporary file gets its final name.
LEMMA RenameStep ==
    ASSUME BInv, NEW b \in Builders, B!Rename(b) PROVE BInv'
<1> DEFINE k == builder[b].key
<1>0. /\ k \in B!Keys /\ tmp \in [B!Keys -> Inode \cup {0}] /\ staged \in [B!Keys -> {0, 1, 2}]
      /\ builder \in [Builders -> Builds] /\ Made(b) /\ builder[b].at = "rename"
      /\ UNCHANGED <<installed, files, staged, muddled>>
    BY Zenon DEF BInv, BaseTypes, Builds, B!Rename
<1>1. CASE B!Fail(b) /\ UNCHANGED base
    BY Zenon, <1>0, <1>1, FailStep
<1>2. CASE /\ base' = [base EXCEPT ![k] = tmp[k]] /\ tmp' = [tmp EXCEPT ![k] = 0]
           /\ builder' = [builder EXCEPT ![b] = B!Resting]
    <2>1. Becomes(b, k, B!Resting)
        BY Zenon, <1>2, RestingRec DEF Becomes
    <2>2. Renamed(k)
        BY Zenon, <1>0, <1>2 DEF Renamed, Made
    <2>3. Made(b)'
        BY Zenon, <1>0, <1>2, RestingRec DEF Made
    <2>4. staged' = [staged EXCEPT ![k] = staged[k]] /\ staged[k] \in {0, 1, 2}
        BY Zenon, <1>0
    <2> QED BY Zenon, <1>0, <1>2, <2>1, <2>2, <2>3, <2>4, PathStep
<1> QED BY Zenon, <1>1, <1>2 DEF B!Rename

\* ext2fs_initialize opens the path again and lays out the filesystem.
LEMMA MkfsStep ==
    ASSUME BInv, NEW b \in Builders, B!Mkfs(b) PROVE BInv'
<1> DEFINE k == builder[b].key
           i == tmp[k]
           f == [files[i] EXCEPT !.torn = @ \/ B!Contended(b, i)]
<1>0. /\ k \in B!Keys /\ tmp \in [B!Keys -> Inode \cup {0}] /\ staged \in [B!Keys -> {0, 1, 2}]
      /\ builder \in [Builders -> Builds] /\ Made(b) /\ builder[b].at = "mkfs"
      /\ UNCHANGED <<installed, base, staged, muddled>>
    BY Zenon DEF BInv, BaseTypes, Builds, B!Mkfs
<1>1. CASE B!Fail(b) /\ UNCHANGED files
    BY Zenon, <1>0, <1>1, FailStep
<1>2. CASE /\ i # 0 /\ B!Content(i, f)
           /\ builder' = [builder EXCEPT ![b].at = "journal", ![b].fs = i] /\ UNCHANGED tmp
    <2>1. Turns(b, "journal", i)
        BY Zenon, <1>2 DEF Turns
    <2>2. "journal" \in Stages \ {"idle"}
        BY Zenon DEF Stages
    <2>3. (\E r : Becomes(b, k, r)) /\ builder'[b].at = "journal" /\ builder'[b].key = k /\ builder'[b].fs = i
        BY Zenon, <2>1, <2>2, StageStep
    <2>4. files[i] \in Contents /\ B!Contended(b, i) \in BOOLEAN
        BY Zenon, <1>0, <1>2, InodeFacts DEF BInv, B!Contended
    <2>5. f \in Contents /\ f.tree = files[i].tree /\ f.agent = files[i].agent
          /\ f.torn = (files[i].torn \/ B!Contended(b, i)) /\ f.lost = files[i].lost
        BY Zenon, <2>4 DEF Contents
    <2>6. k \notin muddled => f = B!Empty
        <3> SUFFICES ASSUME k \notin muddled PROVE f = B!Empty
            BY Zenon
        <3>1. files[i] = B!Empty /\ ~B!Contended(b, i)
            BY Zenon, <1>0, <1>2, Uncontended DEF Made
        <3>2. f.tree = B!Empty.tree /\ f.agent = B!Empty.agent /\ f.torn = B!Empty.torn
              /\ f.lost = B!Empty.lost
            BY Zenon, <2>5, <3>1 DEF B!Empty
        <3> QED BY Zenon, <2>5, <3>2, ContentRecs, SameContent
    <2> HIDE DEF f
    <2>7. files'[i] = f => Made(b)'
        BY <1>0, <1>2, <2>3, <2>6 DEF Made
    <2>8. staged' = [staged EXCEPT ![k] = staged[k]] /\ staged[k] \in {0, 1, 2}
        BY Zenon, <1>0
    <2>9. UNCHANGED <<installed, muddled, tmp, base>> /\ B!Content(i, f) /\ i # 0
        BY Zenon, <1>0, <1>2
    <2> QED BY Zenon, <1>0, <2>3, <2>5, <2>7, <2>8, <2>9, ContentStep
<1> QED BY Zenon, <1>1, <1>2 DEF B!Mkfs

\* populate writes the rootfs; the close flushes it.
LEMMA PopulateStep ==
    ASSUME BInv, NEW b \in Builders, B!Populate(b) PROVE BInv'
<1> DEFINE k == builder[b].key
           i == builder[b].fs
           f(x) == IF x THEN B!Lost ELSE B!Populated(i)
           a == IF k = 0 THEN "rename" ELSE "stage"
<1>0. /\ k \in B!Keys /\ tmp \in [B!Keys -> Inode \cup {0}] /\ staged \in [B!Keys -> {0, 1, 2}]
      /\ builder \in [Builders -> Builds] /\ Made(b) /\ builder[b].at = "populate"
      /\ UNCHANGED <<installed, base, staged, muddled>> /\ i \in Inode \cup {0}
    BY Zenon DEF BInv, BaseTypes, Builds, B!Populate
<1>1. CASE B!Fail(b) /\ UNCHANGED files
    BY Zenon, <1>0, <1>1, FailStep
<1>2. CASE B!Flushed(i, B!Populated(i)) /\ B!Goto(b, a) /\ UNCHANGED tmp
    <2>0. PICK x \in BOOLEAN : B!Content(i, f(x)) /\ (x \/ ~files[i].lost)
        BY Zenon, <1>2 DEF B!Flushed
    <2>1. Turns(b, a, 0)
        BY Zenon, <1>2 DEF Turns, B!Goto
    <2>2. a \in Stages \ {"idle"}
        BY Zenon DEF Stages
    <2>3. (\E r : Becomes(b, k, r)) /\ builder'[b].at = a /\ builder'[b].key = k /\ builder'[b].fs = 0
        <3> HIDE DEF a
        <3> QED BY Zenon, <2>1, <2>2, StageStep
    <2>4. i # 0 /\ files[i] \in Contents
        BY Zenon, <1>0, InodeFacts DEF BInv, Made
    <2>5. B!Populated(i) \in Contents /\ B!Populated(i).tree = TRUE /\ B!Populated(i).lost = files[i].lost
          /\ B!Populated(i).agent = files[i].agent /\ B!Populated(i).torn = files[i].torn
        BY Zenon, <2>4 DEF Contents, B!Populated
    <2>c. f(x) \in Contents /\ (x => f(x).lost)
        BY Zenon, <2>5, LostRec
    <2>6. k \notin muddled => f(x).lost \/ f(x) = Bare
        <3> SUFFICES ASSUME k \notin muddled, ~x PROVE B!Populated(i) = Bare
            BY Zenon, <2>c
        <3>1. files[i] = B!Empty
            BY Zenon, <1>0 DEF Made
        <3>2. /\ B!Populated(i).tree = Bare.tree /\ B!Populated(i).agent = Bare.agent
              /\ B!Populated(i).torn = Bare.torn /\ B!Populated(i).lost = Bare.lost
            BY Zenon, <2>5, <3>1 DEF B!Empty, Bare
        <3> QED BY Zenon, <2>5, <3>2, ContentRecs, SameContent
    <2> HIDE DEF f
    <2>7. k \notin muddled => i = tmp[k] /\ tmp[k] # 0
        BY Zenon, <1>0, <2>4 DEF Made
    <2>8. files'[i] = f(x) => Made(b)'
        BY Zenon, <1>0, <1>2, <2>3, <2>6, <2>7, ContentRecs DEF Made
    <2>9. staged' = [staged EXCEPT ![k] = staged[k]] /\ staged[k] \in {0, 1, 2}
        BY Zenon, <1>0
    <2>10. UNCHANGED <<installed, muddled, tmp, base>> /\ B!Content(i, f(x))
        BY Zenon, <1>0, <1>2, <2>0
    <2>11. (\E r : Becomes(b, k, r)) /\ f(x) \in Contents
        BY Zenon, <2>3, <2>c
    <2> QED BY Zenon, <1>0, <2>4, <2>8, <2>9, <2>10, <2>11, ContentStep
<1> QED BY Zenon, <1>1, <1>2 DEF B!Populate

\* inject_file writes the agent.
LEMMA WriteAgentStep ==
    ASSUME BInv, NEW b \in Builders, B!WriteAgent(b) PROVE BInv'
<1> DEFINE k == builder[b].key
           i == builder[b].fs
           g == [files[i] EXCEPT !.agent = staged[k], !.torn = @ \/ B!Contended(b, i)]
           f(x) == IF x THEN B!Lost ELSE g
<1>0. /\ k \in B!Keys /\ tmp \in [B!Keys -> Inode \cup {0}] /\ staged \in [B!Keys -> {0, 1, 2}]
      /\ builder \in [Builders -> Builds] /\ Made(b) /\ builder[b].at = "write"
      /\ staged' = [staged EXCEPT ![k] = 0]
      /\ UNCHANGED <<installed, base, muddled>> /\ i \in Inode \cup {0}
    BY Zenon DEF BInv, BaseTypes, Builds, B!WriteAgent
<1>1. CASE B!Fail(b) /\ UNCHANGED files
    BY Zenon, <1>0, <1>1, FailStep
<1>2. CASE B!Flushed(i, g) /\ B!Goto(b, "rename") /\ UNCHANGED tmp
    <2>0. PICK x \in BOOLEAN : B!Content(i, f(x)) /\ (x \/ ~files[i].lost)
        BY Zenon, <1>2 DEF B!Flushed
    <2>1. Turns(b, "rename", 0)
        BY Zenon, <1>2 DEF Turns, B!Goto
    <2>2. "rename" \in Stages \ {"idle"}
        BY Zenon DEF Stages
    <2>3. (\E r : Becomes(b, k, r)) /\ builder'[b].at = "rename" /\ builder'[b].key = k /\ builder'[b].fs = 0
        BY Zenon, <2>1, <2>2, StageStep
    <2>4. i # 0 /\ files[i] \in Contents /\ staged[k] \in Nat /\ B!Contended(b, i) \in BOOLEAN
        BY <1>0, InodeFacts DEF BInv, Made, B!Contended
    <2>c. g \in Contents /\ g.tree = files[i].tree /\ g.agent = staged[k]
          /\ g.torn = (files[i].torn \/ B!Contended(b, i)) /\ g.lost = files[i].lost
        BY Zenon, <2>4 DEF Contents
    <2>5. f(x) \in Contents /\ (x => f(x).lost)
        BY Zenon, <2>c, LostRec
    <2>6. k \notin muddled => i = tmp[k] /\ tmp[k] # 0
        BY Zenon, <1>0, <2>4 DEF Made
    <2>7. k \notin muddled => f(x).lost \/ f(x) = B!Whole(k)
        <3> SUFFICES ASSUME k \notin muddled, ~x PROVE g = B!Whole(k)
            BY Zenon, <2>5
        <3>0. ~files[i].lost
            BY Zenon, <2>0
        <3>1. files[i] = Bare /\ staged[k] = k /\ ~B!Contended(b, i)
            BY Zenon, <1>0, <2>6, <3>0, Uncontended DEF Made
        <3>2. g.tree = TRUE /\ g.agent = k /\ g.torn = FALSE /\ g.lost = FALSE
            BY Zenon, <2>c, <3>1 DEF Bare, B!Empty
        <3>3. B!Whole(k) \in Contents /\ B!Whole(k).tree = TRUE /\ B!Whole(k).agent = k /\ B!Whole(k).torn = FALSE
              /\ B!Whole(k).lost = FALSE
            BY Zenon, <2>4, <3>1 DEF B!Whole, Contents
        <3> HIDE DEF g
        <3> QED BY ZenonT(40), <2>c, <3>2, <3>3, SameContent
    <2> HIDE DEF f, g
    <2>8. files'[i] = f(x) => Made(b)'
        BY Zenon, <1>0, <1>2, <2>3, <2>6, <2>7 DEF Made
    <2>9. UNCHANGED <<installed, muddled, tmp, base>> /\ B!Content(i, f(x))
        BY Zenon, <1>0, <1>2, <2>0
    <2> QED BY Zenon, <1>0, <2>3, <2>4, <2>5, <2>8, <2>9, ContentStep
<1> QED BY Zenon, <1>1, <1>2 DEF B!WriteAgent

\* Filesystem::create truncates the temporary path, or makes it.
LEMMA TruncateStep ==
    ASSUME BInv, NEW b \in Builders, B!Truncate(b) PROVE BInv'
<1> DEFINE k == builder[b].key
           i == tmp[k]
<1>0. /\ k \in B!Keys /\ tmp \in [B!Keys -> Inode \cup {0}] /\ staged \in [B!Keys -> {0, 1, 2}]
      /\ builder \in [Builders -> Builds] /\ Made(b) /\ builder[b].at = "create"
      /\ UNCHANGED <<installed, base, staged, muddled>>
    BY Zenon DEF BInv, BaseTypes, Builds, B!Truncate
<1>1. Turns(b, "mkfs", 0)
    BY Zenon DEF B!Truncate, Turns, B!Goto
<1>2. "mkfs" \in Stages \ {"idle"}
    BY  DEF Stages
<1>3. (\E r : Becomes(b, k, r)) /\ builder'[b].at = "mkfs" /\ builder'[b].key = k /\ builder'[b].fs = 0
    BY Zenon, <1>1, <1>2, StageStep
<1>4. staged' = [staged EXCEPT ![k] = staged[k]] /\ staged[k] \in {0, 1, 2}
    BY Zenon, <1>0
<1>5. ASSUME i # 0 PROVE BInv'
    <2> DEFINE f == [B!Empty EXCEPT !.torn = B!Contended(b, i)]
    <2>1. B!Content(i, f) /\ UNCHANGED <<installed, muddled, tmp, base>>
        BY Zenon, <1>5 DEF B!Truncate
    <2>2. f \in Contents /\ f.tree = B!Empty.tree /\ f.agent = B!Empty.agent /\ f.torn = B!Contended(b, i)
          /\ f.lost = B!Empty.lost
        BY Zenon DEF Contents, B!Empty, B!Contended
    <2>3. k \notin muddled => f = B!Empty
        <3> SUFFICES ASSUME k \notin muddled PROVE f = B!Empty
            BY Zenon
        <3>1. ~B!Contended(b, i)
            BY Zenon, <1>0, <1>5, Uncontended
        <3>2. f.torn = B!Empty.torn
            <4>1. B!Contended(b, i) = FALSE /\ B!Empty.torn = FALSE
                BY Zenon, <3>1 DEF B!Empty, B!Contended
            <4> QED BY Zenon, <2>2, <4>1
        <3> QED BY Zenon, <2>2, <3>2, ContentRecs, SameContent
    <2> HIDE DEF f
    <2>4. ASSUME files'[i] = f PROVE Made(b)'
        <3>1. tmp'[k] = i /\ i # 0 /\ UNCHANGED <<installed, muddled>>
            BY Zenon, <1>5, <2>1
        <3>2. k \notin muddled => k \in {0, installed}
            BY Zenon, <1>0 DEF Made
        <3> QED BY Zenon, <1>3, <2>3, <2>4, <3>1, <3>2, MadeEmpty
    <2>5. builder[b].at # "idle" /\ i \in {tmp[k], builder[b].fs}
        BY Zenon, <1>0
    <2>6. PICK r : Becomes(b, k, r)
        BY Zenon, <1>3
    <2> QED BY ZenonT(30), <1>0, <1>4, <1>5, <2>1, <2>2, <2>4, <2>5, <2>6, ContentStep
<1>6. ASSUME i = 0 PROVE BInv'
    <2> DEFINE n == Len(files)
    <2>1. files' = Append(files, B!Empty) /\ tmp' = [tmp EXCEPT ![k] = n + 1]
        BY Zenon, <1>6 DEF B!Truncate
    <2>2. Inode = 1 .. n /\ n \in Nat /\ files \in [Inode -> Contents] /\ files \in Seq(Contents)
        BY Zenon, InodeFacts DEF BInv
    <2>f. /\ files' \in [1 .. n + 1 -> Contents] /\ files'[n + 1] = B!Empty
          /\ \A j \in 1 .. n : files'[j] = files[j]
        <3>1. B!Empty \in Contents /\ files \in Seq(Contents)
            BY Zenon, <2>2, ContentRecs
        <3>2. /\ Append(files, B!Empty) \in [1 .. n + 1 -> Contents] /\ Append(files, B!Empty)[n + 1] = B!Empty
              /\ \A j \in 1 .. n : Append(files, B!Empty)[j] = files[j]
            BY <3>1, OneMoreFile
        <3> QED BY Zenon, <2>1, <3>2
    <2> HIDE DEF n
    <2>3. n + 1 \in Nat /\ n + 1 \notin Inode /\ n + 1 \in 1 .. n + 1 /\ Inode \subseteq 1 .. n + 1
        BY <2>2
    <2>4. files' \in [1 .. n + 1 -> Contents] /\ files'[n + 1] = B!Empty /\ DOMAIN files' = 1 .. n + 1
        BY Zenon, <2>f
    <2>5. \A j \in Inode : j \in DOMAIN files' /\ files'[j] = files[j]
        BY Zenon, <2>2, <2>3, <2>4, <2>f
    <2>6. Spares(k)
        BY Zenon, <2>3, <2>4, <2>5 DEF Spares
    <2>7. n + 1 \in {0, tmp[k]} \cup (DOMAIN files' \ Inode)
        BY Zenon, <2>3, <2>4
    <2>8. tmp'[k] = n + 1 /\ n + 1 # 0
        BY SMTT(20), <1>0, <2>1, <2>2
    <2>9. Made(b)'
        BY Zenon, <1>0, <1>3, <2>4, <2>8 DEF Made
    <2>10. UNCHANGED <<installed, muddled>> /\ UNCHANGED base
        BY Zenon, <1>0
    <2>11. tmp' = [tmp EXCEPT ![k] = n + 1]
        BY Zenon, <2>1
    <2>12. builder[b].at # "idle"
        BY Zenon, <1>0
    <2> QED BY Zenon, <1>0, <1>3, <1>4, <2>6, <2>7, <2>9, <2>10, <2>11, <2>12, BuildStep
<1> QED BY Zenon, <1>5, <1>6

\* ManagedGuestBinary::resolve and the look for the base; a second builder muddles the key.
LEMMA ResolveStep ==
    ASSUME BInv, NEW b \in Builders, B!Resolve(b) PROVE BInv'
<1>1. PICK k \in {0, installed} :
        /\ builder' = [builder EXCEPT ![b] = [at |-> "create", key |-> k, fs |-> 0]]
        /\ muddled' = IF B!Building(k) # {} THEN muddled \cup {k} ELSE muddled
    BY Zenon DEF B!Resolve
<1> DEFINE r == [at |-> "create", key |-> k, fs |-> 0]
<1>2. /\ BaseTypes /\ FilesDiffer /\ Alone /\ B!BaseWhole /\ k \in B!Keys
      /\ builder \in [Builders -> Builds] /\ builder[b].at = "idle"
      /\ UNCHANGED <<installed, files, tmp, base, staged>>
    BY SMTT(20) DEF BInv, BaseTypes, B!Resolve, B!Keys
<1>3. r \in Builds /\ r.at = "create" /\ r.key = k /\ r.fs = 0
    BY Zenon, <1>2 DEF Builds, Stages
<1> HIDE DEF r
<1>4. builder' \in [Builders -> Builds] /\ builder'[b] = r /\ \A c \in Builders \ {b} : builder'[c] = builder[c]
    BY Zenon, <1>1, <1>2, <1>3 DEF r
<1>5. muddled \subseteq muddled' /\ muddled' \subseteq B!Keys /\ Inode' = Inode
    BY Zenon, <1>1, <1>2 DEF BaseTypes, Inode
<1>6. BaseTypes'
    <2>1. \A c \in Builders : builder'[c].fs \in Inode' \cup {0}
        BY Zenon, <1>2, <1>3, <1>4, <1>5 DEF BaseTypes
    <2> QED BY Zenon, <1>2, <1>4, <1>5, <2>1 DEF BaseTypes
<1>7. FilesDiffer'
    BY <1>2, <1>3, <1>4 DEF FilesDiffer
<1>8. Alone'
    <2>1. ASSUME NEW c \in Builders \ {b}, builder[c].at # "idle", builder[c].key = k PROVE k \in muddled'
        BY Zenon, <1>1, <2>1 DEF B!Building
    <2> SUFFICES ASSUME NEW c \in Builders, NEW d \in Builders, c # d, builder'[c].at # "idle",
                        builder'[d].at # "idle", builder'[c].key = builder'[d].key
                 PROVE  builder'[c].key \in muddled'
        BY Zenon DEF Alone
    <2>2. CASE c = b
        BY Zenon, <1>3, <1>4, <2>1, <2>2
    <2>3. CASE d = b
        BY Zenon, <1>3, <1>4, <2>1, <2>3
    <2>4. CASE c # b /\ d # b
        BY Zenon, <1>2, <1>4, <1>5, <2>4 DEF Alone
    <2> QED BY Zenon, <2>2, <2>3, <2>4
<1>9. ASSUME NEW c \in Builders PROVE Made(c)'
    <2>1. CASE c = b
        BY Zenon, <1>1, <1>2, <1>3, <1>4, <2>1 DEF Made
    <2>2. CASE c # b
        <3>1. Made(c) /\ builder'[c] = builder[c]
            BY Zenon, <1>4, <2>2 DEF BInv
        <3> QED BY Zenon, <1>2, <1>5, <3>1 DEF Made
    <2> QED BY Zenon, <2>1, <2>2
<1>10. B!BaseWhole'
    BY Zenon, <1>2, <1>5 DEF B!BaseWhole
<1> QED BY Zenon, <1>6, <1>7, <1>8, <1>9, <1>10 DEF BInv

\* remove_base, an upgrade of the agent and a crash.
LEMMA BaseRest ==
    ASSUME BInv, B!RemoveBase \/ B!Upgrade \/ B!Crash \/ UNCHANGED B!bvars PROVE BInv'
<1>0. /\ BaseTypes /\ FilesDiffer /\ Alone /\ B!BaseWhole /\ (\A b \in Builders : Made(b))
      /\ base \in [B!Keys -> Inode \cup {0}] /\ builder \in [Builders -> Builds]
    BY Zenon DEF BInv, BaseTypes
<1>1. CASE B!RemoveBase
    <2>1. PICK k \in B!Keys : base' = [base EXCEPT ![k] = 0]
        BY Zenon, <1>1 DEF B!RemoveBase
    <2>2. base' \in [B!Keys -> Inode \cup {0}] /\ \A j \in B!Keys : base'[j] = 0 \/ base'[j] = base[j]
        BY Zenon, <1>0, <2>1
    <2>3. UNCHANGED <<installed, files, tmp, staged, builder, muddled>> /\ Inode' = Inode
        BY Zenon, <1>1 DEF B!RemoveBase, Inode
    <2>4. BaseTypes'
        BY Zenon, <1>0, <2>2, <2>3 DEF BaseTypes
    <2>5. FilesDiffer'
        BY SMTT(20), <1>0, <2>2, <2>3 DEF FilesDiffer, BaseTypes, Builds
    <2>6. Alone' /\ (\A b \in Builders : Made(b)')
        BY Zenon, <1>0, <2>3 DEF Alone, Made
    <2>7. B!BaseWhole'
        BY Zenon, <1>0, <2>2, <2>3 DEF B!BaseWhole
    <2> QED BY Zenon, <2>4, <2>5, <2>6, <2>7 DEF BInv
<1>2. CASE B!Upgrade
    <2>1. UNCHANGED <<files, tmp, base, staged, builder>> /\ Inode' = Inode /\ installed = 1 /\ installed' = 2
        BY Zenon, <1>2 DEF B!Upgrade, Inode
    <2>2. muddled \subseteq muddled' /\ muddled' \subseteq B!Keys
        <3>1. muddled' = muddled \cup {k \in {1} : B!Building(k) # {}} /\ 1 \in B!Keys /\ muddled \subseteq B!Keys
            BY <1>0, <1>2 DEF B!Upgrade, BaseTypes, B!Keys
        <3> QED BY Zenon, <3>1
    <2>3. \A b \in Builders : builder[b].at # "idle" /\ builder[b].key = 1 => 1 \in muddled'
        BY Zenon, <1>2 DEF B!Upgrade, B!Building
    <2>4. BaseTypes'
        BY Zenon, <1>0, <2>1, <2>2 DEF BaseTypes
    <2>5. FilesDiffer' /\ Alone' /\ B!BaseWhole'
        BY Zenon, <1>0, <2>1, <2>2 DEF FilesDiffer, Alone, B!BaseWhole
    <2>6. ASSUME NEW b \in Builders PROVE Made(b)'
        <3>1. Made(b)
            BY Zenon, <1>0
        <3> QED BY Zenon, <2>1, <2>2, <2>3, <3>1 DEF Made
    <2> QED BY Zenon, <2>4, <2>5, <2>6 DEF BInv
<1>3. CASE B!Crash
    <2>1. UNCHANGED <<installed, files, tmp, base, staged, muddled>> /\ Inode' = Inode
        BY Zenon, <1>3 DEF B!Crash, Inode
    <2>2. builder' \in [Builders -> Builds] /\ \A b \in Builders : builder'[b] = B!Resting
        BY Zenon, <1>3, RestingRec DEF B!Crash
    <2>3. \A b \in Builders : builder'[b].at = "idle" /\ builder'[b].fs = 0
        BY Zenon, <2>2, RestingRec
    <2>4. BaseTypes'
        <3>1. \A b \in Builders : builder'[b].fs \in Inode' \cup {0}
            BY Zenon, <2>3
        <3> QED BY Zenon, <1>0, <2>1, <2>2, <3>1 DEF BaseTypes
    <2>5. FilesDiffer' /\ Alone' /\ B!BaseWhole' /\ (\A b \in Builders : Made(b)')
        BY Zenon, <1>0, <2>1, <2>3 DEF FilesDiffer, Alone, B!BaseWhole, Made
    <2> QED BY Zenon, <2>4, <2>5 DEF BInv
<1>4. CASE UNCHANGED B!bvars
    BY ZenonT(30), <1>0, <1>4 DEF B!bvars, BInv, BaseTypes, Inode, FilesDiffer, Alone, B!BaseWhole, Made
<1> QED BY Zenon, <1>1, <1>2, <1>3, <1>4

\* A base under its final name has the whole rootfs and the agent of its name, whatever failed or
\* crashed before, unless two threads built it at once or the agent was replaced under the one that
\* did (disk/mod.rs, guest.rs).
THEOREM BasesWhole == B!Spec => []BaseWhole
<1>1. BInv /\ [B!Next]_(B!bvars) => BInv'
    <2> SUFFICES ASSUME BInv, [B!Next]_(B!bvars) PROVE BInv'
        BY Zenon
    <2>1. ASSUME NEW b \in Builders, B!Step(b) PROVE BInv'
        BY Zenon, <2>1, ResolveStep, TruncateStep, MkfsStep, AddJournalStep, PopulateStep, StageCopyStep, OpenStep,
           WriteAgentStep, RenameStep DEF B!Step
    <2> QED BY Zenon, <2>1, BaseRest DEF B!Next
<1>2. BInv => BaseWhole
    BY Zenon DEF BInv, BaseWhole
<1> QED BY BInvInit, <1>1, <1>2, PTL DEF B!Spec
=============================================================================
