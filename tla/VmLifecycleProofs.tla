------------------------- MODULE VmLifecycleProofs -------------------------
(***************************************************************************)
(* First what holds of VmLifecycle however tasks overlap: the types of its *)
(* variables (TypeInv, from what steps do to the record of their task, the *)
(* Effect lemmas), which guests bubblewrap leaves adrift (DriftInv), that  *)
(* rows and overlays come and go together, and that rows stay deleted      *)
(* (DiskInv).                                                              *)
(* Then the invariant IInv for when the embedder lets no two tasks work on *)
(* one VM at a time, what a step of one task on its VM must show to keep   *)
(* it (LocalStep, QuietStep, SettleStep), and the actions one by one.      *)
(* From both: every guest is known, no two share a disk, a guest that a    *)
(* row names can be reached, the rows follow can_transition_to, and so the *)
(* runtime keeps the contract of VmContract.                               *)
(***************************************************************************)
EXTENDS VmLifecycle, TLAPS

\* What a step of one task does to the table of tasks.
Others(a) == \A b \in Actors \ {a} : task'[b] = task[b]

TasksTyped == task \in [Actors -> TaskRecord]

\* A step that replaces one task's record touches no other.
LEMMA BecomeEffect ==
    ASSUME TasksTyped, NEW a \in Actors, NEW t \in TaskRecord, Become(a, t)
    PROVE  TasksTyped' /\ task'[a] = t /\ Others(a)
BY Zenon DEF TasksTyped, Become, Others

\* An idle task is a well-formed one.
LEMMA IdleType == Idle \in TaskRecord
BY Zenon DEF Idle, TaskRecord, Points, Statuses

\* A task that returns or is dropped is idle, the others as before.
LEMMA FinishEffect ==
    ASSUME TasksTyped, NEW a \in Actors, Finish(a)
    PROVE  TasksTyped' /\ task'[a] = Idle /\ task'[a].pc = "idle" /\ Others(a)
BY IdleType, BecomeEffect DEF Finish, Idle

\* Moving on keeps all that the task holds.
LEMMA GotoEffect ==
    ASSUME TasksTyped, NEW a \in Actors, NEW point \in Points, Goto(a, point)
    PROVE  /\ TasksTyped' /\ Others(a)
           /\ task'[a].pc = point /\ task'[a].vm = task[a].vm /\ task'[a].st = task[a].st
           /\ task'[a].cp = task[a].cp /\ task'[a].sp = task[a].sp /\ task'[a].ka = task[a].ka
<1> DEFINE t == [task[a] EXCEPT !.pc = point]
<1>1. /\ t \in TaskRecord /\ t.pc = point /\ t.vm = task[a].vm /\ t.st = task[a].st
      /\ t.cp = task[a].cp /\ t.sp = task[a].sp /\ t.ka = task[a].ka
    BY Zenon DEF TasksTyped, TaskRecord
<1> QED BY <1>1, BecomeEffect, Zenon DEF Goto

\* stop_timeout and mark_stopped change point and cached status only.
LEMMA SetStatusEffect ==
    ASSUME TasksTyped, NEW a \in Actors, NEW point \in Points, NEW s \in Statuses \union {"none"},
           Become(a, [task[a] EXCEPT !.pc = point, !.st = s])
    PROVE  /\ TasksTyped' /\ Others(a)
           /\ task'[a].pc = point /\ task'[a].vm = task[a].vm /\ task'[a].st = s
           /\ task'[a].cp = task[a].cp /\ task'[a].sp = task[a].sp /\ task'[a].ka = task[a].ka
<1> DEFINE t == [task[a] EXCEPT !.pc = point, !.st = s]
<1>1. /\ t \in TaskRecord /\ t.pc = point /\ t.vm = task[a].vm /\ t.st = s
      /\ t.cp = task[a].cp /\ t.sp = task[a].sp /\ t.ka = task[a].ka
    BY Zenon DEF TasksTyped, TaskRecord
<1> QED BY <1>1, BecomeEffect, Zenon

\* spawn_shim leaves the new shim with its task, not yet in the row.
LEMMA SpawnShimEffect ==
    ASSUME TasksTyped, NEW a \in Actors, NEW p \in Pids, SpawnShim(a, p)
    PROVE  /\ TasksTyped' /\ Others(a)
           /\ task[a].pc = "create_spawn" => task'[a].pc = "create_insert"
           /\ task[a].pc = "start_spawn" => task'[a].pc = "start_commit"
           /\ task'[a].vm = task[a].vm /\ task'[a].st = task[a].st
           /\ task'[a].cp = task[a].cp /\ task'[a].sp = p /\ task'[a].ka = task[a].ka
<1> DEFINE point == IF task[a].pc = "create_spawn" THEN "create_insert" ELSE "start_commit"
           t == [task[a] EXCEPT !.sp = p, !.pc = point]
<1>1. point \in Points
    BY Zenon DEF Points
<1>2. /\ t \in TaskRecord /\ t.pc = point /\ t.vm = task[a].vm /\ t.st = task[a].st
      /\ t.cp = task[a].cp /\ t.sp = p /\ t.ka = task[a].ka
    <2> HIDE DEF point
    <2> QED BY <1>1, Zenon DEF TasksTyped, TaskRecord
<1>3. Become(a, t)
    BY Zenon DEF SpawnShim
<1> HIDE DEF t
<1> QED BY <1>2, <1>3, BecomeEffect

\* revert_failed_start gives the shim up and keeps the handle.
LEMMA StartCommitFailsEffect ==
    ASSUME TasksTyped, NEW a \in Actors, StartCommitFails(a)
    PROVE  /\ TasksTyped' /\ Others(a)
           /\ task'[a].pc = "handle" /\ task'[a].vm = task[a].vm /\ task'[a].st = task[a].st
           /\ task'[a].cp = task[a].cp /\ task'[a].sp = NoPid /\ task'[a].ka = task[a].ka
<1> DEFINE t == [task[a] EXCEPT !.sp = NoPid, !.pc = "handle"]
<1>1. /\ t \in TaskRecord /\ t.pc = "handle" /\ t.vm = task[a].vm /\ t.st = task[a].st
      /\ t.cp = task[a].cp /\ t.sp = NoPid /\ t.ka = task[a].ka
    BY ZenonT(30) DEF TasksTyped, TaskRecord, Points
<1>2. Become(a, t)
    BY Zenon DEF StartCommitFails
<1> HIDE DEF t
<1> QED BY Zenon, <1>1, <1>2, BecomeEffect

\* After the row write the handle caches Running and the new pid.
LEMMA RunningEffect ==
    ASSUME TasksTyped, NEW a \in Actors, NEW point \in Points, Become(a, Running(a, point))
    PROVE  /\ TasksTyped' /\ Others(a)
           /\ task'[a].pc = point /\ task'[a].vm = task[a].vm /\ task'[a].st = "Running"
           /\ task'[a].cp = task[a].sp /\ task'[a].sp = NoPid
           /\ task'[a].ka \in {NoPid, task[a].sp}
<1> DEFINE t == Running(a, point)
<1>1. /\ t \in TaskRecord /\ t.pc = point /\ t.vm = task[a].vm /\ t.st = "Running"
      /\ t.cp = task[a].sp /\ t.sp = NoPid /\ t.ka \in {NoPid, task[a].sp}
    BY Zenon DEF TasksTyped, TaskRecord, Running, Statuses
<1> QED BY Zenon, <1>1, BecomeEffect

\* A row read is copied into the task.
LEMMA ReadRowEffect ==
    ASSUME TasksTyped, NEW a \in Actors, NEW v \in Vms, NEW purpose \in Points,
           status[v] \in Statuses \union {"none"}, pid[v] \in Pids \union {NoPid},
           ReadRow(a, v, purpose)
    PROVE  /\ TasksTyped' /\ Others(a)
           /\ task'[a].pc = purpose /\ task'[a].vm = v
           /\ task'[a].st = status[v] /\ task'[a].cp = pid[v]
           /\ task'[a].sp = NoPid /\ task'[a].ka = NoPid
<1> DEFINE t == [Idle EXCEPT !.pc = purpose, !.vm = v, !.st = status[v], !.cp = pid[v]]
<1>1. /\ t \in TaskRecord /\ t.pc = purpose /\ t.vm = v /\ t.st = status[v] /\ t.cp = pid[v]
      /\ t.sp = NoPid /\ t.ka = NoPid
    BY Zenon DEF TaskRecord, Idle
<1>2. Become(a, t)
    BY Zenon DEF ReadRow
<1> HIDE DEF t
<1> QED BY Zenon, <1>1, <1>2, BecomeEffect

\* A create starts with a fresh VM and nothing else.
LEMMA CreateTaskEffect ==
    ASSUME TasksTyped, NEW a \in Actors, NEW v \in Vms,
           Become(a, [Idle EXCEPT !.pc = "create_spawn", !.vm = v])
    PROVE  /\ TasksTyped' /\ Others(a)
           /\ task'[a].pc = "create_spawn" /\ task'[a].vm = v /\ task'[a].st = "none"
           /\ task'[a].cp = NoPid /\ task'[a].sp = NoPid /\ task'[a].ka = NoPid
<1> DEFINE t == [Idle EXCEPT !.pc = "create_spawn", !.vm = v]
<1>1. /\ t \in TaskRecord /\ t.pc = "create_spawn" /\ t.vm = v /\ t.st = "none" /\ t.cp = NoPid
      /\ t.sp = NoPid /\ t.ka = NoPid
    BY Zenon DEF TaskRecord, Idle, Points, Statuses
<1> QED BY <1>1, BecomeEffect, Zenon

-----------------------------------------------------------------------------
(* Type correctness.                                                       *)

\* The points of a task that holds the pid of a row.
HoldsPid == Points \ {"idle", "create_spawn", "create_insert", "delete"}

\* The types of all variables but task and adrift; and every row has a pid.
World ==
    /\ up \in {"down", "recovering", "up"} /\ pending \in SUBSET Vms
    /\ status \in [Vms -> Statuses \union {"none"}]
    /\ pid \in [Vms -> Pids \union {NoPid}]
    /\ overlay \in SUBSET Vms /\ sock \in [Vms -> Pids \union {NoPid}]
    /\ proc \in [Pids -> {"none", "booting", "live", "killed", "zombie", "gone"}]
    /\ owner \in [Pids -> Vms \union {NoVm}]
    /\ child \in SUBSET Pids /\ waiters \in SUBSET Pids
    /\ used \in SUBSET Vms /\ lost \in SUBSET Pids /\ cut \in SUBSET Vms
    /\ \A v \in Vms : status[v] # "none" => pid[v] \in Pids

HoldsPids(a) ==
    /\ task[a].pc \in Uncommitted => task[a].sp \in Pids
    /\ task[a].pc \in HoldsPid => task[a].cp \in Pids
    /\ task[a].pc # "idle" => task[a].vm \in Vms

TypeInv == World /\ TasksTyped /\ \A a \in Actors : HoldsPids(a)

\* TypeInv after a step of one task, from the world and that task.
LEMMA TypeOneTask ==
    ASSUME TypeInv, NEW a \in Actors, World', TasksTyped', Others(a), HoldsPids(a)'
    PROVE  TypeInv'
BY Zenon DEF TypeInv, Others, HoldsPids

\* The empty database satisfies TypeInv.
LEMMA TypeInit == Init => TypeInv
BY IdleType DEF Init, TypeInv, World, TasksTyped, HoldsPids, Idle, Uncommitted, HoldsPid, Statuses

\* A signal keeps the process table's type.
LEMMA SignalType ==
    ASSUME World, NEW p
    PROVE  Signal(p) \in [Pids -> {"none", "booting", "live", "killed", "zombie", "gone"}]
BY Zenon DEF World, Signal

\* UPDATE neither makes nor deletes a row.
LEMMA UpdateStatusEffect ==
    ASSUME World, NEW v \in Vms, NEW s \in Statuses
    PROVE  /\ UpdateStatus(v, s) \in [Vms -> Statuses \union {"none"}]
           /\ \A w \in Vms : (UpdateStatus(v, s)[w] = "none") <=> (status[w] = "none")
BY Zenon DEF World, UpdateStatus, Statuses

\* mark_stopped, which ends kill, stop_timeout and wait.
LEMMA MarkStoppedWorld ==
    ASSUME TypeInv, NEW a \in Actors, task[a].pc \in HoldsPid, MarkStopped(a),
           proc' \in [Pids -> {"none", "booting", "live", "killed", "zombie", "gone"}]
    PROVE  World'
<1>1. task[a].vm \in Vms
    BY Zenon DEF TypeInv, HoldsPids, HoldsPid
<1> QED BY <1>1, UpdateStatusEffect
        DEF TypeInv, World, MarkStopped, Unlink, Statuses, ghostVars

\* mark_stopped leaves a well-formed task with its pid and VM.
LEMMA MarkStoppedTask ==
    ASSUME TypeInv, NEW a \in Actors, task[a].pc \in HoldsPid, MarkStopped(a)
    PROVE  TasksTyped' /\ Others(a) /\ HoldsPids(a)'
<1>1. TasksTyped /\ task[a].vm \in Vms /\ task[a].cp \in Pids
    BY Zenon DEF TypeInv, HoldsPids, HoldsPid
<1>2. PICK point \in {"handle", "mark_delete"} :
          Become(a, [task[a] EXCEPT !.pc = point, !.st = "Stopped"])
    BY Zenon DEF MarkStopped
<1>3. /\ TasksTyped' /\ Others(a) /\ task'[a].pc = point
      /\ task'[a].vm = task[a].vm /\ task'[a].cp = task[a].cp
    BY <1>1, <1>2, SetStatusEffect, ZenonT(30) DEF Points, Statuses
<1> QED BY Zenon, <1>1, <1>3 DEF HoldsPids, Uncommitted

\* reconcile_dead_pid and recover_dead end in a handle, a removal or the end
\* of the task, and no row is made or deleted.
LEMMA ReconcileEffect ==
    ASSUME TypeInv, NEW a \in Actors, Reconcile(a)
    PROVE  LET s == IF Active(task[a].st) /\ ~PidAlive(task[a].cp) THEN "Stopped" ELSE task[a].st
           IN  /\ TasksTyped' /\ Others(a)
               /\ \/ task'[a].pc = "idle"
                  \/ /\ \/ task'[a].pc = "handle" /\ task'[a].st = s
                        \/ task'[a].pc = "remove_files" /\ s = "Stopped"
                     /\ task'[a].vm = task[a].vm /\ task'[a].cp = task[a].cp
                     /\ task'[a].sp = task[a].sp /\ task'[a].ka = task[a].ka
<1>1. PICK s \in Statuses \union {"none"} :
          s = IF Active(task[a].st) /\ ~PidAlive(task[a].cp) THEN "Stopped" ELSE task[a].st
    BY Zenon DEF TypeInv, TasksTyped, TaskRecord, Statuses
<1>2. \/ Become(a, [task[a] EXCEPT !.pc = "handle", !.st = s])
      \/ Goto(a, "remove_files") /\ s = "Stopped"
      \/ Finish(a)
    BY Zenon, <1>1 DEF Reconcile, Removes
<1>3. TasksTyped /\ "handle" \in Points /\ "remove_files" \in Points
    BY Zenon DEF TypeInv, Points
<1>4. CASE Become(a, [task[a] EXCEPT !.pc = "handle", !.st = s])
    <2> DEFINE t == [task[a] EXCEPT !.pc = "handle", !.st = s]
    <2>1. /\ t \in TaskRecord /\ t.pc = "handle" /\ t.st = s /\ t.vm = task[a].vm
          /\ t.cp = task[a].cp /\ t.sp = task[a].sp /\ t.ka = task[a].ka
        BY <1>3, Zenon DEF TasksTyped, TaskRecord
    <2>2. TasksTyped' /\ Others(a) /\ task'[a] = t
        <3> HIDE DEF t
        <3> QED BY Zenon, <1>3, <1>4, <2>1, BecomeEffect DEF t
    <2> HIDE DEF t
    <2>3. /\ TasksTyped' /\ Others(a) /\ task'[a].pc = "handle" /\ task'[a].st = s
          /\ task'[a].vm = task[a].vm /\ task'[a].cp = task[a].cp
          /\ task'[a].sp = task[a].sp /\ task'[a].ka = task[a].ka
        BY Zenon, <2>1, <2>2
    <2> QED BY Zenon, <1>1, <2>3
<1>5. CASE Goto(a, "remove_files") /\ s = "Stopped"
    BY Zenon, <1>1, <1>3, <1>5, GotoEffect
<1>6. CASE Finish(a)
    BY Zenon, <1>3, <1>6, FinishEffect
<1> QED BY Zenon, <1>2, <1>4, <1>5, <1>6

\* Every step of the runtime keeps TypeInv.
LEMMA TypeNext == TypeInv /\ [Next]_vars => TypeInv'
<1> SUFFICES ASSUME TypeInv, [Next]_vars PROVE TypeInv'
    BY Zenon
<1> USE DEF TypeInv, World, HoldsPids, HoldsPid, Uncommitted, Points, Statuses,
            dbVars, fileVars, procVars, ghostVars
<1>1. ASSUME NEW a \in Actors, NEW v \in Vms, CreateOverlay(a, v) PROVE TypeInv'
  <2>1. World'
    BY Zenon, <1>1 DEF CreateOverlay
  <2>2. TasksTyped' /\ Others(a) /\ HoldsPids(a)'
    <3>1. Become(a, [Idle EXCEPT !.pc = "create_spawn", !.vm = v])
        BY Zenon, <1>1 DEF CreateOverlay
    <3>2. TasksTyped' /\ Others(a) /\ task'[a].pc = "create_spawn" /\ task'[a].vm = v
        BY <3>1, CreateTaskEffect, Zenon
    <3> QED BY Zenon, <3>2
  <2> QED BY Zenon, <2>1, <2>2, TypeOneTask
<1>2. ASSUME NEW a \in Actors, NEW p \in Pids, SpawnShim(a, p) PROVE TypeInv'
  <2>1. World'
    BY Zenon, <1>2 DEF SpawnShim, Unlink
  <2>2. TasksTyped' /\ Others(a) /\ HoldsPids(a)'
    BY <1>2, SpawnShimEffect, Zenon DEF SpawnShim
  <2> QED BY Zenon, <2>1, <2>2, TypeOneTask
<1>3. ASSUME NEW a \in Actors, CreateSpawnFails(a) PROVE TypeInv'
  <2>1. World'
    BY Zenon, <1>3 DEF CreateSpawnFails, RemoveFiles, Unlink
  <2>2. TasksTyped' /\ Others(a) /\ HoldsPids(a)'
    BY Zenon, <1>3, GotoEffect DEF CreateSpawnFails, RemoveFiles
  <2> QED BY Zenon, <2>1, <2>2, TypeOneTask
<1>4. ASSUME NEW a \in Actors, CreateInsert(a) PROVE TypeInv'
  <2>1. World'
    BY Zenon, <1>4 DEF CreateInsert
  <2>2. TasksTyped' /\ Others(a) /\ HoldsPids(a)'
    BY Zenon, <1>4, RunningEffect DEF CreateInsert
  <2> QED BY Zenon, <2>1, <2>2, TypeOneTask
<1>5. ASSUME NEW a \in Actors, CreateInsertFails(a) PROVE TypeInv'
  <2>1. World'
    BY Zenon, <1>5, SignalType DEF CreateInsertFails, RemoveFiles, Unlink
  <2>2. TasksTyped' /\ Others(a) /\ HoldsPids(a)'
    BY Zenon, <1>5, GotoEffect DEF CreateInsertFails, RemoveFiles
  <2> QED BY Zenon, <2>1, <2>2, TypeOneTask
<1>6. ASSUME NEW a \in Actors, CreateUnready(a) PROVE TypeInv'
  <2>1. World'
    BY Zenon, <1>6, SignalType DEF CreateUnready, RemoveFiles, Unlink
  <2>2. TasksTyped' /\ Others(a) /\ HoldsPids(a)'
    BY Zenon, <1>6, GotoEffect DEF CreateUnready, RemoveFiles
  <2> QED BY Zenon, <2>1, <2>2, TypeOneTask
<1>7. ASSUME NEW a \in Actors, CreateReady(a) PROVE TypeInv'
  <2>1. World'
    BY Zenon, <1>7 DEF CreateReady
  <2>2. TasksTyped' /\ Others(a) /\ HoldsPids(a)'
    BY Zenon, <1>7, GotoEffect DEF CreateReady
  <2> QED BY Zenon, <2>1, <2>2, TypeOneTask
<1>8. ASSUME NEW a \in Actors, NEW v \in Vms, NEW purpose \in Purposes, Read(a, v, purpose) PROVE TypeInv'
  <2>1. World'
    BY Zenon, <1>8 DEF Read, ReadRow
  <2>2. TasksTyped' /\ Others(a) /\ HoldsPids(a)'
    <3>1. purpose \in Points /\ purpose \notin Uncommitted /\ ReadRow(a, v, purpose)
        BY Zenon, <1>8 DEF Read, Purposes
    <3>2. pid[v] \in Pids /\ status[v] \in Statuses \union {"none"}
        BY Zenon, <3>1 DEF ReadRow
    <3>3. /\ TasksTyped' /\ Others(a) /\ task'[a].pc = purpose
          /\ task'[a].vm = v /\ task'[a].cp = pid[v]
        BY <3>1, <3>2, ReadRowEffect
    <3> QED BY Zenon, <3>1, <3>2, <3>3
  <2> QED BY Zenon, <2>1, <2>2, TypeOneTask
<1>9. ASSUME NEW a \in Actors, NEW v \in Vms, RecoverRead(a, v) PROVE TypeInv'
  <2>1. World'
    BY Zenon, <1>9 DEF RecoverRead, ReadRow
  <2>2. TasksTyped' /\ Others(a) /\ HoldsPids(a)'
    BY <1>9, ReadRowEffect, Zenon DEF RecoverRead, ReadRow
  <2> QED BY Zenon, <2>1, <2>2, TypeOneTask
<1>10. ASSUME NEW a \in Actors, Reconcile(a) PROVE TypeInv'
  <2>1. World'
    BY Zenon, <1>10, UpdateStatusEffect DEF Reconcile, Unlink
  <2>2. TasksTyped' /\ Others(a) /\ HoldsPids(a)'
    <3>1. task[a].vm \in Vms /\ task[a].cp \in Pids
        BY Zenon, <1>10 DEF Reconcile
    <3> QED BY Zenon, <1>10, <3>1, ReconcileEffect
  <2> QED BY Zenon, <2>1, <2>2, TypeOneTask
<1>11. ASSUME NEW a \in Actors, RemoveStored(a) PROVE TypeInv'
  <2>1. World'
    BY Zenon, <1>11 DEF RemoveStored, RemoveFiles, Unlink
  <2>2. TasksTyped' /\ Others(a) /\ HoldsPids(a)'
    BY Zenon, <1>11, GotoEffect DEF RemoveStored, RemoveFiles
  <2> QED BY Zenon, <2>1, <2>2, TypeOneTask
<1>12. ASSUME NEW a \in Actors, DeleteRow(a) PROVE TypeInv'
  <2>1. World'
    BY Zenon, <1>12, SignalType DEF DeleteRow
  <2>2. TasksTyped' /\ Others(a) /\ HoldsPids(a)'
    BY Zenon, <1>12, FinishEffect DEF DeleteRow
  <2> QED BY Zenon, <2>1, <2>2, TypeOneTask
<1>13. ASSUME NEW a \in Actors, SweepTerminate(a) PROVE TypeInv'
  <2>1. World'
    BY Zenon, <1>13, SignalType DEF SweepTerminate
  <2>2. TasksTyped' /\ Others(a) /\ HoldsPids(a)'
    BY Zenon, <1>13, GotoEffect DEF SweepTerminate
  <2> QED BY Zenon, <2>1, <2>2, TypeOneTask
<1>14. ASSUME NEW a \in Actors, SweepMark(a) PROVE TypeInv'
  <2>1. World'
    BY Zenon, <1>14, UpdateStatusEffect DEF SweepMark, Unlink
  <2>2. TasksTyped' /\ Others(a) /\ HoldsPids(a)'
    BY Zenon, <1>14, GotoEffect, FinishEffect DEF SweepMark
  <2> QED BY Zenon, <2>1, <2>2, TypeOneTask
<1>15. ASSUME NEW a \in Actors, SweepStopped(a) PROVE TypeInv'
  <2>1. World'
    BY Zenon, <1>15 DEF SweepStopped
  <2>2. TasksTyped' /\ Others(a) /\ HoldsPids(a)'
    BY Zenon, <1>15, GotoEffect, FinishEffect DEF SweepStopped
  <2> QED BY Zenon, <2>1, <2>2, TypeOneTask
<1>16. ASSUME NEW a \in Actors, StartBegin(a) PROVE TypeInv'
  <2>1. World'
    BY Zenon, <1>16 DEF StartBegin
  <2>2. TasksTyped' /\ Others(a) /\ HoldsPids(a)'
    BY Zenon, <1>16, GotoEffect DEF StartBegin
  <2> QED BY Zenon, <2>1, <2>2, TypeOneTask
<1>17. ASSUME NEW a \in Actors, StartSpawnFails(a) PROVE TypeInv'
  <2>1. World'
    BY Zenon, <1>17 DEF StartSpawnFails, Unlink
  <2>2. TasksTyped' /\ Others(a) /\ HoldsPids(a)'
    BY Zenon, <1>17, GotoEffect DEF StartSpawnFails
  <2> QED BY Zenon, <2>1, <2>2, TypeOneTask
<1>18. ASSUME NEW a \in Actors, StartCommit(a) PROVE TypeInv'
  <2>1. World'
    BY <1>18, SignalType, UpdateStatusEffect DEF StartCommit, UpdatePid
  <2>2. TasksTyped' /\ Others(a) /\ HoldsPids(a)'
    BY Zenon, <1>18, RunningEffect DEF StartCommit
  <2> QED BY Zenon, <2>1, <2>2, TypeOneTask
<1>19. ASSUME NEW a \in Actors, StartCommitFails(a) PROVE TypeInv'
  <2>1. World'
    <3>1. UpdatePid(task[a].vm, task[a].sp) \in [Vms -> Pids \union {NoPid}]
        BY Zenon, <1>19 DEF StartCommitFails, UpdatePid
    <3>2. \A v \in Vms : pid[v] \in Pids => UpdatePid(task[a].vm, task[a].sp)[v] \in Pids
        BY Zenon, <1>19 DEF StartCommitFails, UpdatePid
    <3>3. /\ pid' \in [Vms -> Pids \union {NoPid}]
          /\ \A v \in Vms : pid[v] \in Pids => pid'[v] \in Pids
        BY Zenon, <1>19, <3>1, <3>2 DEF StartCommitFails
    <3>4. /\ status' \in [Vms -> Statuses \union {"none"}]
          /\ \A v \in Vms : status'[v] # "none" => status[v] # "none"
        BY Zenon, <1>19, UpdateStatusEffect DEF StartCommitFails
    <3>5. /\ proc' \in [Pids -> {"none", "booting", "live", "killed", "zombie", "gone"}]
          /\ sock' \in [Vms -> Pids \union {NoPid}]
          /\ UNCHANGED <<up, pending, overlay, owner, child, waiters, ghostVars>>
        BY Zenon, <1>19, SignalType DEF StartCommitFails, Unlink
    <3> QED BY Zenon, <3>3, <3>4, <3>5
  <2>2. TasksTyped' /\ Others(a) /\ HoldsPids(a)'
    BY <1>19, StartCommitFailsEffect, Zenon DEF StartCommitFails
  <2> QED BY Zenon, <2>1, <2>2, TypeOneTask
<1>20. ASSUME NEW a \in Actors, StartReady(a) PROVE TypeInv'
  <2>1. World'
    BY Zenon, <1>20 DEF StartReady
  <2>2. TasksTyped' /\ Others(a) /\ HoldsPids(a)'
    BY Zenon, <1>20, GotoEffect DEF StartReady
  <2> QED BY Zenon, <2>1, <2>2, TypeOneTask
<1>21. ASSUME NEW a \in Actors, MarkDelete(a) PROVE TypeInv'
  <2>1. World'
    BY Zenon, <1>21 DEF MarkDelete
  <2>2. TasksTyped' /\ Others(a) /\ HoldsPids(a)'
    BY Zenon, <1>21, GotoEffect DEF MarkDelete
  <2> QED BY Zenon, <2>1, <2>2, TypeOneTask
<1>22. ASSUME NEW a \in Actors, Kill(a) PROVE TypeInv'
  <2>1. World'
    BY Zenon, <1>22, SignalType, MarkStoppedWorld DEF Kill
  <2>2. TasksTyped' /\ Others(a) /\ HoldsPids(a)'
    BY Zenon, <1>22, MarkStoppedTask DEF Kill
  <2> QED BY Zenon, <2>1, <2>2, TypeOneTask
<1>23. ASSUME NEW a \in Actors, StopBegin(a) PROVE TypeInv'
  <2>1. World'
    BY Zenon, <1>23, UpdateStatusEffect DEF StopBegin
  <2>2. TasksTyped' /\ Others(a) /\ HoldsPids(a)'
    BY <1>23, SetStatusEffect, ZenonT(30) DEF StopBegin
  <2> QED BY Zenon, <2>1, <2>2, TypeOneTask
<1>24. ASSUME NEW a \in Actors, StopReply(a) PROVE TypeInv'
  <2>1. World'
    BY Zenon, <1>24 DEF StopReply, StopWait
  <2>2. TasksTyped' /\ Others(a) /\ HoldsPids(a)'
    BY Zenon, <1>24, GotoEffect DEF StopReply, StopWait
  <2> QED BY Zenon, <2>1, <2>2, TypeOneTask
<1>25. ASSUME NEW a \in Actors, StopRpcBroken(a) PROVE TypeInv'
  <2>1. World'
    BY Zenon, <1>25 DEF StopRpcBroken, StopWait
  <2>2. TasksTyped' /\ Others(a) /\ HoldsPids(a)'
    BY Zenon, <1>25, GotoEffect DEF StopRpcBroken, StopWait
  <2> QED BY Zenon, <2>1, <2>2, TypeOneTask
<1>26. ASSUME NEW a \in Actors, StopExited(a) PROVE TypeInv'
  <2>1. World'
    BY Zenon, <1>26, MarkStoppedWorld DEF StopExited
  <2>2. TasksTyped' /\ Others(a) /\ HoldsPids(a)'
    BY Zenon, <1>26, MarkStoppedTask DEF StopExited
  <2> QED BY Zenon, <2>1, <2>2, TypeOneTask
<1>27. ASSUME NEW a \in Actors, StopTimeout(a) PROVE TypeInv'
  <2>1. World'
    BY Zenon, <1>27, SignalType, MarkStoppedWorld DEF StopTimeout
  <2>2. TasksTyped' /\ Others(a) /\ HoldsPids(a)'
    BY Zenon, <1>27, MarkStoppedTask DEF StopTimeout
  <2> QED BY Zenon, <2>1, <2>2, TypeOneTask
<1>28. ASSUME NEW a \in Actors, WaitBegin(a) PROVE TypeInv'
  <2>1. World'
    BY Zenon, <1>28 DEF WaitBegin
  <2>2. TasksTyped' /\ Others(a) /\ HoldsPids(a)'
    BY Zenon, <1>28, GotoEffect DEF WaitBegin
  <2> QED BY Zenon, <2>1, <2>2, TypeOneTask
<1>29. ASSUME NEW a \in Actors, WaitExited(a) PROVE TypeInv'
  <2>1. World'
    BY Zenon, <1>29, MarkStoppedWorld DEF WaitExited
  <2>2. TasksTyped' /\ Others(a) /\ HoldsPids(a)'
    BY Zenon, <1>29, MarkStoppedTask DEF WaitExited
  <2> QED BY Zenon, <2>1, <2>2, TypeOneTask
<1>30. ASSUME NEW a \in Actors, Drop(a) PROVE TypeInv'
  <2>1. World'
    BY Zenon, <1>30, SignalType DEF Drop
  <2>2. TasksTyped' /\ Others(a) /\ HoldsPids(a)'
    BY Zenon, <1>30, FinishEffect DEF Drop
  <2> QED BY Zenon, <2>1, <2>2, TypeOneTask
<1>31. ASSUME NEW p \in Pids, ShimStep(p) PROVE TypeInv'
    BY <1>31 DEF ShimStep, ShimBoots, ShimExits, Reap, TasksTyped
<1>38. ASSUME NEW p \in Pids, AdriftStep(p) PROVE TypeInv'
    BY <1>38 DEF AdriftStep, AdriftBoots, AdriftExits, TasksTyped
<1>32. ASSUME ProcessEnds, UNCHANGED status \/ Shutdown, lost' \in SUBSET Pids, cut' \in SUBSET Vms
       PROVE  TypeInv'
  <2>1. proc' \in [Pids -> {"none", "booting", "live", "killed", "zombie", "gone"}]
    <3>1. \A p \in Pids : AfterExit(p) \in {"none", "booting", "live", "killed", "zombie", "gone"}
        BY Zenon DEF AfterExit
    <3> QED BY Zenon, <1>32, <3>1 DEF ProcessEnds
  <2>2. /\ status' \in [Vms -> Statuses \union {"none"}]
        /\ \A v \in Vms : status'[v] # "none" => status[v] # "none"
    BY Zenon, <1>32 DEF Shutdown, Active
  <2>3. World'
    BY Zenon, <1>32, <2>1, <2>2 DEF ProcessEnds
  <2>4. TasksTyped' /\ \A a \in Actors : HoldsPids(a)'
    BY Zenon, <1>32, IdleType DEF ProcessEnds, TasksTyped, Idle
  <2> QED BY Zenon, <2>3, <2>4
<1>33. CASE Crash
    BY <1>32, <1>33 DEF Crash, FilesPartial
<1>34. CASE Shutdown
    BY Zenon, <1>32, <1>34 DEF Shutdown
<1>35. CASE Open
    BY Zenon, <1>35 DEF Open, TasksTyped
<1>36. CASE RecoverDone
    BY Zenon, <1>36 DEF RecoverDone, TasksTyped
<1>37. CASE UNCHANGED vars
    BY Zenon, <1>37 DEF vars, TasksTyped
<1> QED
    BY Zenon, <1>1, <1>2, <1>3, <1>4, <1>5, <1>6, <1>7, <1>8, <1>9, <1>10, <1>11, <1>12, <1>13, <1>14,
       <1>15, <1>16, <1>17, <1>18, <1>19, <1>20, <1>21, <1>22, <1>23, <1>24, <1>25, <1>26, <1>27,
       <1>28, <1>29, <1>30, <1>31, <1>33, <1>34, <1>35, <1>36, <1>37, <1>38
    DEF Next, CreateStep, RowStep, HandleStep, RuntimeStep

-----------------------------------------------------------------------------
(* Guests adrift.                                                          *)

\* A guest adrift is one of a detached VM under bubblewrap whose recorded
\* pid has been signalled.
Drifted(p) ==
    adrift[p] # "none" => Outlives(p) /\ proc[p] \in {"killed", "zombie", "gone"}

DriftInv ==
    /\ adrift \in [Pids -> {"none", "booting", "live"}]
    /\ \A p \in Pids : Drifted(p)

\* What a shim whose pid was signalled is spared, and who leaves a guest.
DriftStep ==
    \/ adrift' = adrift /\ \A p \in Pids : proc[p] \in {"killed", "zombie", "gone"} =>
           proc'[p] \in {"killed", "zombie", "gone"} /\ owner'[p] = owner[p]
    \/ owner' = owner /\ \E p : proc' = Signal(p) /\ adrift' = Strand(p)
    \/ UNCHANGED <<proc, owner>> /\ \E p \in Pids : AdriftStep(p)

\* Such a step keeps DriftInv.
LEMMA DriftStepInv == ASSUME World, DriftInv, DriftStep PROVE DriftInv'
<1>1. CASE adrift' = adrift /\ \A p \in Pids : proc[p] \in {"killed", "zombie", "gone"} =>
               proc'[p] \in {"killed", "zombie", "gone"} /\ owner'[p] = owner[p]
    BY Zenon, <1>1 DEF DriftInv, Drifted, Outlives
<1>2. ASSUME owner' = owner, NEW p, proc' = Signal(p), adrift' = Strand(p) PROVE DriftInv'
    <2>1. adrift' \in [Pids -> {"none", "booting", "live"}]
        BY <1>2 DEF DriftInv, Strand
    <2>2. ASSUME NEW q \in Pids PROVE Drifted(q)'
        BY <1>2, <2>2 DEF World, DriftInv, Drifted, Outlives, Strand, Signal
    <2> QED BY Zenon, <2>1, <2>2 DEF DriftInv
<1>3. ASSUME UNCHANGED <<proc, owner>>, NEW p \in Pids, AdriftStep(p) PROVE DriftInv'
    <2>1. /\ adrift' \in [Pids -> {"none", "booting", "live"}] /\ adrift[p] # "none"
          /\ \A q \in Pids \ {p} : adrift'[q] = adrift[q]
        BY <1>3 DEF DriftInv, AdriftStep, AdriftBoots, AdriftExits
    <2> QED BY Zenon, <1>3, <2>1 DEF DriftInv, Drifted, Outlives
<1> QED BY Zenon, <1>1, <1>2, <1>3 DEF DriftStep

\* Every step is such a step.
LEMMA NextDrifts == ASSUME TypeInv, DriftInv, [Next]_vars PROVE DriftStep
<1> USE DEF procVars
<1>w. World
    BY Zenon DEF TypeInv
<1>1. ASSUME UNCHANGED <<proc, owner, adrift>> PROVE DriftStep
    BY Zenon, <1>1 DEF DriftStep
<1>2. ASSUME NEW a \in Actors, CreateStep(a) PROVE DriftStep
    <2>1. ASSUME NEW v \in Vms, CreateOverlay(a, v) PROVE DriftStep
        BY Zenon, <1>1, <2>1 DEF CreateOverlay
    <2>2. ASSUME NEW p \in Pids, SpawnShim(a, p) PROVE DriftStep
        BY <1>w, <2>2 DEF SpawnShim, DriftStep, World
    <2>3. CASE CreateInsertFails(a) \/ CreateUnready(a)
        BY Zenon, <2>3 DEF CreateInsertFails, CreateUnready, DriftStep
    <2>4. CASE CreateSpawnFails(a) \/ CreateInsert(a) \/ CreateReady(a)
        BY Zenon, <1>1, <2>4 DEF CreateSpawnFails, CreateInsert, CreateReady
    <2> QED BY Zenon, <1>2, <2>1, <2>2, <2>3, <2>4 DEF CreateStep
<1>3. ASSUME NEW a \in Actors, RowStep(a) PROVE DriftStep
    <2>1. CASE SweepTerminate(a)
        <3>1. ASSUME ~PidAlive(task[a].cp) PROVE Strand(task[a].cp) = adrift
            BY <3>1 DEF PidAlive, Strand, DriftInv
        <3> QED BY Zenon, <1>1, <2>1, <3>1 DEF SweepTerminate, DriftStep
    <2>2. CASE DeleteRow(a)
        BY Zenon, <2>2 DEF DeleteRow, DriftStep
    <2>3. CASE ~SweepTerminate(a) /\ ~DeleteRow(a)
        BY Zenon, <1>1, <1>3, <2>3 DEF RowStep, Read, RecoverRead, ReadRow, Reconcile,
                                       RemoveStored, SweepMark, SweepStopped
    <2> QED BY Zenon, <2>1, <2>2, <2>3
<1>4. ASSUME NEW a \in Actors, HandleStep(a) PROVE DriftStep
    <2>1. CASE StartCommit(a) \/ StartCommitFails(a) \/ Kill(a) \/ StopTimeout(a) \/ Drop(a)
        BY Zenon, <2>1 DEF StartCommit, StartCommitFails, Kill, StopTimeout, Drop, MarkStopped,
                           DriftStep
    <2>2. CASE StopExited(a) \/ WaitExited(a)
        BY Zenon, <1>1, <2>2 DEF StopExited, WaitExited, MarkStopped
    <2>3. CASE \/ StartBegin(a) \/ StartSpawnFails(a) \/ StartReady(a) \/ MarkDelete(a)
               \/ StopBegin(a) \/ StopReply(a) \/ StopRpcBroken(a) \/ WaitBegin(a)
        BY Zenon, <1>1, <2>3 DEF StartBegin, StartSpawnFails, StartReady, MarkDelete, StopBegin,
               StopReply, StopRpcBroken, StopWait, WaitBegin
    <2> QED BY Zenon, <1>4, <2>1, <2>2, <2>3 DEF HandleStep
<1>5. ASSUME NEW p \in Pids, ShimStep(p) PROVE DriftStep
    BY <1>w, <1>5 DEF ShimStep, ShimBoots, ShimExits, Reap, DriftStep, World
<1>6. ASSUME NEW p \in Pids, AdriftStep(p) PROVE DriftStep
    BY Zenon, <1>6 DEF AdriftStep, AdriftBoots, AdriftExits, DriftStep
<1>7. ASSUME Crash \/ Shutdown PROVE DriftStep
    BY <1>w, <1>7 DEF Crash, Shutdown, ProcessEnds, AfterExit, DriftStep, World
<1>8. ASSUME Open \/ RecoverDone PROVE DriftStep
    BY Zenon, <1>1, <1>8 DEF Open, RecoverDone
<1>9. CASE UNCHANGED vars
    BY Zenon, <1>1, <1>9 DEF vars
<1> QED BY Zenon, <1>2, <1>3, <1>4, <1>5, <1>6, <1>7, <1>8, <1>9 DEF Next, RuntimeStep

\* DriftInv is inductive.
LEMMA DriftNext == ASSUME TypeInv, DriftInv, [Next]_vars PROVE DriftInv'
<1>1. World
    BY Zenon DEF TypeInv
<1> QED BY Zenon, <1>1, NextDrifts, DriftStepInv

\* No guest is adrift at first.
LEMMA DriftInit == Init => DriftInv
BY Zenon DEF Init, DriftInv, Drifted

\* A guest in reach is one whose recorded pid runs.
LEMMA InReach ==
    ASSUME DriftInv, NEW p \in Pids
    PROVE  Guest(p) /\ ~OutOfReach(p) <=> proc[p] = "live" /\ p \notin lost
BY Zenon DEF DriftInv, Drifted, Guest, OutOfReach

\* The two invariants imply the type invariant.
LEMMA TypeInvType == TypeInv /\ DriftInv => TypeOK
BY Zenon DEF TypeInv, World, TasksTyped, DriftInv, TypeOK

\* Every variable keeps its type, whatever tasks, shims and crashes do.
THEOREM TypeCorrect == Spec => []TypeOK
<1>1. TypeInv /\ DriftInv /\ [Next]_vars => TypeInv' /\ DriftInv'
    BY Zenon, TypeNext, DriftNext
<1> QED BY TypeInit, DriftInit, <1>1, TypeInvType, PTL DEF Spec

-----------------------------------------------------------------------------
(* Rows and overlays.                                                      *)

Creating == {"create_spawn", "create_insert"}

\* A create owns its fresh id alone until the row is there, and a removal
\* that has yet to delete the row has removed the disk.
DiskTask(a) ==
    /\ task[a].pc # "idle" => task[a].vm \in used
    /\ task[a].pc \in Creating =>
           /\ status[task[a].vm] = "none" /\ task[a].vm \in overlay
           /\ \A b \in Actors \ {a} : task[b].pc # "idle" => task[b].vm # task[a].vm
    /\ task[a].pc \in {"delete", "mark_delete"} => task[a].vm \notin overlay

RowsUsed == \A v \in Vms : status[v] # "none" => v \in used

DiskInv == TypeInv /\ RowsUsed /\ (\A a \in Actors : DiskTask(a)) /\ RowHasDisk

\* Steps that touch neither the disk nor the existence of a row.
QuietDisk ==
    /\ UNCHANGED <<overlay, used, cut>>
    /\ \A v \in Vms : (status'[v] = "none") <=> (status[v] = "none")

\* A row that was not there comes from the INSERT of a create.
RowsBorn ==
    \A v \in Vms : status[v] = "none" /\ status'[v] # "none"
        => \E a \in Actors : task[a].pc = "create_insert" /\ task[a].vm = v

\* A step that makes or removes neither row nor overlay keeps DiskInv.
LEMMA DiskQuietStep ==
    ASSUME DiskInv, TypeInv', NEW a \in Actors, Others(a), QuietDisk,
           task[a].pc \notin FilesPartial, task'[a].pc \notin FilesPartial,
           task'[a].pc = "idle" \/ (task'[a].vm = task[a].vm /\ task[a].pc # "idle")
    PROVE  DiskInv' /\ RowsBorn
<1> USE DEF DiskInv, TypeInv, World, HoldsPids, QuietDisk, Others
<1>1. RowsUsed'
    BY Zenon DEF RowsUsed
<1>2. \A b \in Actors : DiskTask(b)'
    BY DEF DiskTask, Creating, FilesPartial
<1>3. RowHasDisk'
    BY DEF RowHasDisk, FilesPartial
<1>4. RowsBorn
    BY Zenon DEF RowsBorn
<1> QED BY Zenon, <1>1, <1>2, <1>3, <1>4

\* Reading a row keeps DiskInv: the VM has a row, so nobody creates it.
LEMMA DiskReadStep ==
    ASSUME DiskInv, TypeInv', NEW a \in Actors, NEW v \in Vms, Others(a),
           UNCHANGED <<overlay, used, cut, status>>, task[a].pc = "idle",
           task'[a].pc \notin FilesPartial, task'[a].vm = v, status[v] # "none"
    PROVE  DiskInv' /\ RowsBorn
<1> USE DEF DiskInv, TypeInv, World, HoldsPids, Others
<1>1. RowsUsed'
    BY Zenon DEF RowsUsed
<1>2. \A b \in Actors : DiskTask(b)'
    BY DEF DiskTask, RowsUsed, Creating, FilesPartial
<1>3. RowHasDisk'
    BY DEF RowHasDisk, FilesPartial
<1>4. RowsBorn
    BY Zenon DEF RowsBorn
<1> QED BY Zenon, <1>1, <1>2, <1>3, <1>4

\* The disk goes, the row is next.
LEMMA DiskRemoveStep ==
    ASSUME DiskInv, TypeInv', NEW a \in Actors, Others(a), UNCHANGED <<used, cut, status>>,
           overlay' = overlay \ {task[a].vm}, task[a].pc # "idle",
           task'[a].pc \in {"delete", "mark_delete"}, task'[a].vm = task[a].vm
    PROVE  DiskInv' /\ RowsBorn
<1> USE DEF DiskInv, TypeInv, World, HoldsPids, Others
<1>1. RowsUsed'
    BY Zenon DEF RowsUsed
<1>2. \A b \in Actors : DiskTask(b)'
    BY DEF DiskTask, Creating, FilesPartial
<1>3. RowHasDisk'
    BY DEF RowHasDisk, FilesPartial
<1>4. RowsBorn
    BY Zenon DEF RowsBorn
<1> QED BY Zenon, <1>1, <1>2, <1>3, <1>4

\* The row goes after its disk.
LEMMA DiskDeleteStep ==
    ASSUME DiskInv, TypeInv', NEW a \in Actors, Others(a), UNCHANGED <<overlay, used, cut>>,
           status' = [status EXCEPT ![task[a].vm] = "none"],
           task[a].pc \in {"delete", "mark_delete"},
           task'[a].pc = "idle" \/ (task'[a].pc = "handle" /\ task'[a].vm = task[a].vm)
    PROVE  DiskInv' /\ RowsBorn
<1> USE DEF DiskInv, TypeInv, World, HoldsPids, Others
<1>1. RowsUsed'
    BY Zenon DEF RowsUsed
<1>2. \A b \in Actors : DiskTask(b)'
    BY DEF DiskTask, Creating, FilesPartial
<1>3. RowHasDisk'
  <2>1. task[a].vm \in Vms /\ task[a].vm \notin overlay
    BY Zenon DEF DiskTask
  <2>2. /\ status'[task[a].vm] = "none"
        /\ \A v \in Vms \ {task[a].vm} : status'[v] = status[v]
    BY <2>1
  <2>3. SUFFICES ASSUME NEW v \in Vms
                 PROVE  \/ (status'[v] # "none") = (v \in overlay)
                        \/ v \in cut
                        \/ \E b \in Actors : task'[b].vm = v /\ task'[b].pc \in FilesPartial
    BY DEF RowHasDisk
  <2>4. CASE v = task[a].vm
    BY <2>1, <2>2, <2>4
  <2>5. CASE v # task[a].vm
    BY <2>2, <2>5 DEF RowHasDisk
  <2> QED BY Zenon, <2>4, <2>5
<1>4. RowsBorn
    BY Zenon DEF RowsBorn
<1> QED BY Zenon, <1>1, <1>2, <1>3, <1>4

\* Every step keeps DiskInv, and only an INSERT makes a row.
LEMMA DiskNext == DiskInv /\ [Next]_vars => DiskInv' /\ RowsBorn
<1> SUFFICES ASSUME DiskInv, [Next]_vars PROVE DiskInv' /\ RowsBorn
    BY Zenon
<1>t. TypeInv /\ TypeInv' /\ World /\ TasksTyped /\ \A a \in Actors : HoldsPids(a)
    BY Zenon, TypeNext DEF DiskInv, TypeInv
<1> USE DEF HoldsPids, HoldsPid, Uncommitted, Points, Statuses, FilesPartial,
            dbVars, fileVars, procVars, ghostVars
<1>1. ASSUME NEW a \in Actors, NEW v \in Vms, CreateOverlay(a, v) PROVE DiskInv' /\ RowsBorn
  <2>1. Others(a) /\ task'[a].pc = "create_spawn" /\ task'[a].vm = v
    BY <1>t, <1>1, CreateTaskEffect, Zenon DEF CreateOverlay
  <2>2. v \notin used /\ used' = used \union {v} /\ overlay' = overlay \union {v}
        /\ status' = status /\ cut' = cut /\ task[a].pc = "idle"
    BY Zenon, <1>1 DEF CreateOverlay
  <2>3. status[v] = "none" /\ \A b \in Actors : task[b].pc # "idle" => task[b].vm # v
    BY Zenon, <2>2 DEF DiskInv, RowsUsed, DiskTask
  <2>4. RowsUsed' /\ RowsBorn
    BY Zenon, <2>2 DEF DiskInv, RowsUsed, RowsBorn
  <2>5. \A b \in Actors : DiskTask(b)'
    BY <1>t, <2>1, <2>2, <2>3 DEF DiskInv, DiskTask, Creating, Others
  <2>6. RowHasDisk'
    BY <1>t, <2>1, <2>2 DEF DiskInv, RowHasDisk, Others
  <2> QED BY Zenon, <1>t, <2>4, <2>5, <2>6 DEF DiskInv
<1>2. ASSUME NEW a \in Actors, NEW p \in Pids, SpawnShim(a, p) PROVE DiskInv' /\ RowsBorn
  <2>1. /\ Others(a) /\ task'[a].vm = task[a].vm
        /\ task[a].pc = "create_spawn" => task'[a].pc = "create_insert"
        /\ task[a].pc = "start_spawn" => task'[a].pc = "start_commit"
    BY Zenon, <1>t, <1>2, SpawnShimEffect
  <2>2. UNCHANGED <<status, overlay, used, cut>> /\ task[a].pc \in {"create_spawn", "start_spawn"}
    BY Zenon, <1>2 DEF SpawnShim
  <2>3. RowsUsed' /\ RowsBorn
    BY Zenon, <2>2 DEF DiskInv, RowsUsed, RowsBorn
  <2>4. \A b \in Actors : DiskTask(b)'
    BY <1>t, <2>1, <2>2 DEF DiskInv, DiskTask, Creating, Others
  <2>5. RowHasDisk'
    BY <1>t, <2>1, <2>2 DEF DiskInv, RowHasDisk, Others
  <2> QED BY Zenon, <1>t, <2>3, <2>4, <2>5 DEF DiskInv
<1>3. ASSUME NEW a \in Actors, CreateInsert(a) PROVE DiskInv' /\ RowsBorn
  <2>1. Others(a) /\ task'[a].vm = task[a].vm /\ task'[a].pc = "create_ready"
    BY Zenon, <1>t, <1>3, RunningEffect DEF CreateInsert
  <2>2. /\ UNCHANGED <<overlay, used, cut>> /\ task[a].pc = "create_insert"
        /\ status' = [status EXCEPT ![task[a].vm] = "Running"]
    BY Zenon, <1>3 DEF CreateInsert
  <2>3. task[a].vm \in Vms /\ task[a].vm \in overlay /\ task[a].vm \in used
        /\ \A b \in Actors \ {a} : task[b].pc # "idle" => task[b].vm # task[a].vm
    BY Zenon, <1>t, <2>2 DEF DiskInv, DiskTask, Creating
  <2>4. RowsUsed' /\ RowsBorn
    BY Zenon, <1>t, <2>2, <2>3 DEF DiskInv, RowsUsed, RowsBorn, World
  <2>5. \A b \in Actors : DiskTask(b)'
    BY <1>t, <2>1, <2>2, <2>3 DEF DiskInv, DiskTask, Creating, Others, World
  <2>6. RowHasDisk'
    BY <1>t, <2>1, <2>2, <2>3 DEF DiskInv, RowHasDisk, Others, World
  <2> QED BY Zenon, <1>t, <2>4, <2>5, <2>6 DEF DiskInv
<1>4. ASSUME NEW a \in Actors, CreateSpawnFails(a) PROVE DiskInv' /\ RowsBorn
  <2>1. Others(a) /\ task'[a].vm = task[a].vm /\ task'[a].pc = "delete"
    BY Zenon, <1>t, <1>4, GotoEffect DEF CreateSpawnFails, RemoveFiles
  <2> QED BY Zenon, <1>t, <1>4, <2>1, DiskRemoveStep DEF CreateSpawnFails, RemoveFiles
<1>5. ASSUME NEW a \in Actors, CreateInsertFails(a) PROVE DiskInv' /\ RowsBorn
  <2>1. Others(a) /\ task'[a].vm = task[a].vm /\ task'[a].pc = "delete"
    BY Zenon, <1>t, <1>5, GotoEffect DEF CreateInsertFails, RemoveFiles
  <2> QED BY Zenon, <1>t, <1>5, <2>1, DiskRemoveStep DEF CreateInsertFails, RemoveFiles
<1>6. ASSUME NEW a \in Actors, CreateUnready(a) PROVE DiskInv' /\ RowsBorn
  <2>1. Others(a) /\ task'[a].vm = task[a].vm /\ task'[a].pc = "delete"
    BY Zenon, <1>t, <1>6, GotoEffect DEF CreateUnready, RemoveFiles
  <2> QED BY Zenon, <1>t, <1>6, <2>1, DiskRemoveStep DEF CreateUnready, RemoveFiles
<1>7. ASSUME NEW a \in Actors, RemoveStored(a) PROVE DiskInv' /\ RowsBorn
  <2>1. Others(a) /\ task'[a].vm = task[a].vm /\ task'[a].pc = "delete"
    BY Zenon, <1>t, <1>7, GotoEffect DEF RemoveStored, RemoveFiles
  <2> QED BY Zenon, <1>t, <1>7, <2>1, DiskRemoveStep DEF RemoveStored, RemoveFiles
<1>8. ASSUME NEW a \in Actors, DeleteRow(a) PROVE DiskInv' /\ RowsBorn
  <2>1. Others(a) /\ task'[a].pc = "idle"
    BY Zenon, <1>t, <1>8, FinishEffect DEF DeleteRow
  <2>2. /\ UNCHANGED <<overlay, used, cut>> /\ task[a].pc = "delete"
        /\ status' = [status EXCEPT ![task[a].vm] = "none"]
    BY Zenon, <1>8 DEF DeleteRow
  <2> QED BY <1>t, <2>1, <2>2, DiskDeleteStep, Zenon
<1>9. ASSUME NEW a \in Actors, MarkDelete(a) PROVE DiskInv' /\ RowsBorn
  <2>1. Others(a) /\ task'[a].pc = "handle" /\ task'[a].vm = task[a].vm
    BY Zenon, <1>t, <1>9, GotoEffect DEF MarkDelete
  <2> QED BY <1>t, <1>9, <2>1, DiskDeleteStep, Zenon DEF MarkDelete
<1>10. ASSUME NEW a \in Actors, NEW v \in Vms, NEW purpose \in Purposes, Read(a, v, purpose) PROVE DiskInv' /\ RowsBorn
  <2>1. Others(a) /\ task'[a].vm = v /\ task'[a].pc = purpose
    <3>1. purpose \in Points /\ ReadRow(a, v, purpose)
        BY Zenon, <1>10 DEF Read, Purposes
    <3>2. status[v] \in Statuses \union {"none"} /\ pid[v] \in Pids \union {NoPid}
        BY Zenon, <1>t DEF World
    <3> QED BY <1>t, <3>1, <3>2, ReadRowEffect
  <2> QED BY Zenon, <1>t, <1>10, <2>1, DiskReadStep DEF Read, ReadRow, Purposes
<1>11. ASSUME NEW a \in Actors, NEW v \in Vms, RecoverRead(a, v) PROVE DiskInv' /\ RowsBorn
  <2>1. Others(a) /\ task'[a].vm = v /\ task'[a].pc = "recover"
    <3>1. ReadRow(a, v, "recover")
        BY Zenon, <1>11 DEF RecoverRead
    <3>2. status[v] \in Statuses \union {"none"} /\ pid[v] \in Pids \union {NoPid}
        BY Zenon, <1>t DEF World
    <3> QED BY Zenon, <1>t, <3>1, <3>2, ReadRowEffect
  <2> QED BY Zenon, <1>t, <1>11, <2>1, DiskReadStep DEF RecoverRead, ReadRow, Purposes
<1>12. ASSUME NEW a \in Actors, CreateReady(a) PROVE DiskInv' /\ RowsBorn
  <2>1. /\ Others(a) /\ task'[a].pc \notin FilesPartial
        /\ task'[a].pc = "idle" \/ task'[a].vm = task[a].vm
    BY Zenon, <1>t, <1>12, GotoEffect DEF CreateReady
  <2>2. QuietDisk
    BY Zenon, <1>t, <1>12 DEF CreateReady, QuietDisk
  <2> QED BY Zenon, <1>t, <1>12, <2>1, <2>2, DiskQuietStep DEF CreateReady
<1>13. ASSUME NEW a \in Actors, Reconcile(a) PROVE DiskInv' /\ RowsBorn
  <2>1. /\ Others(a)
        /\ \/ task'[a].pc = "idle"
           \/ task'[a].pc \in {"handle", "remove_files"} /\ task'[a].vm = task[a].vm
    BY Zenon, <1>t, <1>13, ReconcileEffect
  <2>2. QuietDisk
    BY Zenon, <1>t, <1>13, UpdateStatusEffect DEF Reconcile, QuietDisk
  <2> QED BY Zenon, <1>t, <1>13, <2>1, <2>2, DiskQuietStep DEF Reconcile
<1>14. ASSUME NEW a \in Actors, SweepTerminate(a) PROVE DiskInv' /\ RowsBorn
  <2>1. /\ Others(a) /\ task'[a].pc \notin FilesPartial
        /\ task'[a].pc = "idle" \/ task'[a].vm = task[a].vm
    BY Zenon, <1>t, <1>14, GotoEffect DEF SweepTerminate
  <2>2. QuietDisk
    BY Zenon, <1>t, <1>14 DEF SweepTerminate, QuietDisk
  <2> QED BY Zenon, <1>t, <1>14, <2>1, <2>2, DiskQuietStep DEF SweepTerminate
<1>15. ASSUME NEW a \in Actors, SweepMark(a) PROVE DiskInv' /\ RowsBorn
  <2>1. /\ Others(a) /\ task'[a].pc \notin FilesPartial
        /\ task'[a].pc = "idle" \/ task'[a].vm = task[a].vm
    BY Zenon, <1>t, <1>15, GotoEffect, FinishEffect DEF SweepMark, Idle
  <2>2. QuietDisk
    BY Zenon, <1>t, <1>15, UpdateStatusEffect DEF SweepMark, QuietDisk
  <2> QED BY Zenon, <1>t, <1>15, <2>1, <2>2, DiskQuietStep DEF SweepMark
<1>16. ASSUME NEW a \in Actors, SweepStopped(a) PROVE DiskInv' /\ RowsBorn
  <2>1. /\ Others(a) /\ task'[a].pc \notin FilesPartial
        /\ task'[a].pc = "idle" \/ task'[a].vm = task[a].vm
    BY Zenon, <1>t, <1>16, GotoEffect, FinishEffect DEF SweepStopped, Idle
  <2>2. QuietDisk
    BY Zenon, <1>t, <1>16 DEF SweepStopped, QuietDisk
  <2> QED BY Zenon, <1>t, <1>16, <2>1, <2>2, DiskQuietStep DEF SweepStopped
<1>17. ASSUME NEW a \in Actors, StartBegin(a) PROVE DiskInv' /\ RowsBorn
  <2>1. /\ Others(a) /\ task'[a].pc \notin FilesPartial
        /\ task'[a].pc = "idle" \/ task'[a].vm = task[a].vm
    BY Zenon, <1>t, <1>17, GotoEffect DEF StartBegin
  <2>2. QuietDisk
    BY Zenon, <1>t, <1>17 DEF StartBegin, QuietDisk
  <2> QED BY Zenon, <1>t, <1>17, <2>1, <2>2, DiskQuietStep DEF StartBegin
<1>18. ASSUME NEW a \in Actors, StartSpawnFails(a) PROVE DiskInv' /\ RowsBorn
  <2>1. /\ Others(a) /\ task'[a].pc \notin FilesPartial
        /\ task'[a].pc = "idle" \/ task'[a].vm = task[a].vm
    BY Zenon, <1>t, <1>18, GotoEffect DEF StartSpawnFails
  <2>2. QuietDisk
    BY Zenon, <1>t, <1>18 DEF StartSpawnFails, QuietDisk
  <2> QED BY Zenon, <1>t, <1>18, <2>1, <2>2, DiskQuietStep DEF StartSpawnFails
<1>19. ASSUME NEW a \in Actors, StartCommit(a) PROVE DiskInv' /\ RowsBorn
  <2>1. /\ Others(a) /\ task'[a].pc \notin FilesPartial
        /\ task'[a].pc = "idle" \/ task'[a].vm = task[a].vm
    BY Zenon, <1>t, <1>19, RunningEffect DEF StartCommit
  <2>2. QuietDisk
    BY Zenon, <1>t, <1>19, UpdateStatusEffect DEF StartCommit, QuietDisk
  <2> QED BY Zenon, <1>t, <1>19, <2>1, <2>2, DiskQuietStep DEF StartCommit
<1>20. ASSUME NEW a \in Actors, StartCommitFails(a) PROVE DiskInv' /\ RowsBorn
  <2>1. /\ Others(a) /\ task'[a].pc \notin FilesPartial
        /\ task'[a].pc = "idle" \/ task'[a].vm = task[a].vm
    BY <1>t, <1>20, StartCommitFailsEffect, Zenon DEF StartCommitFails
  <2>2. QuietDisk
    BY Zenon, <1>t, <1>20, UpdateStatusEffect DEF StartCommitFails, QuietDisk
  <2> QED BY Zenon, <1>t, <1>20, <2>1, <2>2, DiskQuietStep DEF StartCommitFails
<1>21. ASSUME NEW a \in Actors, StartReady(a) PROVE DiskInv' /\ RowsBorn
  <2>1. /\ Others(a) /\ task'[a].pc \notin FilesPartial
        /\ task'[a].pc = "idle" \/ task'[a].vm = task[a].vm
    BY Zenon, <1>t, <1>21, GotoEffect DEF StartReady
  <2>2. QuietDisk
    BY Zenon, <1>t, <1>21 DEF StartReady, QuietDisk
  <2> QED BY Zenon, <1>t, <1>21, <2>1, <2>2, DiskQuietStep DEF StartReady
<1>22. ASSUME NEW a \in Actors, StopBegin(a) PROVE DiskInv' /\ RowsBorn
  <2>1. /\ Others(a) /\ task'[a].pc \notin FilesPartial
        /\ task'[a].pc = "idle" \/ task'[a].vm = task[a].vm
    BY <1>t, <1>22, SetStatusEffect, Zenon DEF StopBegin
  <2>2. QuietDisk
    BY Zenon, <1>t, <1>22, UpdateStatusEffect DEF StopBegin, QuietDisk
  <2> QED BY Zenon, <1>t, <1>22, <2>1, <2>2, DiskQuietStep DEF StopBegin
<1>23. ASSUME NEW a \in Actors, StopReply(a) PROVE DiskInv' /\ RowsBorn
  <2>1. /\ Others(a) /\ task'[a].pc \notin FilesPartial
        /\ task'[a].pc = "idle" \/ task'[a].vm = task[a].vm
    BY Zenon, <1>t, <1>23, GotoEffect DEF StopReply, StopWait
  <2>2. QuietDisk
    BY Zenon, <1>t, <1>23 DEF StopReply, StopWait, QuietDisk
  <2> QED BY Zenon, <1>t, <1>23, <2>1, <2>2, DiskQuietStep DEF StopReply
<1>24. ASSUME NEW a \in Actors, StopRpcBroken(a) PROVE DiskInv' /\ RowsBorn
  <2>1. /\ Others(a) /\ task'[a].pc \notin FilesPartial
        /\ task'[a].pc = "idle" \/ task'[a].vm = task[a].vm
    BY Zenon, <1>t, <1>24, GotoEffect DEF StopRpcBroken, StopWait
  <2>2. QuietDisk
    BY Zenon, <1>t, <1>24 DEF StopRpcBroken, StopWait, QuietDisk
  <2> QED BY Zenon, <1>t, <1>24, <2>1, <2>2, DiskQuietStep DEF StopRpcBroken
<1>25. ASSUME NEW a \in Actors, WaitBegin(a) PROVE DiskInv' /\ RowsBorn
  <2>1. /\ Others(a) /\ task'[a].pc \notin FilesPartial
        /\ task'[a].pc = "idle" \/ task'[a].vm = task[a].vm
    BY Zenon, <1>t, <1>25, GotoEffect DEF WaitBegin
  <2>2. QuietDisk
    BY Zenon, <1>t, <1>25 DEF WaitBegin, QuietDisk
  <2> QED BY Zenon, <1>t, <1>25, <2>1, <2>2, DiskQuietStep DEF WaitBegin
<1>26. ASSUME NEW a \in Actors, Drop(a) PROVE DiskInv' /\ RowsBorn
  <2>1. /\ Others(a) /\ task'[a].pc \notin FilesPartial
        /\ task'[a].pc = "idle" \/ task'[a].vm = task[a].vm
    BY Zenon, <1>t, <1>26, FinishEffect DEF Drop, Idle
  <2>2. QuietDisk
    BY Zenon, <1>t, <1>26 DEF Drop, QuietDisk
  <2> QED BY Zenon, <1>t, <1>26, <2>1, <2>2, DiskQuietStep DEF Drop
<1>27. ASSUME NEW a \in Actors, task[a].pc \in {"handle", "start_ready", "stop_wait", "wait"}, MarkStopped(a)
      PROVE  DiskInv' /\ RowsBorn
  <2>0. task[a].vm \in Vms
    BY Zenon, <1>t, <1>27
  <2>1. CASE task[a].vm \in AutoRemove
    <3>1. Others(a) /\ task'[a].vm = task[a].vm /\ task'[a].pc = "mark_delete"
        BY <1>t, <1>27, <2>1, SetStatusEffect, Zenon DEF MarkStopped
    <3> QED BY Zenon, <1>t, <1>27, <2>1, <3>1, DiskRemoveStep DEF MarkStopped
  <2>2. CASE task[a].vm \notin AutoRemove
    <3>1. Others(a) /\ task'[a].vm = task[a].vm /\ task'[a].pc = "handle"
        BY <1>t, <1>27, <2>2, SetStatusEffect, Zenon DEF MarkStopped
    <3>2. QuietDisk
        BY <1>t, <1>27, <2>0, <2>2, UpdateStatusEffect DEF MarkStopped, QuietDisk
    <3> QED BY Zenon, <1>t, <1>27, <3>1, <3>2, DiskQuietStep
  <2> QED BY Zenon, <2>1, <2>2
<1>28. ASSUME NEW a \in Actors, Kill(a) PROVE DiskInv' /\ RowsBorn
    BY Zenon, <1>27, <1>28 DEF Kill
<1>29. ASSUME NEW a \in Actors, StopExited(a) PROVE DiskInv' /\ RowsBorn
    BY Zenon, <1>27, <1>29 DEF StopExited
<1>30. ASSUME NEW a \in Actors, StopTimeout(a) PROVE DiskInv' /\ RowsBorn
    BY Zenon, <1>27, <1>30 DEF StopTimeout
<1>31. ASSUME NEW a \in Actors, WaitExited(a) PROVE DiskInv' /\ RowsBorn
    BY Zenon, <1>27, <1>31 DEF WaitExited
<1>32. ASSUME UNCHANGED <<task, status, overlay, used, cut>> PROVE DiskInv' /\ RowsBorn
    BY Zenon, <1>t, <1>32 DEF DiskInv, RowsUsed, DiskTask, RowHasDisk, RowsBorn
<1>33. ASSUME NEW p \in Pids, ShimStep(p) PROVE DiskInv' /\ RowsBorn
    BY Zenon, <1>32, <1>33 DEF ShimStep, ShimBoots, ShimExits, Reap
<1>39. ASSUME NEW p \in Pids, AdriftStep(p) PROVE DiskInv' /\ RowsBorn
    BY Zenon, <1>32, <1>39 DEF AdriftStep, AdriftBoots, AdriftExits
<1>34. CASE Crash
  <2>1. UNCHANGED <<status, overlay, used>> /\ \A a \in Actors : task'[a] = Idle
    BY Zenon, <1>34 DEF Crash, ProcessEnds
  <2>2. cut' = cut \union {task[a].vm : a \in {b \in Actors : task[b].pc \in FilesPartial}}
    BY Zenon, <1>34 DEF Crash
  <2>3. RowsUsed' /\ RowsBorn
    BY Zenon, <2>1 DEF DiskInv, RowsUsed, RowsBorn
  <2>4. \A a \in Actors : DiskTask(a)'
    BY <2>1 DEF DiskTask, Idle, Creating
  <2>5. RowHasDisk'
    BY <2>1, <2>2 DEF DiskInv, RowHasDisk
  <2> QED BY Zenon, <1>t, <2>3, <2>4, <2>5 DEF DiskInv
<1>35. CASE Shutdown
  <2>1. /\ UNCHANGED <<overlay, used, cut>> /\ \A a \in Actors : task'[a] = Idle /\ task[a].pc = "idle"
        /\ \A v \in Vms : (status'[v] = "none") <=> (status[v] = "none")
    BY Zenon, <1>t, <1>35 DEF Shutdown, ProcessEnds, Active, World
  <2>2. RowsUsed' /\ RowsBorn
    BY Zenon, <2>1 DEF DiskInv, RowsUsed, RowsBorn
  <2>3. \A a \in Actors : DiskTask(a)'
    BY <2>1 DEF DiskTask, Idle, Creating
  <2>4. RowHasDisk'
    BY Zenon, <2>1 DEF DiskInv, RowHasDisk
  <2> QED BY Zenon, <1>t, <2>2, <2>3, <2>4 DEF DiskInv
<1>36. CASE Open
    BY Zenon, <1>32, <1>36 DEF Open
<1>37. CASE RecoverDone
    BY Zenon, <1>32, <1>37 DEF RecoverDone
<1>38. CASE UNCHANGED vars
    BY Zenon, <1>32, <1>38 DEF vars
<1> QED
    BY Zenon, <1>1, <1>2, <1>3, <1>4, <1>5, <1>6, <1>7, <1>8, <1>9, <1>10, <1>11, <1>12, <1>13,
       <1>14, <1>15, <1>16, <1>17, <1>18, <1>19, <1>20, <1>21, <1>22, <1>23, <1>24, <1>25,
       <1>26, <1>27, <1>28, <1>29, <1>30, <1>31, <1>32, <1>33, <1>34, <1>35, <1>36, <1>37,
       <1>38, <1>39
    DEF Next, CreateStep, RowStep, HandleStep, RuntimeStep

\* The empty database satisfies DiskInv.
LEMMA DiskInit == Init => DiskInv
BY TypeInit DEF Init, DiskInv, RowsUsed, DiskTask, RowHasDisk, Idle, Creating

\* Whatever tasks overlap, each row has its overlay and each overlay its row,
\* but while a create or removal is between the two and after a crash there.
THEOREM DiskCorrect == Spec => []RowHasDisk
<1>1. DiskInv /\ [Next]_vars => DiskInv'
    BY Zenon, DiskNext
<1>2. DiskInv => RowHasDisk
    BY Zenon DEF DiskInv
<1> QED BY DiskInit, <1>1, <1>2, PTL DEF Spec

\* Whatever stale copy of its row a task still holds, a removed VM's row
\* never comes back.
THEOREM NeverResurrected == Spec => NoResurrection
<1>1. DiskInv /\ [Next]_vars => DiskInv'
    BY Zenon, DiskNext
<1>2. DiskInv /\ [Next]_vars =>
        [\A v \in Vms : v \in used /\ status[v] = "none" /\ status'[v] # "none"
           => \E a \in Actors : task[a].pc = "create_insert" /\ task[a].vm = v]_vars
    BY Zenon, DiskNext DEF RowsBorn
<1> QED BY DiskInit, <1>1, <1>2, PTL DEF Spec, NoResurrection

-----------------------------------------------------------------------------
(* The inductive invariant.                                                *)

Alive(p) == proc[p] \in {"booting", "live"}

ReadPoints == {"get", "list", "remove", "sweep", "recover"}

HandlePoints == {"create_ready", "handle", "start_spawn", "start_commit", "start_ready",
                 "stop_rpc", "stop_wait", "wait"}

\* No guest runs under the row of v.
Quiet(v) == Active(status[v]) => ~Alive(pid[v])

\* The copy a task holds agrees with the row: nobody else has changed it.
TaskSync(a) ==
    LET v == task[a].vm IN
    /\ task[a].pc \in ReadPoints =>
           status[v] # "none" /\ status[v] = task[a].st /\ pid[v] = task[a].cp
    /\ task[a].pc \in HandlePoints =>
           /\ status[v] \in {task[a].st, "none"}
           /\ Active(status[v]) => pid[v] = task[a].cp
           /\ status[v] = "none" => v \notin overlay
    /\ task[a].pc \in {"start_spawn", "start_commit"} => task[a].st = "Stopped"
    /\ task[a].pc \in Uncommitted => proc[task[a].sp] # "none" /\ owner[task[a].sp] = v
    /\ task[a].pc = "start_commit" /\ status[v] = "none" => proc[task[a].sp] # "live"
    /\ task[a].pc \in {"remove_files", "delete", "mark_delete", "swept"} => Quiet(v)

OneTaskPerVm ==
    \A a, b \in Actors :
        task[a].pc # "idle" /\ task[b].pc # "idle" /\ task[a].vm = task[b].vm => a = b

OwnersUsed == \A p \in Pids : proc[p] # "none" => owner[p] \in used

RowOwns(v) == status[v] # "none" => proc[pid[v]] # "none" /\ owner[pid[v]] = v

\* A shim that runs is known, was lost in a crash, or waits in vain for the
\* disk of a VM that has been removed.
Known(p) ==
    Alive(p) => \/ Recorded(p) \/ InFlight(p) \/ p \in lost
                \/ proc[p] = "booting" /\ owner[p] \notin overlay

Listens(p) == proc[p] = "live" /\ (Recorded(p) \/ InFlight(p)) => sock[owner[p]] = p

IInv ==
    /\ DiskInv
    /\ OneTaskPerVm
    /\ OwnersUsed
    /\ \A v \in Vms : RowOwns(v)
    /\ \A p \in Pids : Known(p) /\ Listens(p)
    /\ \A a \in Actors : TaskSync(a)

-----------------------------------------------------------------------------
(* Steps of one task on its VM.                                            *)

\* Nothing starts: shims go on as they are or come to their end.
NoneStarts ==
    /\ owner' = owner /\ lost' = lost /\ used' = used
    /\ \A p \in Pids : \/ proc'[p] = proc[p]
                       \/ proc[p] # "none" /\ proc'[p] \in {"killed", "zombie", "gone"}

Elsewhere(v) ==
    \A w \in Vms \ {v} :
        /\ status'[w] = status[w] /\ pid'[w] = pid[w] /\ sock'[w] = sock[w]
        /\ (w \in overlay') = (w \in overlay)

\* The step of task a on v, which it keeps or gives up.
Local(a, v) ==
    /\ task[a].pc # "idle" /\ v = task[a].vm /\ Others(a)
    /\ task'[a].pc = "idle" \/ task'[a].vm = v
    /\ NoneStarts /\ Elsewhere(v)

\* Ids handed out are ids.
LEMMA UsedVms == ASSUME IInv PROVE used \subseteq Vms
BY Zenon DEF IInv, DiskInv, TypeInv, World

\* A step of one task on its VM leaves the other tasks in sync with theirs.
LEMMA LocalTasks ==
    ASSUME IInv, DiskInv', NEW a \in Actors, NEW v \in Vms, Local(a, v), TaskSync(a)'
    PROVE  OneTaskPerVm' /\ OwnersUsed' /\ \A b \in Actors : TaskSync(b)'
<1>1. OneTaskPerVm'
    BY DEF IInv, OneTaskPerVm, Local, Others
<1>2. OwnersUsed'
    BY Zenon DEF IInv, OwnersUsed, Local, NoneStarts
<1>3. ASSUME NEW b \in Actors \ {a} PROVE TaskSync(b)'
  <2>1. task'[b] = task[b]
    BY Zenon DEF Local, Others
  <2>2. CASE task[b].pc = "idle"
    BY Zenon, <2>1, <2>2 DEF TaskSync, ReadPoints, HandlePoints, Uncommitted
  <2>3. CASE task[b].pc # "idle"
    <3> DEFINE w == task[b].vm
    <3>1. w \in Vms /\ w # v
        BY Zenon, <2>3 DEF IInv, DiskInv, TypeInv, HoldsPids, OneTaskPerVm, Local
    <3>2. status'[w] = status[w] /\ pid'[w] = pid[w] /\ (w \in overlay') = (w \in overlay)
        BY Zenon, <3>1 DEF Local, Elsewhere
    <3>3. TaskSync(b)
        BY Zenon DEF IInv
    <3>4. task[b].pc \in Uncommitted =>
              /\ task[b].sp \in Pids /\ proc'[task[b].sp] # "none" /\ owner' = owner
              /\ proc'[task[b].sp] = "live" => proc[task[b].sp] = "live"
        BY Zenon, <3>3 DEF IInv, DiskInv, TypeInv, HoldsPids, TaskSync, Local, NoneStarts
    <3>5. Quiet(w) => Quiet(w)'
        <4>1. status[w] # "none" => pid[w] \in Pids
            BY Zenon, <3>1 DEF IInv, DiskInv, TypeInv, World
        <4> QED BY Zenon, <2>1, <3>2, <4>1 DEF Quiet, Alive, Active, Local, NoneStarts
    <3> QED BY Zenon, <2>1, <3>2, <3>3, <3>4, <3>5 DEF TaskSync, Uncommitted
  <2> QED BY Zenon, <2>2, <2>3
<1> QED BY Zenon, <1>1, <1>2, <1>3

\* A step of one task keeps IInv if it does so for the shims of its VM.
LEMMA LocalStep ==
    ASSUME IInv, DiskInv', NEW a \in Actors, NEW v \in Vms, Local(a, v), TaskSync(a)',
           RowOwns(v)', \A p \in Pids : owner[p] = v => (Known(p) /\ Listens(p))'
    PROVE  IInv'
<1>1. OneTaskPerVm' /\ OwnersUsed' /\ \A b \in Actors : TaskSync(b)'
    BY Zenon, LocalTasks
<1>2. ASSUME NEW w \in Vms PROVE RowOwns(w)'
    <2>1. status[w] # "none" => pid[w] \in Pids
        BY Zenon DEF IInv, DiskInv, TypeInv, World
    <2> QED BY <1>2, <2>1 DEF IInv, RowOwns, Local, NoneStarts, Elsewhere
<1>3. ASSUME NEW p \in Pids PROVE (Known(p) /\ Listens(p))'
  <2>1. CASE owner[p] = v
    BY Zenon, <2>1
  <2>2. CASE proc[p] = "none"
    BY Zenon, <2>2 DEF Local, NoneStarts, Known, Listens, Alive
  <2>3. CASE owner[p] # v /\ proc[p] # "none"
    <3> DEFINE w == owner[p]
    <3>1. w \in Vms /\ w # v /\ owner'[p] = w
        BY Zenon, <2>3, UsedVms DEF IInv, OwnersUsed, Local, NoneStarts
    <3>2. Recorded(p)' <=> Recorded(p)
        BY Zenon, <3>1 DEF Recorded, Local, Elsewhere
    <3>3. InFlight(p)' <=> InFlight(p)
        <4>1. ASSUME NEW b \in Actors, task[b].pc \in Uncommitted, task[b].sp = p
              PROVE  task'[b] = task[b]
            <5>1. task[b].vm = w
                BY Zenon, <4>1 DEF IInv, TaskSync
            <5>2. b # a
                BY Zenon, <3>1, <5>1 DEF Local
            <5> QED BY Zenon, <5>2 DEF Local, Others
        <4>2. ASSUME NEW b \in Actors, task'[b].pc \in Uncommitted, task'[b].sp = p
              PROVE  task'[b] = task[b]
            <5>1. task'[b].vm = w
                BY Zenon, <4>2, <1>1, <3>1 DEF TaskSync
            <5>2. b # a
                BY Zenon, <3>1, <4>2, <5>1 DEF Local, Uncommitted
            <5> QED BY Zenon, <5>2 DEF Local, Others
        <4> QED BY Zenon, <4>1, <4>2 DEF InFlight
    <3>4. Known(p) /\ Listens(p)
        BY Zenon DEF IInv
    <3>5. /\ (w \in overlay') = (w \in overlay) /\ sock'[w] = sock[w] /\ lost' = lost
          /\ proc'[p] = proc[p] \/ proc'[p] \in {"killed", "zombie", "gone"}
        BY Zenon, <3>1 DEF Local, Elsewhere, NoneStarts
    <3> QED BY Zenon, <3>1, <3>2, <3>3, <3>4, <3>5 DEF Known, Listens, Alive
  <2> QED BY Zenon, <2>1, <2>2, <2>3
<1> QED BY Zenon, <1>1, <1>2, <1>3 DEF IInv

\* A step that leaves row, disk and socket alone.
LEMMA QuietStep ==
    ASSUME IInv, DiskInv', NEW a \in Actors, NEW v \in Vms, Local(a, v), TaskSync(a)',
           UNCHANGED <<status, pid, overlay, sock>>,
           task[a].pc \notin Uncommitted, task'[a].pc \notin Uncommitted
    PROVE  IInv'
<1>1. RowOwns(v)'
    <2>1. status[v] # "none" => pid[v] \in Pids
        BY Zenon DEF IInv, DiskInv, TypeInv, World
    <2> QED BY Zenon, <2>1 DEF IInv, RowOwns, Local, NoneStarts
<1>2. ASSUME NEW p \in Pids PROVE (Known(p) /\ Listens(p))'
  <2>1. Recorded(p)' <=> Recorded(p)
    BY Zenon DEF Recorded, Local, NoneStarts
  <2>2. InFlight(p)' <=> InFlight(p)
    BY Zenon DEF InFlight, Local, Others
  <2>3. Known(p) /\ Listens(p)
    BY Zenon DEF IInv
  <2>4. /\ owner' = owner /\ lost' = lost
        /\ proc'[p] = proc[p] \/ proc'[p] \in {"killed", "zombie", "gone"}
    BY Zenon DEF Local, NoneStarts
  <2> QED BY Zenon, <2>1, <2>2, <2>3, <2>4 DEF Known, Listens, Alive
<1> QED BY Zenon, <1>1, <1>2, LocalStep

\* A step after which no guest of v is left to run.
LEMMA SettleStep ==
    ASSUME IInv, DiskInv', NEW a \in Actors, NEW v \in Vms, Local(a, v), TaskSync(a)',
           RowOwns(v)', Quiet(v)', overlay' \subseteq overlay, task'[a].pc \notin Uncommitted,
           task[a].pc \in Uncommitted => \A p \in Pids : p = task[a].sp => ~Alive(p)',
           Active(status[v]) => \A p \in Pids : p = pid[v] => ~Alive(p)'
    PROVE  IInv'
<1>1. ASSUME NEW p \in Pids, owner[p] = v PROVE (Known(p) /\ Listens(p))'
  <2>1. owner' = owner /\ lost' = lost /\ (Alive(p)' => proc'[p] = proc[p])
    BY Zenon DEF Local, NoneStarts, Alive
  <2>2. ~(Recorded(p)' /\ Alive(p)')
    BY Zenon, <1>1, <2>1 DEF Recorded, Quiet
  <2>3. ~InFlight(p)'
    <3>1. SUFFICES ASSUME NEW b \in Actors, task'[b].pc \in Uncommitted, task'[b].sp = p
                   PROVE  FALSE
        BY Zenon DEF InFlight
    <3>2. b # a /\ task[b] = task'[b]
        BY Zenon, <3>1 DEF Local, Others
    <3>3. task[b].pc \in Uncommitted /\ task[b].pc # "idle" /\ task[b].vm = v
        BY Zenon, <1>1, <3>1, <3>2 DEF IInv, TaskSync, Uncommitted
    <3> QED BY Zenon, <3>2, <3>3 DEF IInv, OneTaskPerVm, Local
  <2>4. InFlight(p) => ~Alive(p)'
    <3>1. SUFFICES ASSUME NEW b \in Actors, task[b].pc \in Uncommitted, task[b].sp = p
                   PROVE  ~Alive(p)'
        BY Zenon DEF InFlight
    <3>2. task[b].vm = v
        BY Zenon, <1>1, <3>1 DEF IInv, TaskSync
    <3>3. b = a
        BY Zenon, <3>1, <3>2 DEF IInv, OneTaskPerVm, Local, Uncommitted
    <3> QED BY Zenon, <3>1, <3>3
  <2>5. Recorded(p) => ~Alive(p)'
    BY Zenon, <1>1 DEF Recorded
  <2>6. Known(p)
    BY Zenon DEF IInv
  <2>7. Known(p)'
    BY Zenon, <2>1, <2>4, <2>5, <2>6 DEF Known, Alive
  <2>8. Listens(p)'
    BY Zenon, <2>2, <2>3 DEF Listens, Alive
  <2> QED BY Zenon, <2>7, <2>8
<1> QED BY Zenon, <1>1, LocalStep

\* The effect of the database and file operations on the VM they name.
LEMMA UpdateAt ==
    ASSUME World, NEW v \in Vms, NEW s, NEW q
    PROVE  /\ \A w \in Vms \ {v} : /\ UpdateStatus(v, s)[w] = status[w]
                                   /\ UpdatePid(v, q)[w] = pid[w] /\ Unlink(v)[w] = sock[w]
           /\ UpdateStatus(v, s)[v] = (IF status[v] = "none" THEN "none" ELSE s)
           /\ UpdatePid(v, q)[v] = (IF status[v] = "none" THEN pid[v] ELSE q)
BY Zenon DEF World, UpdateStatus, UpdatePid, Unlink

\* A task that rewrites at most the row, the socket and the overlay of its VM is local to it.
LEMMA LocalWrite ==
    ASSUME World, NEW a \in Actors, NEW v \in Vms, NEW s, NEW q,
           task[a].pc # "idle", v = task[a].vm, Others(a),
           task'[a].pc = "idle" \/ task'[a].vm = v, NoneStarts,
           status' \in {status, UpdateStatus(v, s)}, pid' \in {pid, UpdatePid(v, q)},
           sock' \in {sock, Unlink(v)}, overlay' \in {overlay, overlay \ {v}}
    PROVE  /\ Local(a, v)
           /\ status' = UpdateStatus(v, s) =>
                  status'[v] = (IF status[v] = "none" THEN "none" ELSE s)
           /\ pid' = UpdatePid(v, q) /\ status[v] # "none" => pid'[v] = q
<1>1. \A w \in Vms \ {v} : status'[w] = status[w] /\ pid'[w] = pid[w] /\ sock'[w] = sock[w]
    BY UpdateAt
<1>2. \A w \in Vms \ {v} : (w \in overlay') = (w \in overlay)
    OBVIOUS
<1>3. Local(a, v)
    BY Zenon, <1>1, <1>2 DEF Local, Elsewhere
<1> QED BY <1>3, UpdateAt

\* A signal starts nothing.
LEMMA SignalEnds ==
    ASSUME World, NEW q, proc' = Signal(q), UNCHANGED <<owner, lost, used>>
    PROVE  NoneStarts /\ \A p \in Pids : p = q => ~Alive(p)'
BY Zenon DEF World, Signal, NoneStarts, Alive

\* Nor does a step that leaves the shims alone.
LEMMA SameShims ==
    ASSUME UNCHANGED <<proc, owner, lost, used>> PROVE NoneStarts
BY Zenon DEF NoneStarts

\* An idle task is in sync with anything.
LEMMA IdleSync ==
    ASSUME NEW a \in Actors, task'[a].pc = "idle" PROVE TaskSync(a)'
BY Zenon DEF TaskSync, ReadPoints, HandlePoints, Uncommitted

\* A row keeps naming a shim of its own while its pid stays.
LEMMA SameRow ==
    ASSUME IInv, NEW v \in Vms, NoneStarts, pid'[v] = pid[v],
           status'[v] # "none" => status[v] # "none"
    PROVE  RowOwns(v)'
<1>1. status[v] # "none" => pid[v] \in Pids
    BY Zenon DEF IInv, DiskInv, TypeInv, World
<1> QED BY Zenon, <1>1 DEF IInv, RowOwns, NoneStarts

-----------------------------------------------------------------------------
(* The invariant is inductive.                                             *)

\* The empty database satisfies IInv.
LEMMA IInvInit == Init => IInv
BY DiskInit DEF Init, IInv, OneTaskPerVm, OwnersUsed, RowOwns, Known, Listens, Alive,
    TaskSync, Idle, ReadPoints, HandlePoints, Uncommitted

\* What DiskInv already gives, before and after any step.
LEMMA TypeFacts ==
    ASSUME IInv, [Next]_vars
    PROVE  /\ DiskInv /\ DiskInv' /\ TypeInv /\ World /\ World' /\ TasksTyped
           /\ \A a \in Actors : HoldsPids(a) /\ DiskTask(a) /\ TaskSync(a)
BY Zenon, DiskNext DEF IInv, DiskInv, TypeInv

\* Wait_ready returns.
LEMMA CreateReadyInv ==
    ASSUME IInv, [Next]_vars, NEW a \in Actors, CreateReady(a) PROVE IInv'
<1> USE TypeFacts DEF HoldsPids, HoldsPid, Points, Uncommitted, dbVars, fileVars, procVars, ghostVars
<1>1. PICK v \in Vms : v = task[a].vm
    BY Zenon DEF CreateReady
<1>2. /\ Others(a) /\ task'[a].pc = "handle" /\ task'[a].vm = task[a].vm
      /\ task'[a].st = task[a].st /\ task'[a].cp = task[a].cp /\ task'[a].sp = task[a].sp
    BY Zenon, GotoEffect DEF CreateReady
<1>3. NoneStarts /\ UNCHANGED <<status, pid, overlay, sock, proc>>
    BY Zenon, SameShims DEF CreateReady
<1>4. Local(a, v)
    BY Zenon, <1>1, <1>2, <1>3 DEF Local, Elsewhere, CreateReady
<1>5. TaskSync(a)'
    BY Zenon, <1>1, <1>2, <1>3 DEF TaskSync, CreateReady, ReadPoints, HandlePoints, Quiet, Active, Alive
<1> QED BY Zenon, <1>2, <1>3, <1>4, <1>5, QuietStep DEF CreateReady

\* Terminate_pid ends the guest of the row.
LEMMA SweepTerminateInv ==
    ASSUME IInv, [Next]_vars, NEW a \in Actors, SweepTerminate(a) PROVE IInv'
<1> USE TypeFacts DEF HoldsPids, HoldsPid, Points, Uncommitted, dbVars, fileVars, procVars, ghostVars
<1>1. PICK v \in Vms : v = task[a].vm
    BY Zenon DEF SweepTerminate
<1>2. /\ Others(a) /\ task'[a].pc = "swept" /\ task'[a].vm = task[a].vm
      /\ task'[a].st = task[a].st /\ task'[a].cp = task[a].cp /\ task'[a].sp = task[a].sp
    BY Zenon, GotoEffect DEF SweepTerminate
<1>3. /\ NoneStarts /\ UNCHANGED <<status, pid, overlay, sock>>
      /\ \A p \in Pids : p = task[a].cp => ~Alive(p)'
    <2>1. CASE PidAlive(task[a].cp)
        BY Zenon, <2>1, SignalEnds DEF SweepTerminate
    <2>2. CASE ~PidAlive(task[a].cp)
        BY Zenon, <2>2, SameShims DEF SweepTerminate, PidAlive, Alive
    <2> QED BY Zenon, <2>1, <2>2
<1>4. Local(a, v)
    BY Zenon, <1>1, <1>2, <1>3 DEF Local, Elsewhere, SweepTerminate
<1>5. TaskSync(a)'
    BY Zenon, <1>1, <1>2, <1>3 DEF TaskSync, SweepTerminate, ReadPoints, HandlePoints, Quiet, Active, Alive
<1> QED BY Zenon, <1>2, <1>3, <1>4, <1>5, QuietStep DEF SweepTerminate

\* The sweep passes a stopped row on.
LEMMA SweepStoppedInv ==
    ASSUME IInv, [Next]_vars, NEW a \in Actors, SweepStopped(a) PROVE IInv'
<1> USE TypeFacts DEF HoldsPids, HoldsPid, Points, Uncommitted, dbVars, fileVars, procVars, ghostVars
<1>1. PICK v \in Vms : v = task[a].vm
    BY Zenon DEF SweepStopped
<1>2. /\ Others(a)
      /\ \/ task'[a].pc = "idle"
         \/ task[a].st = "Stopped" /\ task'[a].pc = "remove_files" /\ task'[a].vm = task[a].vm
    BY Zenon, GotoEffect, FinishEffect DEF SweepStopped
<1>3. NoneStarts /\ UNCHANGED <<status, pid, overlay, sock, proc>>
    BY Zenon, SameShims DEF SweepStopped
<1>4. Local(a, v)
    BY Zenon, <1>1, <1>2, <1>3 DEF Local, Elsewhere, SweepStopped
<1>5. TaskSync(a)'
    BY Zenon, <1>1, <1>2, <1>3 DEF TaskSync, SweepStopped, ReadPoints, HandlePoints, Quiet, Active, Alive
<1> QED BY Zenon, <1>2, <1>3, <1>4, <1>5, QuietStep DEF SweepStopped

\* Start_with has checked the cached status.
LEMMA StartBeginInv ==
    ASSUME IInv, [Next]_vars, NEW a \in Actors, StartBegin(a) PROVE IInv'
<1> USE TypeFacts DEF HoldsPids, HoldsPid, Points, Uncommitted, dbVars, fileVars, procVars, ghostVars
<1>1. PICK v \in Vms : v = task[a].vm
    BY Zenon DEF StartBegin
<1>2. /\ Others(a) /\ task'[a].pc = "start_spawn" /\ task'[a].vm = task[a].vm
      /\ task'[a].st = task[a].st /\ task'[a].cp = task[a].cp /\ task'[a].sp = task[a].sp
    BY Zenon, GotoEffect DEF StartBegin
<1>3. NoneStarts /\ UNCHANGED <<status, pid, overlay, sock, proc>>
    BY Zenon, SameShims DEF StartBegin
<1>4. Local(a, v)
    BY Zenon, <1>1, <1>2, <1>3 DEF Local, Elsewhere, StartBegin
<1>5. TaskSync(a)'
    BY Zenon, <1>1, <1>2, <1>3 DEF TaskSync, StartBegin, ReadPoints, HandlePoints, Quiet, Active, Alive
<1> QED BY Zenon, <1>2, <1>3, <1>4, <1>5, QuietStep DEF StartBegin

\* Wait_ready returns.
LEMMA StartReadyInv ==
    ASSUME IInv, [Next]_vars, NEW a \in Actors, StartReady(a) PROVE IInv'
<1> USE TypeFacts DEF HoldsPids, HoldsPid, Points, Uncommitted, dbVars, fileVars, procVars, ghostVars
<1>1. PICK v \in Vms : v = task[a].vm
    BY Zenon DEF StartReady
<1>2. /\ Others(a) /\ task'[a].pc = "handle" /\ task'[a].vm = task[a].vm
      /\ task'[a].st = task[a].st /\ task'[a].cp = task[a].cp /\ task'[a].sp = task[a].sp
    BY Zenon, GotoEffect DEF StartReady
<1>3. NoneStarts /\ UNCHANGED <<status, pid, overlay, sock, proc>>
    BY Zenon, SameShims DEF StartReady
<1>4. Local(a, v)
    BY Zenon, <1>1, <1>2, <1>3 DEF Local, Elsewhere, StartReady
<1>5. TaskSync(a)'
    BY Zenon, <1>1, <1>2, <1>3 DEF TaskSync, StartReady, ReadPoints, HandlePoints, Quiet, Active, Alive
<1> QED BY Zenon, <1>2, <1>3, <1>4, <1>5, QuietStep DEF StartReady

\* The Shutdown reply comes.
LEMMA StopReplyInv ==
    ASSUME IInv, [Next]_vars, NEW a \in Actors, StopReply(a) PROVE IInv'
<1> USE TypeFacts DEF HoldsPids, HoldsPid, Points, Uncommitted, dbVars, fileVars, procVars, ghostVars
<1>1. PICK v \in Vms : v = task[a].vm
    BY Zenon DEF StopReply
<1>2. /\ Others(a) /\ task'[a].pc = "stop_wait" /\ task'[a].vm = task[a].vm
      /\ task'[a].st = task[a].st /\ task'[a].cp = task[a].cp /\ task'[a].sp = task[a].sp
    BY Zenon, GotoEffect DEF StopReply, StopWait
<1>3. NoneStarts /\ UNCHANGED <<status, pid, overlay, sock, proc>>
    BY Zenon, SameShims DEF StopReply, StopWait
<1>4. Local(a, v)
    BY Zenon, <1>1, <1>2, <1>3 DEF Local, Elsewhere, StopReply
<1>5. TaskSync(a)'
    BY Zenon, <1>1, <1>2, <1>3 DEF TaskSync, StopReply, ReadPoints, HandlePoints, Quiet, Active, Alive
<1> QED BY Zenon, <1>2, <1>3, <1>4, <1>5, QuietStep DEF StopReply

\* The Shutdown connection breaks.
LEMMA StopRpcBrokenInv ==
    ASSUME IInv, [Next]_vars, NEW a \in Actors, StopRpcBroken(a) PROVE IInv'
<1> USE TypeFacts DEF HoldsPids, HoldsPid, Points, Uncommitted, dbVars, fileVars, procVars, ghostVars
<1>1. PICK v \in Vms : v = task[a].vm
    BY Zenon DEF StopRpcBroken
<1>2. /\ Others(a) /\ task'[a].pc = "stop_wait" /\ task'[a].vm = task[a].vm
      /\ task'[a].st = task[a].st /\ task'[a].cp = task[a].cp /\ task'[a].sp = task[a].sp
    BY Zenon, GotoEffect DEF StopRpcBroken, StopWait
<1>3. NoneStarts /\ UNCHANGED <<status, pid, overlay, sock, proc>>
    BY Zenon, SameShims DEF StopRpcBroken, StopWait
<1>4. Local(a, v)
    BY Zenon, <1>1, <1>2, <1>3 DEF Local, Elsewhere, StopRpcBroken
<1>5. TaskSync(a)'
    BY Zenon, <1>1, <1>2, <1>3 DEF TaskSync, StopRpcBroken, ReadPoints, HandlePoints, Quiet, Active, Alive
<1> QED BY Zenon, <1>2, <1>3, <1>4, <1>5, QuietStep DEF StopRpcBroken

\* Wait starts its thread.
LEMMA WaitBeginInv ==
    ASSUME IInv, [Next]_vars, NEW a \in Actors, WaitBegin(a) PROVE IInv'
<1> USE TypeFacts DEF HoldsPids, HoldsPid, Points, Uncommitted, dbVars, fileVars, procVars, ghostVars
<1>1. PICK v \in Vms : v = task[a].vm
    BY Zenon DEF WaitBegin
<1>2. /\ Others(a) /\ task'[a].pc = "wait" /\ task'[a].vm = task[a].vm
      /\ task'[a].st = task[a].st /\ task'[a].cp = task[a].cp /\ task'[a].sp = task[a].sp
    BY Zenon, GotoEffect DEF WaitBegin
<1>3. NoneStarts /\ UNCHANGED <<status, pid, overlay, sock, proc>>
    BY Zenon, SameShims DEF WaitBegin
<1>4. Local(a, v)
    BY Zenon, <1>1, <1>2, <1>3 DEF Local, Elsewhere, WaitBegin
<1>5. TaskSync(a)'
    BY Zenon, <1>1, <1>2, <1>3 DEF TaskSync, WaitBegin, ReadPoints, HandlePoints, Quiet, Active, Alive
<1> QED BY Zenon, <1>2, <1>3, <1>4, <1>5, QuietStep DEF WaitBegin

\* Dropping the keepalive ends the guest of the row at most.
LEMMA DropInv ==
    ASSUME IInv, [Next]_vars, NEW a \in Actors, Drop(a) PROVE IInv'
<1> USE TypeFacts DEF HoldsPids, HoldsPid, Points, Uncommitted, dbVars, fileVars, procVars, ghostVars
<1>1. PICK v \in Vms : v = task[a].vm
    BY Zenon DEF Drop
<1>2. Others(a) /\ task'[a].pc = "idle"
    BY Zenon, FinishEffect DEF Drop
<1>3. NoneStarts
    BY Zenon, SignalEnds DEF Drop
<1>4. Local(a, v)
    BY Zenon, <1>1, <1>2, <1>3 DEF Local, Elsewhere, Drop
<1> QED BY Zenon, <1>2, <1>4, IdleSync, QuietStep DEF Drop

\* Steps after which no guest of the VM is left.
LEMMA CreateSpawnFailsInv ==
    ASSUME IInv, [Next]_vars, NEW a \in Actors, CreateSpawnFails(a) PROVE IInv'
<1> USE TypeFacts DEF HoldsPids, HoldsPid, Points, Uncommitted, Statuses,
       dbVars, fileVars, procVars, ghostVars
<1>1. PICK v \in Vms : v = task[a].vm
    BY Zenon DEF CreateSpawnFails
<1>2. /\ Others(a) /\ task'[a].pc = "delete" /\ task'[a].vm = task[a].vm
      /\ status' = status /\ pid' = pid /\ overlay' = overlay \ {v} /\ sock' = Unlink(v)
    BY Zenon, <1>1, GotoEffect DEF CreateSpawnFails, RemoveFiles
<1>3. NoneStarts
    BY Zenon, SameShims DEF CreateSpawnFails
<1>4. Local(a, v)
    BY Zenon, <1>1, <1>2, <1>3, LocalWrite DEF CreateSpawnFails
<1>5. /\ Active(status[v]) => \A p \in Pids : p = pid[v] => ~Alive(p)'
      /\ task[a].pc \in Uncommitted => \A p \in Pids : p = task[a].sp => ~Alive(p)'
    BY Zenon, <1>1, <1>3 DEF CreateSpawnFails, TaskSync, DiskTask, Creating, Active
<1>6. Quiet(v)'
    BY Zenon, <1>2, <1>5 DEF Quiet, World, Active
<1>7. TaskSync(a)'
    BY Zenon, <1>1, <1>2, <1>6 DEF TaskSync, ReadPoints, HandlePoints
<1>8. RowOwns(v)'
    BY Zenon, <1>2, <1>3, SameRow
<1> QED BY Zenon, <1>2, <1>4, <1>5, <1>6, <1>7, <1>8, SettleStep

\* SpawnAbort kills the shim in flight.
LEMMA CreateInsertFailsInv ==
    ASSUME IInv, [Next]_vars, NEW a \in Actors, CreateInsertFails(a) PROVE IInv'
<1> USE TypeFacts DEF HoldsPids, HoldsPid, Points, Uncommitted, Statuses,
       dbVars, fileVars, procVars, ghostVars
<1>1. PICK v \in Vms : v = task[a].vm
    BY Zenon DEF CreateInsertFails
<1>2. /\ Others(a) /\ task'[a].pc = "delete" /\ task'[a].vm = task[a].vm
      /\ status' = status /\ pid' = pid /\ overlay' = overlay \ {v} /\ sock' = Unlink(v)
    BY Zenon, <1>1, GotoEffect DEF CreateInsertFails, RemoveFiles
<1>3. NoneStarts /\ \A p \in Pids : p = task[a].sp => ~Alive(p)'
    BY Zenon, SignalEnds DEF CreateInsertFails
<1>4. Local(a, v)
    BY Zenon, <1>1, <1>2, <1>3, LocalWrite DEF CreateInsertFails
<1>5. /\ Active(status[v]) => \A p \in Pids : p = pid[v] => ~Alive(p)'
      /\ task[a].pc \in Uncommitted => \A p \in Pids : p = task[a].sp => ~Alive(p)'
    BY Zenon, <1>1, <1>3 DEF CreateInsertFails, TaskSync, DiskTask, Creating, Active
<1>6. Quiet(v)'
    BY Zenon, <1>2, <1>5 DEF Quiet, World, Active
<1>7. TaskSync(a)'
    BY Zenon, <1>1, <1>2, <1>6 DEF TaskSync, ReadPoints, HandlePoints
<1>8. RowOwns(v)'
    BY Zenon, <1>2, <1>3, SameRow
<1> QED BY Zenon, <1>2, <1>4, <1>5, <1>6, <1>7, <1>8, SettleStep

\* Abort_unready kills the guest of the row.
LEMMA CreateUnreadyInv ==
    ASSUME IInv, [Next]_vars, NEW a \in Actors, CreateUnready(a) PROVE IInv'
<1> USE TypeFacts DEF HoldsPids, HoldsPid, Points, Uncommitted, Statuses,
       dbVars, fileVars, procVars, ghostVars
<1>1. PICK v \in Vms : v = task[a].vm
    BY Zenon DEF CreateUnready
<1>2. /\ Others(a) /\ task'[a].pc = "delete" /\ task'[a].vm = task[a].vm
      /\ status' = status /\ pid' = pid /\ overlay' = overlay \ {v} /\ sock' = Unlink(v)
    BY Zenon, <1>1, GotoEffect DEF CreateUnready, RemoveFiles
<1>3. NoneStarts /\ \A p \in Pids : p = task[a].cp => ~Alive(p)'
    BY Zenon, SignalEnds DEF CreateUnready
<1>4. Local(a, v)
    BY Zenon, <1>1, <1>2, <1>3, LocalWrite DEF CreateUnready
<1>5. /\ Active(status[v]) => \A p \in Pids : p = pid[v] => ~Alive(p)'
      /\ task[a].pc \in Uncommitted => \A p \in Pids : p = task[a].sp => ~Alive(p)'
    BY Zenon, <1>1, <1>3 DEF CreateUnready, TaskSync, HandlePoints
<1>6. Quiet(v)'
    BY Zenon, <1>2, <1>5 DEF Quiet, World, Active
<1>7. TaskSync(a)'
    BY Zenon, <1>1, <1>2, <1>6 DEF TaskSync, ReadPoints, HandlePoints
<1>8. RowOwns(v)'
    BY Zenon, <1>2, <1>3, SameRow
<1> QED BY Zenon, <1>2, <1>4, <1>5, <1>6, <1>7, <1>8, SettleStep

\* Files of a VM without a guest go.
LEMMA RemoveStoredInv ==
    ASSUME IInv, [Next]_vars, NEW a \in Actors, RemoveStored(a) PROVE IInv'
<1> USE TypeFacts DEF HoldsPids, HoldsPid, Points, Uncommitted, Statuses,
       dbVars, fileVars, procVars, ghostVars
<1>1. PICK v \in Vms : v = task[a].vm
    BY Zenon DEF RemoveStored
<1>2. /\ Others(a) /\ task'[a].pc = "delete" /\ task'[a].vm = task[a].vm
      /\ status' = status /\ pid' = pid /\ overlay' = overlay \ {v} /\ sock' = Unlink(v)
    BY Zenon, <1>1, GotoEffect DEF RemoveStored, RemoveFiles
<1>3. NoneStarts /\ proc' = proc
    BY Zenon, SameShims DEF RemoveStored
<1>4. Local(a, v)
    BY Zenon, <1>1, <1>2, <1>3, LocalWrite DEF RemoveStored
<1>5. /\ Active(status[v]) => \A p \in Pids : p = pid[v] => ~Alive(p)'
      /\ task[a].pc \in Uncommitted => \A p \in Pids : p = task[a].sp => ~Alive(p)'
    BY Zenon, <1>1, <1>3 DEF RemoveStored, TaskSync, Quiet, Alive
<1>6. Quiet(v)'
    BY Zenon, <1>2, <1>5 DEF Quiet, World, Active
<1>7. TaskSync(a)'
    BY Zenon, <1>1, <1>2, <1>6 DEF TaskSync, ReadPoints, HandlePoints
<1>8. RowOwns(v)'
    BY Zenon, <1>2, <1>3, SameRow
<1> QED BY Zenon, <1>2, <1>4, <1>5, <1>6, <1>7, <1>8, SettleStep

\* The row of a VM without a guest goes.
LEMMA DeleteRowInv ==
    ASSUME IInv, [Next]_vars, NEW a \in Actors, DeleteRow(a) PROVE IInv'
<1> USE TypeFacts DEF HoldsPids, HoldsPid, Points, Uncommitted, Statuses,
       dbVars, fileVars, procVars, ghostVars
<1>1. PICK v \in Vms : v = task[a].vm
    BY Zenon DEF DeleteRow
<1>2. /\ Others(a) /\ task'[a].pc = "idle" /\ task[a].pc = "delete"
      /\ status' = [status EXCEPT ![v] = "none"] /\ UNCHANGED <<pid, overlay, sock>>
    BY Zenon, <1>1, FinishEffect DEF DeleteRow
<1>3. NoneStarts
    BY Zenon, SignalEnds DEF DeleteRow
<1>4. Local(a, v) /\ status'[v] = "none"
    BY Zenon, <1>1, <1>2, <1>3 DEF Local, Elsewhere, World
<1>5. Active(status[v]) => \A p \in Pids : p = pid[v] => ~Alive(p)'
    BY Zenon, <1>1, <1>2, <1>3 DEF TaskSync, Quiet, Alive, NoneStarts
<1>6. Quiet(v)' /\ RowOwns(v)'
    BY Zenon, <1>4 DEF Quiet, Active, RowOwns
<1> QED BY Zenon, <1>2, <1>4, <1>5, <1>6, IdleSync, SettleStep

\* The row of a VM without a guest goes.
LEMMA MarkDeleteInv ==
    ASSUME IInv, [Next]_vars, NEW a \in Actors, MarkDelete(a) PROVE IInv'
<1> USE TypeFacts DEF HoldsPids, HoldsPid, Points, Uncommitted, Statuses,
       dbVars, fileVars, procVars, ghostVars
<1>1. PICK v \in Vms : v = task[a].vm
    BY Zenon DEF MarkDelete
<1>2. /\ Others(a) /\ task'[a].pc = "handle" /\ task'[a].vm = v /\ task[a].pc = "mark_delete"
      /\ status' = [status EXCEPT ![v] = "none"] /\ UNCHANGED <<pid, overlay, sock, proc>>
    BY Zenon, <1>1, GotoEffect DEF MarkDelete
<1>3. NoneStarts
    BY Zenon, SameShims DEF MarkDelete
<1>4. Local(a, v) /\ status'[v] = "none"
    BY Zenon, <1>1, <1>2, <1>3 DEF Local, Elsewhere, World
<1>5. Active(status[v]) => \A p \in Pids : p = pid[v] => ~Alive(p)'
    BY Zenon, <1>1, <1>2, <1>3 DEF TaskSync, Quiet, Alive
<1>6. Quiet(v)' /\ RowOwns(v)'
    BY Zenon, <1>4 DEF Quiet, Active, RowOwns
<1>7. TaskSync(a)'
    BY Zenon, <1>1, <1>2, <1>4 DEF TaskSync, DiskTask, ReadPoints, HandlePoints, Active
<1> QED BY Zenon, <1>2, <1>4, <1>5, <1>6, <1>7, SettleStep

\* The guest was signalled before its row is marked.
LEMMA SweepMarkInv ==
    ASSUME IInv, [Next]_vars, NEW a \in Actors, SweepMark(a) PROVE IInv'
<1> USE TypeFacts DEF HoldsPids, HoldsPid, Points, Uncommitted, Statuses,
       dbVars, fileVars, procVars, ghostVars
<1>1. PICK v \in Vms : v = task[a].vm
    BY Zenon DEF SweepMark
<1>2. /\ Others(a) /\ task[a].pc = "swept"
      /\ task'[a].pc = "idle" \/ (task'[a].pc = "remove_files" /\ task'[a].vm = v)
    BY Zenon, <1>1, GotoEffect, FinishEffect DEF SweepMark
<1>3. /\ NoneStarts /\ UNCHANGED <<pid, overlay, proc>>
      /\ status' = UpdateStatus(v, "Stopped") /\ sock' = Unlink(v)
    BY Zenon, <1>1, SameShims DEF SweepMark
<1>4. Local(a, v) /\ status'[v] = (IF status[v] = "none" THEN "none" ELSE "Stopped")
    <2>1. Local(a, v)
        BY Zenon, <1>1, <1>2, <1>3, LocalWrite
    <2>2. status'[v] = (IF status[v] = "none" THEN "none" ELSE "Stopped")
        BY ONLY World, v \in Vms, <1>3, UpdateAt
    <2> QED BY Zenon, <2>1, <2>2
<1>5. Active(status[v]) => \A p \in Pids : p = pid[v] => ~Alive(p)'
    BY Zenon, <1>1, <1>2, <1>3 DEF TaskSync, Quiet, Alive
<1>6. Quiet(v)' /\ RowOwns(v)'
    BY Zenon, <1>3, <1>4, SameRow DEF Quiet, Active
<1>7. TaskSync(a)'
    BY Zenon, <1>2, <1>6 DEF TaskSync, ReadPoints, HandlePoints
<1> QED BY Zenon, <1>2, <1>3, <1>4, <1>5, <1>6, <1>7, SettleStep

\* No shim was started.
LEMMA StartSpawnFailsInv ==
    ASSUME IInv, [Next]_vars, NEW a \in Actors, StartSpawnFails(a) PROVE IInv'
<1> USE TypeFacts DEF HoldsPids, HoldsPid, Points, Uncommitted, Statuses,
       dbVars, fileVars, procVars, ghostVars
<1>1. PICK v \in Vms : v = task[a].vm
    BY Zenon DEF StartSpawnFails
<1>2. /\ Others(a) /\ task[a].pc = "start_spawn" /\ task'[a].pc = "handle" /\ task'[a].vm = v
      /\ task'[a].st = task[a].st
    BY Zenon, <1>1, GotoEffect DEF StartSpawnFails
<1>3. NoneStarts /\ UNCHANGED <<status, pid, overlay, proc>> /\ sock' \in {sock, Unlink(v)}
    BY Zenon, <1>1, SameShims DEF StartSpawnFails
<1>4. Local(a, v)
    BY Zenon, <1>1, <1>2, <1>3, LocalWrite
<1>5. status[v] \in {"Stopped", "none"}
    BY Zenon, <1>1, <1>2 DEF TaskSync, HandlePoints
<1>6. Quiet(v)' /\ RowOwns(v)'
    BY Zenon, <1>3, <1>5, SameRow DEF Quiet, Active
<1>7. TaskSync(a)'
    BY Zenon, <1>1, <1>2, <1>3, <1>5 DEF TaskSync, ReadPoints, HandlePoints, Active
<1> QED BY Zenon, <1>2, <1>3, <1>4, <1>5, <1>6, <1>7, SettleStep DEF Active

\* Revert_failed_start kills the shim in flight.
LEMMA StartCommitFailsInv ==
    ASSUME IInv, [Next]_vars, NEW a \in Actors, StartCommitFails(a) PROVE IInv'
<1> USE TypeFacts DEF HoldsPids, HoldsPid, Points, Uncommitted, Statuses,
       dbVars, fileVars, procVars, ghostVars
<1>1. PICK v \in Vms : v = task[a].vm
    BY Zenon DEF StartCommitFails
<1>2. /\ Others(a) /\ task[a].pc = "start_commit" /\ task'[a].pc = "handle" /\ task'[a].vm = v
      /\ task'[a].st = task[a].st
    BY Zenon, <1>1, StartCommitFailsEffect DEF StartCommitFails
<1>3. NoneStarts /\ \A p \in Pids : p = task[a].sp => ~Alive(p)'
    BY Zenon, SignalEnds DEF StartCommitFails
<1>4. /\ overlay' = overlay /\ sock' = Unlink(v) /\ status' = UpdateStatus(v, "Stopped")
      /\ pid' = pid \/ pid' = UpdatePid(v, task[a].sp)
    BY Zenon, <1>1 DEF StartCommitFails
<1>5. Local(a, v) /\ status'[v] = (IF status[v] = "none" THEN "none" ELSE "Stopped")
    <2>1. Local(a, v)
        BY ZenonT(40), <1>1, <1>2, <1>3, <1>4, LocalWrite
    <2>2. status'[v] = (IF status[v] = "none" THEN "none" ELSE "Stopped")
        <3>1. status' = UpdateStatus(v, "Stopped")
            BY Zenon, <1>4
        <3> QED BY ONLY World, v \in Vms, <3>1, UpdateAt
    <2> QED BY Zenon, <2>1, <2>2
<1>6. status[v] \in {"Stopped", "none"} /\ (status[v] = "none" => v \notin overlay)
      /\ task[a].st = "Stopped"
    BY Zenon, <1>1, <1>2 DEF TaskSync, HandlePoints
<1>7. RowOwns(v)'
    <2>1. CASE pid' = pid
        BY Zenon, <1>3, <1>5, <2>1, SameRow
    <2>2. CASE pid' = UpdatePid(v, task[a].sp)
        <3>1. status[v] # "none" => pid'[v] = task[a].sp
            BY Zenon, <2>2, UpdateAt
        <3>2. /\ task[a].sp \in Pids /\ proc[task[a].sp] # "none" /\ owner[task[a].sp] = v
            BY Zenon, <1>1, <1>2 DEF TaskSync
        <3> QED BY Zenon, <1>3, <1>5, <3>1, <3>2 DEF RowOwns, NoneStarts
    <2> QED BY Zenon, <1>4, <2>1, <2>2
<1>8. Quiet(v)'
    BY Zenon, <1>5 DEF Quiet, Active
<1>9. TaskSync(a)'
    BY Zenon, <1>2, <1>4, <1>5, <1>6 DEF TaskSync, ReadPoints, HandlePoints, Active
<1> QED BY Zenon, <1>2, <1>3, <1>4, <1>5, <1>6, <1>7, <1>8, <1>9, SettleStep DEF Active

-----------------------------------------------------------------------------
(* The actions that move the status of a VM, and what follows from IInv.   *)

\* mark_stopped of a VM that is kept changes its row and the handle's copy alike.
LEMMA MarkStoppedKeeps ==
    ASSUME TasksTyped, NEW a \in Actors, MarkStopped(a), task[a].vm \notin AutoRemove
    PROVE  /\ Others(a) /\ task'[a].vm = task[a].vm /\ task'[a].pc = "handle"
           /\ task'[a].st = "Stopped" /\ overlay' = overlay
           /\ status' = UpdateStatus(task[a].vm, "Stopped")
<1> DEFINE t == [task[a] EXCEPT !.pc = "handle", !.st = "Stopped"]
<1>1. /\ t \in TaskRecord /\ t.pc = "handle" /\ t.vm = task[a].vm /\ t.st = "Stopped"
    BY ZenonT(40) DEF TasksTyped, TaskRecord, Points, Statuses
<1>2. Become(a, t) /\ overlay' = overlay /\ status' = UpdateStatus(task[a].vm, "Stopped")
    BY Zenon DEF MarkStopped
<1> HIDE DEF t
<1> QED BY Zenon, <1>1, <1>2, BecomeEffect

\* mark_stopped, once the pid of the handle has ended or been killed.
LEMMA MarkStoppedInv ==
    ASSUME IInv, [Next]_vars, NEW a \in Actors,
           task[a].pc \in {"handle", "start_ready", "stop_wait", "wait"}, MarkStopped(a),
           NoneStarts, \A p \in Pids : p = task[a].cp => ~Alive(p)'
    PROVE  IInv'
<1> USE TypeFacts DEF HoldsPids, HoldsPid, Points, Uncommitted, Statuses,
       dbVars, fileVars, procVars, ghostVars
<1>1. PICK v \in Vms : v = task[a].vm
    BY Zenon
<1>2. /\ status[v] \in {task[a].st, "none"} /\ (Active(status[v]) => pid[v] = task[a].cp)
      /\ status[v] = "none" => v \notin overlay
    BY Zenon, <1>1 DEF TaskSync, HandlePoints
<1>3. sock' = Unlink(v) /\ pid' = pid
    BY Zenon, <1>1 DEF MarkStopped
<1>4. CASE task[a].vm \in AutoRemove
    <2>1. /\ Others(a) /\ task'[a].vm = v /\ task'[a].pc = "mark_delete"
          /\ status' = status /\ overlay' = overlay \ {v}
        BY Zenon, <1>1, <1>4, SetStatusEffect DEF MarkStopped
    <2>2. Local(a, v)
        BY Zenon, <1>1, <1>3, <2>1, LocalWrite
    <2>3. Quiet(v)' /\ RowOwns(v)'
        BY Zenon, <1>2, <1>3, <2>1, SameRow DEF Quiet, Active, World
    <2>4. TaskSync(a)'
        BY Zenon, <2>1, <2>3 DEF TaskSync, ReadPoints, HandlePoints
    <2> QED BY Zenon, <1>2, <2>1, <2>2, <2>3, <2>4, SettleStep
<1>5. CASE task[a].vm \notin AutoRemove
    <2>1. /\ Others(a) /\ task'[a].vm = v /\ task'[a].pc = "handle" /\ task'[a].st = "Stopped"
          /\ status' = UpdateStatus(v, "Stopped") /\ overlay' = overlay
        BY Zenon, <1>1, <1>5, MarkStoppedKeeps
    <2>2. Local(a, v) /\ status'[v] = (IF status[v] = "none" THEN "none" ELSE "Stopped")
        <3>1. Local(a, v)
            BY Zenon, <1>1, <1>3, <2>1, LocalWrite
        <3>2. status'[v] = (IF status[v] = "none" THEN "none" ELSE "Stopped")
            BY ONLY World, v \in Vms, <2>1, UpdateAt
        <3> QED BY Zenon, <3>1, <3>2
    <2>3. Quiet(v)' /\ RowOwns(v)'
        BY Zenon, <1>3, <2>2, SameRow DEF Quiet, Active
    <2>4. TaskSync(a)'
        BY Zenon, <1>2, <2>1, <2>2 DEF TaskSync, ReadPoints, HandlePoints, Active
    <2> QED BY Zenon, <1>2, <2>1, <2>2, <2>3, <2>4, SettleStep
<1> QED BY Zenon, <1>4, <1>5

\* Only a row without a process is marked.
LEMMA ReconcileInv ==
    ASSUME IInv, [Next]_vars, NEW a \in Actors, Reconcile(a) PROVE IInv'
<1> USE TypeFacts DEF HoldsPids, HoldsPid, Points, Uncommitted, Statuses,
       dbVars, fileVars, procVars, ghostVars
<1>1. PICK v \in Vms : v = task[a].vm
    BY Zenon DEF Reconcile
<1>2. status[v] = task[a].st /\ pid[v] = task[a].cp
    BY Zenon, <1>1 DEF Reconcile, TaskSync, ReadPoints
<1>3. NoneStarts /\ UNCHANGED <<pid, overlay, proc>>
    BY Zenon, SameShims DEF Reconcile
<1>4. CASE Active(task[a].st) /\ ~PidAlive(task[a].cp)
    <2>1. status' = UpdateStatus(v, "Stopped") /\ sock' = Unlink(v)
        BY Zenon, <1>1, <1>4 DEF Reconcile
    <2>2. /\ Others(a)
          /\ \/ task'[a].pc = "idle"
             \/ /\ task'[a].pc \in {"handle", "remove_files"} /\ task'[a].vm = v
                /\ task'[a].pc = "handle" => task'[a].st = "Stopped"
        BY Zenon, <1>1, <1>4, ReconcileEffect
    <2>3. Local(a, v) /\ status'[v] = "Stopped"
        <3>1. task[a].pc # "idle"
            BY Zenon DEF Reconcile
        <3>2. Local(a, v)
            BY Zenon, <1>1, <1>3, <2>1, <2>2, <3>1, LocalWrite
        <3>3. status[v] # "none"
            BY Zenon, <1>2, <1>4 DEF Active
        <3>4. status'[v] = "Stopped"
            BY ONLY World, v \in Vms, <2>1, <3>3, UpdateAt
        <3> QED BY Zenon, <3>2, <3>4
    <2>4. Quiet(v)' /\ RowOwns(v)'
        BY Zenon, <1>2, <1>3, <1>4, <2>3, SameRow DEF Quiet, Active
    <2>5. Active(status[v]) => \A p \in Pids : p = pid[v] => ~Alive(p)'
        BY Zenon, <1>2, <1>3, <1>4 DEF PidAlive, Alive
    <2>6. TaskSync(a)'
        BY Zenon, <2>2, <2>3, <2>4 DEF TaskSync, ReadPoints, HandlePoints, Active
    <2>7. task[a].pc \notin Uncommitted /\ task'[a].pc \notin Uncommitted
        BY Zenon, <2>2 DEF Reconcile
    <2> QED BY Zenon, <1>3, <2>3, <2>4, <2>5, <2>6, <2>7, SettleStep
<1>5. CASE ~(Active(task[a].st) /\ ~PidAlive(task[a].cp))
    <2>1. status' = status /\ sock' = sock
        BY Zenon, <1>5 DEF Reconcile
    <2>2. /\ Others(a)
          /\ \/ task'[a].pc = "idle"
             \/ /\ task'[a].pc = "handle" /\ task'[a].vm = v
                /\ task'[a].st = task[a].st /\ task'[a].cp = task[a].cp
             \/ task'[a].pc = "remove_files" /\ task'[a].vm = v /\ task[a].st = "Stopped"
        BY Zenon, <1>1, <1>5, ReconcileEffect
    <2>3. Local(a, v)
        BY Zenon, <1>1, <1>3, <2>1, <2>2 DEF Local, Elsewhere, Reconcile
    <2>4. TaskSync(a)'
        <3>1. status[v] # "none"
            BY Zenon, <1>1 DEF Reconcile, TaskSync, ReadPoints
        <3> QED BY Zenon, <1>1, <1>2, <1>3, <2>1, <2>2, <3>1
                DEF TaskSync, ReadPoints, HandlePoints, Quiet, Active
    <2>5. task[a].pc \notin Uncommitted /\ task'[a].pc \notin Uncommitted
        BY Zenon, <2>2 DEF Reconcile
    <2> QED BY Zenon, <1>3, <2>1, <2>3, <2>4, <2>5, QuietStep
<1> QED BY Zenon, <1>4, <1>5

\* SIGKILL, then mark_stopped.
LEMMA KillInv ==
    ASSUME IInv, [Next]_vars, NEW a \in Actors, Kill(a) PROVE IInv'
<1>1. NoneStarts /\ \A p \in Pids : p = task[a].cp => ~Alive(p)'
    BY Zenon, TypeFacts, SignalEnds DEF Kill, MarkStopped, ghostVars
<1> QED BY Zenon, <1>1, MarkStoppedInv DEF Kill

\* SIGKILL, then mark_stopped.
LEMMA StopTimeoutInv ==
    ASSUME IInv, [Next]_vars, NEW a \in Actors, StopTimeout(a) PROVE IInv'
<1>1. NoneStarts /\ \A p \in Pids : p = task[a].cp => ~Alive(p)'
    BY Zenon, TypeFacts, SignalEnds DEF StopTimeout, MarkStopped, ghostVars
<1> QED BY Zenon, <1>1, MarkStoppedInv DEF StopTimeout

\* The guest has exited.
LEMMA StopExitedInv ==
    ASSUME IInv, [Next]_vars, NEW a \in Actors, StopExited(a) PROVE IInv'
<1>1. NoneStarts /\ \A p \in Pids : p = task[a].cp => ~Alive(p)'
    BY Zenon, TypeFacts, SameShims DEF StopExited, MarkStopped, ghostVars, Alive
<1> QED BY Zenon, <1>1, MarkStoppedInv DEF StopExited

\* The guest has exited.
LEMMA WaitExitedInv ==
    ASSUME IInv, [Next]_vars, NEW a \in Actors, WaitExited(a) PROVE IInv'
<1>1. NoneStarts /\ \A p \in Pids : p = task[a].cp => ~Alive(p)'
    BY Zenon, TypeFacts, SameShims DEF WaitExited, MarkStopped, ghostVars, Alive
<1> QED BY Zenon, <1>1, MarkStoppedInv DEF WaitExited

\* Steps that start a guest, or change who knows of one.
LEMMA StopBeginInv ==
    ASSUME IInv, [Next]_vars, NEW a \in Actors, StopBegin(a) PROVE IInv'
<1> USE TypeFacts DEF HoldsPids, HoldsPid, Points, Uncommitted, Statuses,
       dbVars, fileVars, procVars, ghostVars
<1>1. PICK v \in Vms : v = task[a].vm
    BY Zenon DEF StopBegin
<1>2. /\ Others(a) /\ task[a].pc = "handle" /\ task[a].st = "Running"
      /\ task'[a].pc = "stop_rpc" /\ task'[a].vm = v
      /\ task'[a].st = "Stopping" /\ task'[a].cp = task[a].cp
    BY Zenon, <1>1, SetStatusEffect DEF StopBegin
<1>3. /\ NoneStarts /\ UNCHANGED <<pid, overlay, sock, proc, owner, lost>>
      /\ status' = UpdateStatus(v, "Stopping")
    BY Zenon, <1>1, SameShims DEF StopBegin
<1>4. Local(a, v) /\ status'[v] = (IF status[v] = "none" THEN "none" ELSE "Stopping")
    BY Zenon, <1>1, <1>2, <1>3, LocalWrite
<1>5. /\ status[v] \in {"Running", "none"} /\ (Active(status[v]) => pid[v] = task[a].cp)
      /\ status[v] = "none" => v \notin overlay
    BY Zenon, <1>1, <1>2 DEF TaskSync, HandlePoints
<1>6. TaskSync(a)'
    BY Zenon, <1>2, <1>3, <1>4, <1>5 DEF TaskSync, ReadPoints, HandlePoints, Active
<1>7. RowOwns(v)'
    BY Zenon, <1>3, <1>4, SameRow
<1>8. ASSUME NEW p \in Pids, owner[p] = v PROVE (Known(p) /\ Listens(p))'
    <2>1. Recorded(p)' <=> Recorded(p)
        BY Zenon, <1>3, <1>4, <1>5, <1>8 DEF Recorded, Active
    <2>2. InFlight(p)' <=> InFlight(p)
        BY Zenon, <1>2 DEF InFlight, Others
    <2>3. Known(p) /\ Listens(p)
        BY Zenon DEF IInv
    <2> QED BY Zenon, <1>3, <2>1, <2>2, <2>3 DEF Known, Listens, Alive
<1> QED BY Zenon, <1>4, <1>6, <1>7, <1>8, LocalStep

\* The row is written for the shim in flight: nobody else runs the VM.
LEMMA CommitStep ==
    ASSUME IInv, DiskInv', NEW a \in Actors, NEW v \in Vms, Local(a, v), TaskSync(a)',
           task[a].pc \in Uncommitted, task'[a].pc \notin Uncommitted,
           UNCHANGED <<overlay, sock>>, status[v] \in {"Stopped", "none"},
           \/ status'[v] = "Running" /\ pid'[v] = task[a].sp
           \/ status'[v] = "none" /\ v \notin overlay /\ proc[task[a].sp] # "live"
    PROVE  IInv'
<1>1. task[a].sp \in Pids /\ proc[task[a].sp] # "none" /\ owner[task[a].sp] = v
    BY Zenon DEF IInv, DiskInv, TypeInv, HoldsPids, TaskSync, Local
<1>2. RowOwns(v)'
    BY Zenon, <1>1 DEF RowOwns, Local, NoneStarts
<1>3. ASSUME NEW p \in Pids, owner[p] = v PROVE (Known(p) /\ Listens(p))'
  <2>1. owner' = owner /\ lost' = lost /\ (Alive(p)' => proc'[p] = proc[p])
    BY Zenon DEF Local, NoneStarts, Alive
  <2>2. ~Recorded(p)
    BY Zenon, <1>3 DEF Recorded, Active
  <2>3. InFlight(p) => p = task[a].sp
    <3>1. SUFFICES ASSUME NEW b \in Actors, task[b].pc \in Uncommitted, task[b].sp = p
                   PROVE  p = task[a].sp
        BY Zenon DEF InFlight
    <3>2. task[b].vm = v
        BY Zenon, <1>3, <3>1 DEF IInv, TaskSync
    <3>3. b = a
        BY Zenon, <3>1, <3>2 DEF IInv, OneTaskPerVm, Local, Uncommitted
    <3> QED BY Zenon, <3>1, <3>3
  <2>4. ~InFlight(p)'
    <3>1. SUFFICES ASSUME NEW b \in Actors, task'[b].pc \in Uncommitted, task'[b].sp = p
                   PROVE  FALSE
        BY Zenon DEF InFlight
    <3>2. b # a /\ task[b] = task'[b]
        BY Zenon, <3>1 DEF Local, Others
    <3>3. task[b].pc \in Uncommitted /\ task[b].pc # "idle" /\ task[b].vm = v
        BY Zenon, <1>3, <3>1, <3>2 DEF IInv, TaskSync, Uncommitted
    <3> QED BY Zenon, <3>2, <3>3 DEF IInv, OneTaskPerVm, Local
  <2>5. Known(p) /\ Listens(p)
    BY Zenon DEF IInv
  <2>6. CASE status'[v] = "Running" /\ pid'[v] = task[a].sp
    <3>1. Recorded(p)' <=> p = task[a].sp
        BY Zenon, <1>3, <2>1, <2>6 DEF Recorded, Active
    <3>2. Known(p)'
        BY Zenon, <2>1, <2>2, <2>3, <2>5, <3>1 DEF Known, Alive
    <3>3. p = task[a].sp => InFlight(p)
        BY Zenon DEF InFlight
    <3>4. Listens(p)'
        BY Zenon, <2>1, <2>4, <2>5, <3>1, <3>3 DEF Listens, Alive
    <3> QED BY Zenon, <3>2, <3>4
  <2>7. CASE status'[v] = "none" /\ v \notin overlay /\ proc[task[a].sp] # "live"
    <3>1. ~Recorded(p)'
        BY Zenon, <1>3, <2>1, <2>7 DEF Recorded, Active
    <3>2. InFlight(p) /\ Alive(p) => proc[p] = "booting"
        BY Zenon, <2>3, <2>7 DEF Alive
    <3>3. Known(p)'
        BY Zenon, <1>3, <2>1, <2>2, <2>5, <2>7, <3>2 DEF Known, Alive
    <3> QED BY Zenon, <2>4, <3>1, <3>3 DEF Listens
  <2> QED BY Zenon, <2>6, <2>7
<1> QED BY Zenon, <1>2, <1>3, LocalStep

\* INSERT commits the shim the create has spawned.
LEMMA CreateInsertInv ==
    ASSUME IInv, [Next]_vars, NEW a \in Actors, CreateInsert(a) PROVE IInv'
<1> USE TypeFacts DEF HoldsPids, HoldsPid, Points, Uncommitted, Statuses,
       dbVars, fileVars, procVars, ghostVars
<1>1. PICK v \in Vms : v = task[a].vm
    BY Zenon DEF CreateInsert
<1>2. /\ Others(a) /\ task[a].pc = "create_insert" /\ task'[a].pc = "create_ready"
      /\ task'[a].vm = v /\ task'[a].st = "Running" /\ task'[a].cp = task[a].sp
    BY Zenon, <1>1, RunningEffect DEF CreateInsert
<1>3. /\ NoneStarts /\ UNCHANGED <<overlay, sock>>
      /\ status' = [status EXCEPT ![v] = "Running"] /\ pid' = [pid EXCEPT ![v] = task[a].sp]
    BY Zenon, <1>1, SameShims DEF CreateInsert
<1>4. Local(a, v) /\ status'[v] = "Running" /\ pid'[v] = task[a].sp
    BY Zenon, <1>1, <1>2, <1>3 DEF Local, Elsewhere, World
<1>5. status[v] = "none"
    BY Zenon, <1>1, <1>2 DEF DiskTask, Creating
<1>6. TaskSync(a)'
    BY Zenon, <1>2, <1>4 DEF TaskSync, ReadPoints, HandlePoints, Active
<1> QED BY Zenon, <1>2, <1>3, <1>4, <1>5, <1>6, CommitStep

\* update_pid_status commits the shim the start has spawned.
LEMMA StartCommitInv ==
    ASSUME IInv, [Next]_vars, NEW a \in Actors, StartCommit(a) PROVE IInv'
<1> USE TypeFacts DEF HoldsPids, HoldsPid, Points, Uncommitted, Statuses,
       dbVars, fileVars, procVars, ghostVars
<1>1. PICK v \in Vms : v = task[a].vm
    BY Zenon DEF StartCommit
<1>2. /\ Others(a) /\ task[a].pc = "start_commit" /\ task'[a].pc = "start_ready"
      /\ task'[a].vm = v /\ task'[a].st = "Running" /\ task'[a].cp = task[a].sp
    BY Zenon, <1>1, RunningEffect DEF StartCommit
<1>3. /\ NoneStarts /\ UNCHANGED <<overlay, sock>>
      /\ status' = UpdateStatus(v, "Running") /\ pid' = UpdatePid(v, task[a].sp)
    BY Zenon, <1>1, SignalEnds DEF StartCommit
<1>4. /\ Local(a, v) /\ status'[v] = (IF status[v] = "none" THEN "none" ELSE "Running")
      /\ status[v] # "none" => pid'[v] = task[a].sp
    <2>1. Local(a, v)
        BY Zenon, <1>1, <1>2, <1>3, LocalWrite
    <2>2. status'[v] = (IF status[v] = "none" THEN "none" ELSE "Running")
        BY ONLY World, v \in Vms, <1>3, UpdateAt
    <2>3. status[v] # "none" => pid'[v] = task[a].sp
        BY ONLY Zenon, World, v \in Vms, <1>3, UpdateAt
    <2> QED BY Zenon, <2>1, <2>2, <2>3
<1>5. /\ status[v] \in {"Stopped", "none"}
      /\ status[v] = "none" => v \notin overlay /\ proc[task[a].sp] # "live"
    BY Zenon, <1>1, <1>2 DEF TaskSync, HandlePoints
<1>6. TaskSync(a)'
    BY Zenon, <1>2, <1>3, <1>4, <1>5 DEF TaskSync, ReadPoints, HandlePoints, Active
<1> QED BY Zenon, <1>2, <1>3, <1>4, <1>5, <1>6, CommitStep

\* Tasks that do not change and hold other VMs stay in sync.
LEMMA SameTasks ==
    ASSUME OneTaskPerVm, NEW a \in Actors, Others(a),
           task[a].pc # "idle", task'[a].vm = task[a].vm
    PROVE  OneTaskPerVm'
BY DEF OneTaskPerVm, Others

\* A new task on a VM that no other task works on.
LEMMA ClaimStep ==
    ASSUME IInv, DiskInv', NEW a \in Actors, NEW v \in Vms, ~Claimed(v), Others(a),
           task[a].pc = "idle", task'[a].vm = v, task'[a].pc \notin Uncommitted, TaskSync(a)',
           UNCHANGED <<status, pid, sock, proc, owner, lost>>, used \subseteq used',
           overlay' = overlay \/ (overlay' = overlay \union {v} /\ v \notin used)
    PROVE  IInv'
<1>1. OneTaskPerVm'
    <2>1. SUFFICES ASSUME NEW b \in Actors, NEW c \in Actors, task'[b].pc # "idle",
                          task'[c].pc # "idle", task'[b].vm = task'[c].vm
                   PROVE  b = c
        BY Zenon DEF OneTaskPerVm
    <2>2. \A d \in Actors \ {a} : task'[d] = task[d] /\ ~(task[d].pc # "idle" /\ task[d].vm = v)
        BY Zenon DEF Others, Claimed
    <2> QED BY <2>1, <2>2 DEF IInv, OneTaskPerVm
<1>2. OwnersUsed'
    BY Zenon DEF IInv, OwnersUsed
<1>3. \A w \in Vms : RowOwns(w)'
    BY Zenon DEF IInv, RowOwns
<1>4. ASSUME NEW b \in Actors \ {a} PROVE TaskSync(b)'
    <2>1. task'[b] = task[b] /\ TaskSync(b)
        BY Zenon DEF Others, IInv
    <2>2. task[b].pc # "idle" => task[b].vm # v /\ task[b].vm \in used
        BY Zenon DEF Claimed, IInv, DiskInv, DiskTask
    <2> QED BY Zenon, <2>1, <2>2 DEF TaskSync, Quiet, Alive, HandlePoints, ReadPoints, Uncommitted
<1>5. ASSUME NEW p \in Pids PROVE (Known(p) /\ Listens(p))'
    <2>1. InFlight(p)' <=> InFlight(p)
        BY Zenon DEF InFlight, Others, Uncommitted
    <2>2. Recorded(p)' <=> Recorded(p)
        BY Zenon DEF Recorded
    <2>3. Known(p) /\ Listens(p) /\ (proc[p] # "none" => owner[p] \in used)
        BY Zenon DEF IInv, OwnersUsed
    <2> QED BY Zenon, <2>1, <2>2, <2>3 DEF Known, Listens, Alive
<1> QED BY Zenon, <1>1, <1>2, <1>3, <1>4, <1>5 DEF IInv

\* A create takes a fresh id, which no shim, row or task knows.
LEMMA CreateOverlayInv ==
    ASSUME IInv, [Next]_vars, NEW a \in Actors, NEW v \in Vms, CreateOverlay(a, v) PROVE IInv'
<1> USE TypeFacts DEF HoldsPids, HoldsPid, Points, Uncommitted, Statuses,
       dbVars, fileVars, procVars, ghostVars
<1>1. Others(a) /\ task'[a].pc = "create_spawn" /\ task'[a].vm = v
    BY Zenon, CreateTaskEffect DEF CreateOverlay
<1>2. ~Claimed(v)
    BY Zenon DEF CreateOverlay, Claimed, DiskTask
<1>3. TaskSync(a)'
    BY Zenon, <1>1 DEF TaskSync, ReadPoints, HandlePoints
<1> QED BY Zenon, <1>1, <1>2, <1>3, ClaimStep DEF CreateOverlay

\* A row is copied by the one task on its VM.
LEMMA ReadRowInv ==
    ASSUME IInv, [Next]_vars, NEW a \in Actors, NEW v \in Vms, NEW purpose \in ReadPoints,
           ReadRow(a, v, purpose), Exclusive
    PROVE  IInv'
<1>1. /\ Others(a) /\ task'[a].pc = purpose /\ task'[a].vm = v
      /\ task'[a].st = status[v] /\ task'[a].cp = pid[v]
    <2>1. TasksTyped /\ World
        BY Zenon, TypeFacts
    <2>2. purpose \in Points
        BY Zenon DEF ReadPoints, Points
    <2>3. status[v] \in Statuses \union {"none"} /\ pid[v] \in Pids \union {NoPid}
        BY Zenon, <2>1 DEF World
    <2> QED BY <2>1, <2>2, <2>3, ReadRowEffect
<1> USE TypeFacts DEF HoldsPids, HoldsPid, Points, Uncommitted, Statuses,
       dbVars, fileVars, procVars, ghostVars
<1>2. ~Claimed(v)
    BY Zenon DEF ReadRow
<1>3. TaskSync(a)'
    BY Zenon, <1>1 DEF TaskSync, ReadPoints, HandlePoints, ReadRow
<1> QED BY Zenon, <1>1, <1>2, <1>3, ClaimStep DEF ReadRow, ReadPoints

\* spawn_shim unlinks the socket only of a VM without a guest.
LEMMA SpawnShimInv ==
    ASSUME IInv, [Next]_vars, NEW a \in Actors, NEW p \in Pids, SpawnShim(a, p) PROVE IInv'
<1> USE TypeFacts DEF HoldsPids, HoldsPid, Points, Uncommitted, Statuses,
       dbVars, fileVars, procVars, ghostVars
<1>1. PICK v \in Vms : v = task[a].vm
    BY Zenon DEF SpawnShim
<1>2. /\ Others(a) /\ task'[a].vm = v /\ task'[a].sp = p
      /\ task'[a].st = task[a].st /\ task'[a].cp = task[a].cp
      /\ task[a].pc = "create_spawn" => task'[a].pc = "create_insert"
      /\ task[a].pc = "start_spawn" => task'[a].pc = "start_commit"
    BY Zenon, <1>1, SpawnShimEffect
<1>3. /\ task[a].pc \in {"create_spawn", "start_spawn"} /\ proc[p] = "none"
      /\ UNCHANGED <<status, pid, overlay, lost, used>> /\ sock' = Unlink(v)
    BY Zenon, <1>1 DEF SpawnShim
<1>4. /\ proc'[p] = "booting" /\ owner'[p] = v
      /\ \A q \in Pids \ {p} : proc'[q] = proc[q] /\ owner'[q] = owner[q]
    BY <1>1 DEF SpawnShim, World
<1>5. status[v] \in {"Stopped", "none"} /\ v \in used
    BY Zenon, <1>1, <1>3 DEF TaskSync, HandlePoints, DiskTask, Creating
<1>6. OneTaskPerVm'
    <2>1. OneTaskPerVm /\ task[a].pc # "idle" /\ task'[a].vm = task[a].vm
        BY Zenon, <1>1, <1>2, <1>3 DEF IInv
    <2> QED BY Zenon, <1>2, <2>1, SameTasks
<1>7. OwnersUsed'
    BY Zenon, <1>3, <1>4, <1>5 DEF IInv, OwnersUsed
<1>8. \A w \in Vms : RowOwns(w)' /\ (status[w] # "none" => pid[w] \in Pids \ {p})
    BY Zenon, <1>3, <1>4 DEF IInv, RowOwns, World
<1>9. TaskSync(a)'
    BY Zenon, <1>1, <1>2, <1>3, <1>4, <1>5 DEF TaskSync, ReadPoints, HandlePoints, Active
<1>10. ASSUME NEW b \in Actors \ {a} PROVE TaskSync(b)'
    <2>1. task'[b] = task[b] /\ TaskSync(b)
        BY Zenon, <1>2 DEF Others
    <2>2. task[b].pc \in Uncommitted => task[b].sp \in Pids \ {p}
        BY Zenon, <1>3, <2>1 DEF TaskSync
    <2>3. task[b].pc # "idle" => task[b].vm \in Vms
        BY Zenon
    <2>4. ASSUME task[b].pc # "idle", Quiet(task[b].vm) PROVE Quiet(task[b].vm)'
        BY Zenon, <1>3, <1>4, <1>8, <2>1, <2>3, <2>4 DEF Quiet, Alive, Active
    <2> QED BY ZenonT(40), <1>3, <1>4, <2>1, <2>2, <2>4 DEF TaskSync, ReadPoints, HandlePoints
<1>11. ASSUME NEW q \in Pids PROVE (Known(q) /\ Listens(q))'
  <2>1. CASE q = p
    <3>1. InFlight(q)'
        BY Zenon, <1>2, <1>3, <2>1 DEF InFlight
    <3> QED BY Zenon, <1>4, <2>1, <3>1 DEF Known, Listens
  <2>2. CASE q # p
    <3>1. proc'[q] = proc[q] /\ owner'[q] = owner[q]
        BY Zenon, <1>4, <2>2
    <3>2. Recorded(q)' <=> Recorded(q)
        BY Zenon, <1>3, <3>1 DEF Recorded
    <3>3. InFlight(q)' <=> InFlight(q)
        BY Zenon, <1>2, <1>3, <2>2 DEF InFlight, Others
    <3>4. Known(q) /\ Listens(q)
        BY Zenon DEF IInv
    <3>5. proc[q] = "live" /\ (Recorded(q) \/ InFlight(q)) => owner[q] \in Vms \ {v}
        <4>1. proc[q] = "live" => owner[q] \in Vms
            BY Zenon, UsedVms DEF IInv, OwnersUsed
        <4>2. Recorded(q) => owner[q] # v
            BY Zenon, <1>5 DEF Recorded, Active
        <4>3. ASSUME NEW b \in Actors, task[b].pc \in Uncommitted, task[b].sp = q, owner[q] = v
              PROVE  FALSE
            <5>1. task[b].vm = v
                BY Zenon, <4>3 DEF TaskSync
            <5> QED BY Zenon, <1>1, <1>3, <4>3, <5>1 DEF IInv, OneTaskPerVm
        <4> QED BY Zenon, <4>1, <4>2, <4>3 DEF InFlight
    <3>6. \A w \in Vms \ {v} : sock'[w] = sock[w]
        BY Zenon, <1>3, UpdateAt
    <3> QED BY Zenon, <1>3, <3>1, <3>2, <3>3, <3>4, <3>5, <3>6 DEF Known, Listens, Alive
  <2> QED BY Zenon, <2>1, <2>2
<1> QED BY Zenon, <1>6, <1>7, <1>8, <1>9, <1>10, <1>11 DEF IInv

\* Steps of the shims and of the runtime process.
LEMMA ShimBootsInv ==
    ASSUME IInv, [Next]_vars, NEW p \in Pids, ShimBoots(p) PROVE IInv'
<1> USE TypeFacts DEF HoldsPids, HoldsPid, Points, Uncommitted, Statuses,
       dbVars, fileVars, procVars, ghostVars
<1>1. PICK v \in Vms : v = owner[p]
    BY Zenon, UsedVms DEF ShimBoots, IInv, OwnersUsed
<1>2. /\ proc[p] = "booting" /\ v \in overlay /\ sock[v] = NoPid
      /\ UNCHANGED <<status, pid, overlay, owner, task, lost, used>>
      /\ proc'[p] = "live" /\ \A q \in Pids \ {p} : proc'[q] = proc[q]
      /\ sock'[v] = p /\ \A w \in Vms \ {v} : sock'[w] = sock[w]
    BY <1>1 DEF ShimBoots, World
<1>3. OneTaskPerVm' /\ OwnersUsed'
    BY Zenon, <1>2 DEF IInv, OneTaskPerVm, OwnersUsed
<1>4. ASSUME NEW w \in Vms PROVE RowOwns(w)' /\ (Quiet(w) => Quiet(w)')
    <2>1. status[w] # "none" => pid[w] \in Pids
        BY Zenon DEF World
    <2> QED BY Zenon, <1>2, <2>1 DEF IInv, RowOwns, Quiet, Alive, Active
<1>5. ASSUME NEW a \in Actors PROVE TaskSync(a)'
    <2>1. TaskSync(a) /\ task' = task
        BY Zenon, <1>2
    <2>2. task[a].pc # "idle" => task[a].vm \in Vms
        BY Zenon
    <2>3. task[a].pc \in Uncommitted => task[a].sp \in Pids
        BY Zenon
    <2>4. ASSUME task[a].pc = "start_commit", status[task[a].vm] = "none"
          PROVE  proc'[task[a].sp] # "live"
        <3>1. /\ task[a].sp \in Pids /\ task[a].vm \in Vms
              /\ owner[task[a].sp] = task[a].vm /\ task[a].vm \notin overlay
              /\ proc[task[a].sp] # "live"
            BY Zenon, <2>1, <2>3, <2>4 DEF TaskSync, HandlePoints
        <3> QED BY Zenon, <1>1, <1>2, <3>1
    <2>5. task[a].pc \in Uncommitted => /\ proc'[task[a].sp] # "none"
                                         /\ owner'[task[a].sp] = task[a].vm
        BY Zenon, <1>2, <2>1, <2>3 DEF TaskSync
    <2>6. task[a].pc # "idle" /\ Quiet(task[a].vm) => Quiet(task[a].vm)'
        BY Zenon, <1>2, <1>4, <2>1, <2>2
    <2> QED BY Zenon, <1>2, <2>1, <2>4, <2>5, <2>6 DEF TaskSync, ReadPoints, HandlePoints
<1>6. ASSUME NEW q \in Pids PROVE (Known(q) /\ Listens(q))'
    <2>1. (Recorded(q)' <=> Recorded(q)) /\ (InFlight(q)' <=> InFlight(q))
        BY Zenon, <1>2 DEF Recorded, InFlight
    <2>2. Known(q) /\ Listens(q)
        BY Zenon DEF IInv
    <2>3. CASE q = p
        BY Zenon, <1>1, <1>2, <2>1, <2>2, <2>3 DEF Known, Listens, Alive
    <2>4. CASE q # p
        <3>1. proc'[q] = proc[q] /\ owner'[q] = owner[q] /\ lost' = lost /\ overlay' = overlay
            BY Zenon, <1>2, <2>4
        <3>2. proc[q] = "live" => owner[q] \in Vms
            BY Zenon, UsedVms DEF IInv, OwnersUsed
        <3>3. proc[q] = "live" /\ (Recorded(q) \/ InFlight(q)) => owner[q] # v
            BY Zenon, <1>2, <2>2, NoneAssumption DEF Listens
        <3> QED BY Zenon, <1>2, <2>1, <2>2, <3>1, <3>2, <3>3 DEF Known, Listens, Alive
    <2> QED BY Zenon, <2>3, <2>4
<1> QED BY Zenon, <1>3, <1>4, <1>5, <1>6 DEF IInv

\* Shims come to their end and nothing else happens to rows or tasks; a
\* socket may go whose VM has no row and no task.
LEMMA EndsStep ==
    ASSUME IInv, DiskInv', NoneStarts, UNCHANGED <<status, pid, overlay, task>>,
           \A v \in Vms : sock'[v] = sock[v] \/ (status[v] = "none" /\ ~Claimed(v))
    PROVE  IInv'
<1>1. OneTaskPerVm' /\ OwnersUsed'
    BY Zenon DEF IInv, OneTaskPerVm, OwnersUsed, NoneStarts
<1>2. ASSUME NEW w \in Vms PROVE RowOwns(w)' /\ (Quiet(w) => Quiet(w)')
    <2>1. status[w] # "none" => pid[w] \in Pids
        BY Zenon DEF IInv, DiskInv, TypeInv, World
    <2> QED BY Zenon, <2>1 DEF IInv, RowOwns, Quiet, Alive, Active, NoneStarts
<1>3. ASSUME NEW a \in Actors PROVE TaskSync(a)'
    <2>1. /\ TaskSync(a) /\ (task[a].pc # "idle" => task[a].vm \in Vms)
          /\ task[a].pc \in Uncommitted => task[a].sp \in Pids
        BY Zenon DEF IInv, DiskInv, TypeInv, HoldsPids
    <2>2. task[a].pc \in Uncommitted =>
              /\ proc'[task[a].sp] # "none" /\ owner' = owner
              /\ proc'[task[a].sp] = "live" => proc[task[a].sp] = "live"
        BY Zenon, <2>1 DEF TaskSync, NoneStarts
    <2> QED BY Zenon, <1>2, <2>1, <2>2 DEF TaskSync, ReadPoints, HandlePoints, Uncommitted
<1>4. ASSUME NEW q \in Pids PROVE (Known(q) /\ Listens(q))'
    <2>1. (Recorded(q)' <=> Recorded(q)) /\ (InFlight(q)' <=> InFlight(q))
        BY Zenon DEF Recorded, InFlight, NoneStarts
    <2>2. Known(q) /\ Listens(q) /\ owner' = owner /\ lost' = lost
        BY Zenon DEF IInv, NoneStarts
    <2>3. proc'[q] = proc[q] \/ proc'[q] \in {"killed", "zombie", "gone"}
        BY Zenon DEF NoneStarts
    <2>4. ASSUME proc[q] = "live", Recorded(q) \/ InFlight(q) PROVE sock'[owner[q]] = sock[owner[q]]
        <3>1. owner[q] \in Vms
            BY Zenon, <2>4, UsedVms DEF IInv, OwnersUsed
        <3>2. InFlight(q) => Claimed(owner[q])
            BY ZenonT(40) DEF InFlight, Claimed, IInv, TaskSync, Uncommitted
        <3>3. Recorded(q) => status[owner[q]] # "none"
            BY Zenon DEF Recorded, Active
        <3> QED BY Zenon, <2>4, <3>1, <3>2, <3>3
    <2> QED BY Zenon, <2>1, <2>2, <2>3, <2>4 DEF Known, Listens, Alive
<1> QED BY Zenon, <1>1, <1>2, <1>3, <1>4 DEF IInv

\* Booting, exiting and reaping keep IInv.
LEMMA ShimStepInv ==
    ASSUME IInv, [Next]_vars, NEW p \in Pids, ShimStep(p) PROVE IInv'
<1> USE TypeFacts DEF dbVars, fileVars, procVars, ghostVars
<1>1. CASE ShimBoots(p)
    BY Zenon, <1>1, ShimBootsInv
<1>2. CASE ShimExits(p)
    <2>1. NoneStarts
        BY Zenon, <1>2 DEF ShimExits, NoneStarts, World
    <2> QED BY Zenon, <1>2, <2>1, EndsStep DEF ShimExits
<1>3. CASE Reap(p)
    <2>1. NoneStarts
        BY Zenon, <1>3 DEF Reap, NoneStarts, World
    <2> QED BY Zenon, <1>3, <2>1, EndsStep DEF Reap
<1> QED BY Zenon, <1>1, <1>2, <1>3 DEF ShimStep

\* A guest adrift binds a path that no guest known to the runtime holds.
LEMMA AdriftStepInv ==
    ASSUME IInv, [Next]_vars, NEW p \in Pids, AdriftStep(p) PROVE IInv'
<1> USE TypeFacts DEF dbVars, fileVars, procVars, ghostVars
<1>1. CASE AdriftExits(p)
    BY Zenon, <1>1, SameShims, EndsStep DEF AdriftExits
<1>2. CASE AdriftBoots(p)
    <2>1. /\ UNCHANGED <<status, pid, overlay, proc, owner, task, lost, used>>
          /\ sock[owner[p]] = NoPid
          /\ \A v \in Vms \ {owner[p]} : sock'[v] = sock[v]
        BY Zenon, <1>2 DEF AdriftBoots, World
    <2>2. OneTaskPerVm' /\ OwnersUsed' /\ \A v \in Vms : RowOwns(v)'
        BY Zenon, <2>1 DEF IInv, OneTaskPerVm, OwnersUsed, RowOwns
    <2>3. ASSUME NEW a \in Actors PROVE TaskSync(a)'
        BY Zenon, <2>1 DEF IInv, TaskSync, Quiet, Alive, Active
    <2>4. ASSUME NEW q \in Pids PROVE (Known(q) /\ Listens(q))'
        <3>1. (Recorded(q)' <=> Recorded(q)) /\ (InFlight(q)' <=> InFlight(q))
            BY Zenon, <2>1 DEF Recorded, InFlight
        <3>2. Known(q) /\ Listens(q)
            BY Zenon DEF IInv
        <3>3. proc[q] = "live" => owner[q] \in Vms
            BY Zenon, UsedVms DEF IInv, OwnersUsed
        <3> QED BY Zenon, <2>1, <3>1, <3>2, <3>3, NoneAssumption DEF Known, Listens, Alive
    <2> QED BY Zenon, <2>2, <2>3, <2>4 DEF IInv
<1> QED BY Zenon, <1>1, <1>2 DEF AdriftStep

\* The runtime process ends, having marked at most the rows of shims that
\* end with it.
LEMMA ProcessEndsStep ==
    ASSUME IInv, DiskInv', ProcessEnds,
           \A p \in Pids : InFlight(p) => p \in lost', lost \subseteq lost',
           \A v \in Vms : \/ status'[v] = status[v]
                          \/ /\ status[v] # "none" /\ status'[v] = "Stopped"
                             /\ \A p \in Pids : p = pid[v] => ~Alive(p)'
    PROVE  IInv'
<1> USE DEF fileVars
<1>1. \A a \in Actors : task'[a].pc = "idle" /\ TaskSync(a)'
    BY Zenon DEF ProcessEnds, Idle, TaskSync, ReadPoints, HandlePoints, Uncommitted
<1>2. /\ UNCHANGED <<pid, overlay, sock, owner, used>>
      /\ \A p \in Pids : \/ proc'[p] = proc[p]
                         \/ proc[p] # "none" /\ proc'[p] \in {"killed", "gone"}
    BY Zenon DEF ProcessEnds, AfterExit
<1>3. OneTaskPerVm' /\ OwnersUsed'
    BY Zenon, <1>1, <1>2 DEF IInv, OneTaskPerVm, OwnersUsed
<1>4. ASSUME NEW v \in Vms PROVE RowOwns(v)'
    <2>1. status[v] # "none" => pid[v] \in Pids
        BY Zenon DEF IInv, DiskInv, TypeInv, World
    <2> QED BY Zenon, <1>2, <2>1 DEF IInv, RowOwns
<1>5. ASSUME NEW q \in Pids PROVE (Known(q) /\ Listens(q))'
    <2>1. /\ Known(q) /\ Listens(q) /\ (Alive(q)' => proc'[q] = proc[q])
          /\ Alive(q) => owner[q] \in Vms
        BY Zenon, <1>2, UsedVms DEF IInv, OwnersUsed, Alive
    <2>2. ~InFlight(q)'
        BY Zenon, <1>1 DEF InFlight, Uncommitted
    <2>3. Recorded(q)' /\ Alive(q)' => Recorded(q)
        BY Zenon, <1>2, <2>1 DEF Recorded, Active, Alive
    <2>4. Recorded(q) /\ Alive(q)' => Recorded(q)'
        BY Zenon, <1>2, <2>1 DEF Recorded, Active, Alive
    <2> QED BY Zenon, <1>2, <2>1, <2>2, <2>3, <2>4 DEF Known, Listens, Alive
<1> QED BY Zenon, <1>1, <1>3, <1>4, <1>5 DEF IInv

\* Crash, shutdown, open and the end of recovery keep IInv.
LEMMA RuntimeStepInv ==
    ASSUME IInv, [Next]_vars, RuntimeStep PROVE IInv'
<1> USE TypeFacts DEF dbVars, fileVars, procVars, ghostVars
<1>1. CASE Crash
    <2>1. \A p \in Pids : InFlight(p) => p \in lost'
        BY Zenon, <1>1 DEF Crash, InFlight
    <2> QED BY Zenon, <1>1, <2>1, ProcessEndsStep DEF Crash
<1>2. CASE Shutdown
    <2>1. \A p \in Pids : ~InFlight(p)
        BY Zenon, <1>2 DEF Shutdown, InFlight, Uncommitted
    <2>2. ASSUME NEW v \in Vms, status'[v] # status[v]
          PROVE  /\ status[v] # "none" /\ status'[v] = "Stopped"
                 /\ \A p \in Pids : p = pid[v] => ~Alive(p)'
        <3>1. Active(status[v]) /\ v \notin Detach /\ status'[v] = "Stopped"
            BY Zenon, <1>2, <2>2 DEF Shutdown, World
        <3>2. pid[v] \in Pids /\ owner[pid[v]] = v
            BY Zenon, <3>1 DEF World, Active, IInv, RowOwns
        <3>3. proc'[pid[v]] = AfterExit(pid[v])
            BY Zenon, <1>2, <3>2 DEF Shutdown, ProcessEnds
        <3> QED BY Zenon, <3>1, <3>2, <3>3 DEF AfterExit, Alive, Active
    <2> QED BY Zenon, <1>2, <2>1, <2>2, ProcessEndsStep DEF Shutdown
<1>3. CASE Open
    BY Zenon, <1>3, SameShims, EndsStep DEF Open
<1>4. CASE RecoverDone
    <2>1. \A v \in Vms : sock'[v] = sock[v] \/ (status[v] = "none" /\ ~Claimed(v))
        BY Zenon, <1>4 DEF RecoverDone, Claimed
    <2> QED BY Zenon, <1>4, <2>1, SameShims, EndsStep DEF RecoverDone
<1> QED BY Zenon, <1>1, <1>2, <1>3, <1>4 DEF RuntimeStep

\* Every step keeps IInv while tasks on one VM do not overlap.
LEMMA IInvNext == ASSUME Exclusive, IInv, [Next]_vars PROVE IInv'
<1>1. ASSUME NEW a \in Actors, CreateStep(a) PROVE IInv'
    BY Zenon, <1>1, CreateOverlayInv, SpawnShimInv, CreateSpawnFailsInv, CreateInsertInv,
       CreateInsertFailsInv, CreateUnreadyInv, CreateReadyInv DEF CreateStep
<1>2. ASSUME NEW a \in Actors, RowStep(a) PROVE IInv'
    <2>1. ASSUME NEW v \in Vms, NEW purpose \in Purposes, Read(a, v, purpose) PROVE IInv'
        BY Zenon, <2>1, ReadRowInv DEF Read, Purposes, ReadPoints
    <2>2. ASSUME NEW v \in Vms, RecoverRead(a, v) PROVE IInv'
        BY Zenon, <2>2, ReadRowInv DEF RecoverRead, ReadPoints
    <2> QED BY Zenon, <1>2, <2>1, <2>2, ReconcileInv, RemoveStoredInv, DeleteRowInv,
               SweepTerminateInv, SweepMarkInv, SweepStoppedInv DEF RowStep
<1>3. ASSUME NEW a \in Actors, HandleStep(a) PROVE IInv'
    BY Zenon, <1>3, StartBeginInv, StartSpawnFailsInv, StartCommitInv, StartCommitFailsInv,
       StartReadyInv, MarkDeleteInv, KillInv, StopBeginInv, StopReplyInv, StopRpcBrokenInv,
       StopExitedInv, StopTimeoutInv, WaitBeginInv, WaitExitedInv, DropInv DEF HandleStep
<1>4. CASE UNCHANGED vars
    BY Zenon, <1>4, TypeFacts, SameShims, EndsStep
       DEF vars, dbVars, fileVars, procVars, ghostVars
<1> QED BY Zenon, <1>1, <1>2, <1>3, <1>4, ShimStepInv, AdriftStepInv,
        RuntimeStepInv DEF Next

-----------------------------------------------------------------------------
(* The theorems.                                                           *)

\* IInv and DriftInv imply the three safety invariants.
LEMMA IInvSafe == IInv /\ DriftInv => NoStrayShim /\ OneWriter /\ Reachable
<1> SUFFICES ASSUME IInv, DriftInv PROVE NoStrayShim /\ OneWriter /\ Reachable
    BY Zenon
<1>1. ASSUME NEW p \in Pids, proc[p] = "live"
      PROVE  /\ Recorded(p) \/ InFlight(p) \/ p \in lost
             /\ Recorded(p) => sock[owner[p]] = p
    BY Zenon, <1>1 DEF IInv, Known, Listens, Alive
<1>2. ASSUME NEW p \in Pids, NEW q \in Pids, proc[p] = "live", proc[q] = "live",
             owner[p] = owner[q], p \notin lost, q \notin lost
      PROVE  p = q
  <2>1. (Recorded(p) \/ InFlight(p)) /\ (Recorded(q) \/ InFlight(q))
    BY Zenon, <1>1, <1>2
  <2>2. ASSUME NEW x \in Pids, InFlight(x) PROVE ~Active(status[owner[x]])
    <3>1. PICK a \in Actors : task[a].pc \in Uncommitted /\ task[a].sp = x
        BY Zenon, <2>2 DEF InFlight
    <3>2. TaskSync(a) /\ DiskTask(a)
        BY Zenon DEF IInv, DiskInv
    <3> QED BY Zenon, <3>1, <3>2 DEF TaskSync, DiskTask, Creating, Uncommitted, HandlePoints, Active
  <2>3. CASE InFlight(p) /\ InFlight(q)
    <3>1. PICK a \in Actors : task[a].pc \in Uncommitted /\ task[a].sp = p
        BY Zenon, <2>3 DEF InFlight
    <3>2. PICK b \in Actors : task[b].pc \in Uncommitted /\ task[b].sp = q
        BY Zenon, <2>3 DEF InFlight
    <3>3. task[a].vm = owner[p] /\ task[b].vm = owner[q]
        BY Zenon, <3>1, <3>2 DEF IInv, TaskSync
    <3> QED BY Zenon, <1>2, <3>1, <3>2, <3>3 DEF IInv, OneTaskPerVm, Uncommitted
  <2> QED BY Zenon, <1>2, <2>1, <2>2, <2>3 DEF Recorded
<1>3. NoStrayShim
    BY Zenon, <1>1, InReach DEF NoStrayShim, OutOfReach
<1>4. OneWriter
    BY Zenon, <1>2, InReach DEF OneWriter
<1> QED BY Zenon, <1>1, <1>3, <1>4 DEF Reachable

\* Both are inductive while tasks on one VM do not overlap.
LEMMA SafeNext == ASSUME Exclusive, IInv, DriftInv, [Next]_vars PROVE IInv' /\ DriftInv'
<1>1. TypeInv
    BY Zenon DEF IInv, DiskInv
<1> QED BY Zenon, <1>1, IInvNext, DriftNext

\* When no two tasks work on one VM at a time, every guest that runs is the
\* pid of an active row or about to become it, was lost in a crash between
\* spawn_shim and the row write, or is one of a detached VM under bubblewrap
\* that outlived the signal.
THEOREM NoShimIsStray == Exclusive => (Spec => []NoStrayShim)
<1> SUFFICES ASSUME Exclusive PROVE Spec => []NoStrayShim
    BY Zenon
<1>1. IInv /\ DriftInv /\ [Next]_vars => IInv' /\ DriftInv'
    BY Zenon, SafeNext
<1>2. IInv /\ DriftInv => NoStrayShim
    BY Zenon, IInvSafe
<1> QED BY IInvInit, DriftInit, <1>1, <1>2, PTL DEF Spec

\* ... and no two guests but such ones write one qcow2 overlay.
THEOREM DiskHasOneWriter == Exclusive => (Spec => []OneWriter)
<1> SUFFICES ASSUME Exclusive PROVE Spec => []OneWriter
    BY Zenon
<1>1. IInv /\ DriftInv /\ [Next]_vars => IInv' /\ DriftInv'
    BY Zenon, SafeNext
<1>2. IInv /\ DriftInv => OneWriter
    BY Zenon, IInvSafe
<1> QED BY IInvInit, DriftInit, <1>1, <1>2, PTL DEF Spec

\* ... and a guest that an active row names listens at the socket path.
THEOREM GuestsReachable == Exclusive => (Spec => []Reachable)
<1> SUFFICES ASSUME Exclusive PROVE Spec => []Reachable
    BY Zenon
<1>1. IInv /\ DriftInv /\ [Next]_vars => IInv' /\ DriftInv'
    BY Zenon, SafeNext
<1>2. IInv /\ DriftInv => Reachable
    BY Zenon, IInvSafe
<1> QED BY IInvInit, DriftInit, <1>1, <1>2, PTL DEF Spec

\* A row changes its status as can_transition_to has it.
RowMoves ==
    \A v \in Vms : status[v] # "none" /\ status'[v] \notin {"none", status[v]}
        => CanTransition(status[v], status'[v])

\* An UPDATE to Stopped is always allowed, any other where it says.
LEMMA UpdateMoves ==
    ASSUME World, NEW v \in Vms, NEW s \in Statuses, status' = UpdateStatus(v, s),
           s = "Stopped" \/ status[v] = "none" \/ CanTransition(status[v], s)
    PROVE  RowMoves
<1>1. status[v] \in Statuses \union {"none"} /\ \A w \in Vms \ {v} : status'[w] = status[w]
    BY Zenon DEF World, UpdateStatus
<1>2. status'[v] = IF status[v] = "none" THEN "none" ELSE s
    BY Zenon DEF World, UpdateStatus
<1> QED BY Zenon, <1>1, <1>2 DEF RowMoves, CanTransition, Active, Statuses

\* A DELETE is no transition.
LEMMA DeleteMoves ==
    ASSUME World, NEW v \in Vms, status' = [status EXCEPT ![v] = "none"] PROVE RowMoves
BY Zenon DEF World, RowMoves

\* Nor is a step that leaves the rows alone.
LEMMA StillMoves == ASSUME status' = status PROVE RowMoves
BY Zenon DEF RowMoves

\* mark_stopped goes to Stopped or deletes.
LEMMA MarkStoppedMoves ==
    ASSUME TypeInv, NEW a \in Actors, task[a].pc \in HoldsPid, MarkStopped(a) PROVE RowMoves
<1>1. task[a].vm \in Vms /\ World
    BY Zenon DEF TypeInv, HoldsPids, HoldsPid
<1>2. status' = status \/ status' = UpdateStatus(task[a].vm, "Stopped")
    BY Zenon DEF MarkStopped
<1> QED BY Zenon, <1>1, <1>2, UpdateMoves, StillMoves DEF Statuses

\* INSERT finds no row: no step of a create is a transition.
LEMMA CreateMoves ==
    ASSUME IInv, [Next]_vars, NEW a \in Actors, CreateStep(a) PROVE RowMoves
<1> USE DEF dbVars
<1>1. CASE CreateInsert(a)
    <2>1. task[a].vm \in Vms /\ status[task[a].vm] = "none" /\ World
        BY Zenon, <1>1, TypeFacts DEF CreateInsert, HoldsPids, DiskTask, Creating
    <2> QED BY Zenon, <1>1, <2>1 DEF CreateInsert, World, RowMoves
<1>2. CASE ~CreateInsert(a)
    <2>1. status' = status
        BY Zenon, <1>2 DEF CreateStep, CreateOverlay, SpawnShim, CreateSpawnFails, CreateInsertFails,
                    CreateUnready, CreateReady
    <2> QED BY Zenon, <2>1, StillMoves
<1> QED BY Zenon, <1>1, <1>2

\* list, get, remove, recover and sweep only go to Stopped or delete.
LEMMA RowStepMoves ==
    ASSUME IInv, [Next]_vars, NEW a \in Actors, RowStep(a) PROVE RowMoves
<1> USE TypeFacts DEF dbVars, HoldsPids
<1>1. CASE Reconcile(a)
    <2>1. task[a].vm \in Vms
        BY Zenon, <1>1 DEF Reconcile
    <2>2. status' = status \/ status' = UpdateStatus(task[a].vm, "Stopped")
        BY Zenon, <1>1 DEF Reconcile
    <2> QED BY Zenon, <2>1, <2>2, UpdateMoves, StillMoves DEF Statuses
<1>2. CASE DeleteRow(a)
    <2>1. task[a].vm \in Vms
        BY Zenon, <1>2 DEF DeleteRow
    <2> QED BY Zenon, <1>2, <2>1, DeleteMoves DEF DeleteRow
<1>3. CASE SweepMark(a)
    <2>1. task[a].vm \in Vms
        BY Zenon, <1>3 DEF SweepMark
    <2> QED BY Zenon, <1>3, <2>1, UpdateMoves DEF SweepMark, Statuses
<1>4. CASE ~Reconcile(a) /\ ~DeleteRow(a) /\ ~SweepMark(a)
    <2>1. status' = status
        BY Zenon, <1>4 DEF RowStep, Read, RecoverRead, ReadRow, RemoveStored, SweepTerminate, SweepStopped
    <2> QED BY Zenon, <2>1, StillMoves
<1> QED BY Zenon, <1>1, <1>2, <1>3, <1>4

\* start goes from Stopped to Running, stop from Running to Stopping.
LEMMA HandleMoves ==
    ASSUME IInv, [Next]_vars, NEW a \in Actors, HandleStep(a) PROVE RowMoves
<1> USE TypeFacts DEF dbVars, HoldsPids
<1>1. CASE StartCommit(a)
    <2>1. task[a].vm \in Vms /\ status[task[a].vm] \in {"Stopped", "none"}
        BY Zenon, <1>1 DEF StartCommit, TaskSync, HandlePoints
    <2> QED BY Zenon, <1>1, <2>1, UpdateMoves DEF StartCommit, Statuses, CanTransition
<1>2. CASE StartCommitFails(a)
    <2>1. task[a].vm \in Vms
        BY Zenon, <1>2 DEF StartCommitFails
    <2> QED BY Zenon, <1>2, <2>1, UpdateMoves DEF StartCommitFails, Statuses
<1>3. CASE MarkDelete(a)
    <2>1. task[a].vm \in Vms
        BY Zenon, <1>3 DEF MarkDelete
    <2> QED BY Zenon, <1>3, <2>1, DeleteMoves DEF MarkDelete
<1>4. CASE StopBegin(a)
    <2>1. task[a].vm \in Vms /\ status[task[a].vm] \in {"Running", "none"}
        BY Zenon, <1>4 DEF StopBegin, TaskSync, HandlePoints
    <2>2. status' = UpdateStatus(task[a].vm, "Stopping") /\ World
        BY Zenon, <1>4 DEF StopBegin
    <2>3. status[task[a].vm] = "none" \/ CanTransition(status[task[a].vm], "Stopping")
        BY Zenon, <2>1 DEF CanTransition
    <2> QED BY Zenon, <2>1, <2>2, <2>3, UpdateMoves DEF Statuses
<1>5. CASE Kill(a) \/ StopExited(a) \/ StopTimeout(a) \/ WaitExited(a)
    <2>1. MarkStopped(a)
        BY Zenon, <1>5 DEF Kill, StopExited, StopTimeout, WaitExited
    <2>2. task[a].pc \in {"handle", "start_ready", "stop_wait", "wait"}
        BY Zenon, <1>5 DEF Kill, StopExited, StopTimeout, WaitExited
    <2>3. task[a].pc \in HoldsPid
        BY Zenon, <2>2 DEF HoldsPid, Points
    <2> QED BY Zenon, <2>1, <2>3, MarkStoppedMoves
<1>6. CASE \/ StartBegin(a) \/ StartSpawnFails(a) \/ StartReady(a) \/ StopReply(a)
           \/ StopRpcBroken(a) \/ WaitBegin(a) \/ Drop(a)
    <2>1. status' = status
        BY Zenon, <1>6 DEF StartBegin, StartSpawnFails, StartReady, StopReply, StopRpcBroken, StopWait,
                    WaitBegin, Drop
    <2> QED BY Zenon, <2>1, StillMoves
<1> QED BY Zenon, <1>1, <1>2, <1>3, <1>4, <1>5, <1>6 DEF HandleStep

\* No step makes a transition that can_transition_to refuses.
LEMMA NextMoves == ASSUME IInv, [Next]_vars PROVE RowMoves
<1>1. ASSUME Shutdown PROVE RowMoves
    BY Zenon, <1>1, TypeFacts DEF Shutdown, World, RowMoves, CanTransition, Active
<1>2. ASSUME NEW p \in Pids, ShimStep(p) PROVE RowMoves
    BY Zenon, <1>2, StillMoves DEF ShimStep, ShimBoots, ShimExits, Reap, dbVars
<1>5. ASSUME NEW p \in Pids, AdriftStep(p) PROVE RowMoves
    BY Zenon, <1>5, StillMoves DEF AdriftStep, AdriftBoots, AdriftExits, dbVars
<1>3. ASSUME Crash \/ Open \/ RecoverDone PROVE RowMoves
    BY Zenon, <1>3, StillMoves DEF Crash, Open, RecoverDone, dbVars
<1>4. CASE UNCHANGED vars
    BY Zenon, <1>4, StillMoves DEF vars, dbVars
<1> QED BY Zenon, <1>1, <1>2, <1>3, <1>4, <1>5, CreateMoves, RowStepMoves, HandleMoves DEF Next, RuntimeStep

\* ... and a row's status changes only as Status::can_transition_to allows,
\* though none of the writers consults it.
THEOREM TransitionsHold == Exclusive => (Spec => StatusTransitions)
<1> SUFFICES ASSUME Exclusive PROVE Spec => StatusTransitions
    BY Zenon
<1>1. IInv /\ [Next]_vars => IInv'
    BY Zenon, IInvNext
<1>2. IInv /\ [Next]_vars =>
          [\A v \in Vms : status[v] # "none" /\ status'[v] \notin {"none", status[v]}
               => CanTransition(status[v], status'[v])]_vars
    BY Zenon, NextMoves DEF RowMoves
<1> QED BY IInvInit, <1>1, <1>2, PTL DEF Spec, StatusTransitions

-----------------------------------------------------------------------------
(* VmLifecycle implements VmContract: where tasks, rows and guests of the  *)
(* next state come from.                                                   *)

\* A create that has not written its row was there before or has a fresh id;
\* a start about to write its row was there before.
TaskOrigin ==
    \A a \in Actors :
        /\ task'[a].pc \in Creating =>
               \/ task[a].pc \in Creating /\ task'[a].vm = task[a].vm
               \/ task'[a].vm \notin used
        /\ task'[a].pc = "start_commit" =>
               task[a].pc \in {"start_spawn", "start_commit"} /\ task'[a].vm = task[a].vm

\* A step that leaves its task at any other point has nothing to show.
LEMMA OriginElsewhere ==
    ASSUME NEW a \in Actors, Others(a), task'[a].pc \notin Creating \union {"start_commit"}
    PROVE  TaskOrigin
BY Zenon DEF TaskOrigin, Others

\* A task that moves on to a point that is not one of these.
LEMMA OriginGoto ==
    ASSUME TasksTyped, NEW a \in Actors,
           NEW point \in Points \ {"create_spawn", "create_insert", "start_commit"}, Goto(a, point)
    PROVE  TaskOrigin
<1>1. Others(a) /\ task'[a].pc = point
    BY Zenon, GotoEffect
<1> QED BY Zenon, <1>1, OriginElsewhere DEF Creating

\* A task that ends.
LEMMA OriginFinish == ASSUME TasksTyped, NEW a \in Actors, Finish(a) PROVE TaskOrigin
<1>1. Others(a) /\ task'[a].pc = "idle"
    BY Zenon, FinishEffect
<1> QED BY Zenon, <1>1, OriginElsewhere DEF Creating

\* The steps of a create.
LEMMA CreateOrigin ==
    ASSUME IInv, [Next]_vars, NEW a \in Actors, CreateStep(a) PROVE TaskOrigin
<1> USE TypeFacts
<1>1. ASSUME NEW v \in Vms, CreateOverlay(a, v) PROVE TaskOrigin
    <2>1. Others(a) /\ task'[a].pc = "create_spawn" /\ task'[a].vm = v /\ v \notin used
        BY <1>1, CreateTaskEffect, Zenon DEF CreateOverlay
    <2> QED BY Zenon, <2>1 DEF TaskOrigin, Others, Creating
<1>2. ASSUME NEW p \in Pids, SpawnShim(a, p) PROVE TaskOrigin
    <2>1. task[a].pc \in {"create_spawn", "start_spawn"}
        BY Zenon, <1>2 DEF SpawnShim
    <2>2. /\ Others(a) /\ task'[a].vm = task[a].vm
          /\ task[a].pc = "create_spawn" => task'[a].pc = "create_insert"
          /\ task[a].pc = "start_spawn" => task'[a].pc = "start_commit"
        BY Zenon, <1>2, SpawnShimEffect
    <2> QED BY Zenon, <2>1, <2>2 DEF TaskOrigin, Others, Creating
<1>3. CASE CreateInsert(a)
    <2>1. Others(a) /\ task'[a].pc = "create_ready"
        BY Zenon, <1>3, RunningEffect DEF CreateInsert, Points
    <2> QED BY Zenon, <2>1, OriginElsewhere DEF Creating
<1>4. CASE CreateSpawnFails(a) \/ CreateInsertFails(a) \/ CreateUnready(a)
    <2>1. Goto(a, "delete")
        BY Zenon, <1>4 DEF CreateSpawnFails, CreateInsertFails, CreateUnready, RemoveFiles
    <2> QED BY Zenon, <2>1, OriginGoto DEF Points
<1>5. CASE CreateReady(a)
    BY Zenon, <1>5, OriginGoto DEF CreateReady, Points
<1> QED BY Zenon, <1>1, <1>2, <1>3, <1>4, <1>5 DEF CreateStep

\* Reading a row.
LEMMA ReadOrigin ==
    ASSUME IInv, [Next]_vars, NEW a \in Actors, NEW v \in Vms,
           NEW purpose \in {"get", "list", "remove", "sweep", "recover"}, ReadRow(a, v, purpose)
    PROVE  TaskOrigin
<1>1. TasksTyped /\ World
    BY Zenon, TypeFacts
<1>2. purpose \in Points
    BY Zenon DEF Points
<1>3. status[v] \in Statuses \union {"none"} /\ pid[v] \in Pids \union {NoPid}
    BY Zenon, <1>1 DEF World
<1>4. Others(a) /\ task'[a].pc = purpose
    BY Zenon, <1>1, <1>2, <1>3, ReadRowEffect
<1> QED BY Zenon, <1>4, OriginElsewhere DEF Creating

\* The steps of list, get, remove, recover and sweep.
LEMMA RowStepOrigin ==
    ASSUME IInv, [Next]_vars, NEW a \in Actors, RowStep(a) PROVE TaskOrigin
<1> USE TypeFacts
<1>1. ASSUME NEW v \in Vms, NEW purpose \in Purposes, Read(a, v, purpose) PROVE TaskOrigin
    BY Zenon, <1>1, ReadOrigin DEF Read, Purposes
<1>2. ASSUME NEW v \in Vms, RecoverRead(a, v) PROVE TaskOrigin
    BY Zenon, <1>2, ReadOrigin DEF RecoverRead
<1>3. CASE Reconcile(a)
    <2>1. Others(a) /\ task'[a].pc \in {"idle", "handle", "remove_files"}
        BY Zenon, <1>3, ReconcileEffect
    <2> QED BY Zenon, <2>1, OriginElsewhere DEF Creating
<1>4. CASE RemoveStored(a)
    BY Zenon, <1>4, OriginGoto DEF RemoveStored, RemoveFiles, Points
<1>5. CASE DeleteRow(a)
    BY Zenon, <1>5, OriginFinish DEF DeleteRow
<1>6. CASE SweepTerminate(a)
    BY Zenon, <1>6, OriginGoto DEF SweepTerminate, Points
<1>7. CASE SweepMark(a) \/ SweepStopped(a)
    <2>1. Goto(a, "remove_files") \/ Finish(a)
        BY Zenon, <1>7 DEF SweepMark, SweepStopped
    <2> QED BY Zenon, <2>1, OriginGoto, OriginFinish DEF Points
<1> QED BY Zenon, <1>1, <1>2, <1>3, <1>4, <1>5, <1>6, <1>7 DEF RowStep

\* The steps of start, stop, kill, wait and drop.
LEMMA HandleOrigin ==
    ASSUME IInv, [Next]_vars, NEW a \in Actors, HandleStep(a) PROVE TaskOrigin
<1> USE TypeFacts
<1>1. CASE StartBegin(a) \/ StartSpawnFails(a) \/ StartReady(a) \/ MarkDelete(a)
           \/ StopReply(a) \/ StopRpcBroken(a) \/ WaitBegin(a)
    <2>1. PICK point \in {"start_spawn", "handle", "stop_wait", "wait"} : Goto(a, point)
        BY Zenon, <1>1 DEF StartBegin, StartSpawnFails, StartReady, MarkDelete, StopReply,
                           StopRpcBroken, StopWait, WaitBegin
    <2> QED BY Zenon, <2>1, OriginGoto DEF Points
<1>2. CASE StartCommit(a)
    <2>1. Others(a) /\ task'[a].pc = "start_ready"
        BY Zenon, <1>2, RunningEffect DEF StartCommit, Points
    <2> QED BY Zenon, <2>1, OriginElsewhere DEF Creating
<1>3. CASE StartCommitFails(a)
    <2>1. Others(a) /\ task'[a].pc = "handle"
        BY Zenon, <1>3, StartCommitFailsEffect
    <2> QED BY Zenon, <2>1, OriginElsewhere DEF Creating
<1>4. CASE Kill(a) \/ StopExited(a) \/ StopTimeout(a) \/ WaitExited(a)
    <2>1. MarkStopped(a)
        BY Zenon, <1>4 DEF Kill, StopExited, StopTimeout, WaitExited
    <2>2. PICK point \in {"handle", "mark_delete"} :
              Become(a, [task[a] EXCEPT !.pc = point, !.st = "Stopped"])
        BY Zenon, <2>1 DEF MarkStopped
    <2>3. Others(a) /\ task'[a].pc = point
        BY <2>2, SetStatusEffect, Zenon DEF Points, Statuses
    <2> QED BY Zenon, <2>3, OriginElsewhere DEF Creating
<1>5. CASE StopBegin(a)
    <2>1. Others(a) /\ task'[a].pc = "stop_rpc"
        BY <1>5, SetStatusEffect, Zenon DEF StopBegin, Points, Statuses
    <2> QED BY Zenon, <2>1, OriginElsewhere DEF Creating
<1>6. CASE Drop(a)
    BY Zenon, <1>6, OriginFinish DEF Drop
<1> QED BY Zenon, <1>1, <1>2, <1>3, <1>4, <1>5, <1>6 DEF HandleStep

\* Every step.
LEMMA NextOrigin == ASSUME IInv, [Next]_vars PROVE TaskOrigin
<1>1. ASSUME task' = task PROVE TaskOrigin
    BY Zenon, <1>1 DEF TaskOrigin
<1>2. ASSUME Crash \/ Shutdown PROVE TaskOrigin
    <2>1. task' = [a \in Actors |-> Idle]
        BY Zenon, <1>2 DEF Crash, Shutdown, ProcessEnds
    <2> QED BY Zenon, <2>1 DEF TaskOrigin, Idle, Creating
<1>3. ASSUME NEW p \in Pids, ShimStep(p) PROVE task' = task
    BY Zenon, <1>3 DEF ShimStep, ShimBoots, ShimExits, Reap
<1>6. ASSUME NEW p \in Pids, AdriftStep(p) PROVE task' = task
    BY Zenon, <1>6 DEF AdriftStep, AdriftBoots, AdriftExits
<1>4. ASSUME Open \/ RecoverDone PROVE task' = task
    BY Zenon, <1>4 DEF Open, RecoverDone
<1>5. CASE UNCHANGED vars
    BY Zenon, <1>1, <1>5 DEF vars
<1> QED BY Zenon, <1>1, <1>2, <1>3, <1>4, <1>5, <1>6, CreateOrigin, RowStepOrigin, HandleOrigin
        DEF Next, RuntimeStep

-----------------------------------------------------------------------------
(* Rows.                                                                   *)

\* A new row says Running.
RowsStart == \A v \in Vms : status[v] = "none" => status'[v] \in {"none", "Running"}

\* UPDATE makes no row, DELETE neither.
LEMMA StartsByUpdate ==
    ASSUME World, NEW v \in Vms, NEW s \in Statuses,
           status' \in {status, UpdateStatus(v, s), [status EXCEPT ![v] = "none"]}
    PROVE  RowsStart
BY Zenon DEF World, UpdateStatus, RowsStart

\* Only the INSERT of create makes a row.
LEMMA NextStarts == ASSUME IInv, [Next]_vars PROVE RowsStart
<1> USE TypeFacts DEF dbVars
<1>1. ASSUME status' = status PROVE RowsStart
    BY Zenon, <1>1 DEF RowsStart
<1>2. ASSUME NEW a \in Actors, CreateStep(a) PROVE RowsStart
    <2>1. CASE CreateInsert(a)
        BY Zenon, <2>1 DEF CreateInsert, World, RowsStart, HoldsPids
    <2>2. CASE ~CreateInsert(a)
        BY Zenon, <1>1, <1>2, <2>2 DEF CreateStep, CreateOverlay, SpawnShim, CreateSpawnFails,
                                       CreateInsertFails, CreateUnready, CreateReady
    <2> QED BY Zenon, <2>1, <2>2
<1>3. ASSUME NEW a \in Actors, RowStep(a) PROVE RowsStart
    <2>1. CASE Reconcile(a) \/ DeleteRow(a) \/ SweepMark(a)
        <3>1. task[a].vm \in Vms
            BY Zenon, <2>1 DEF Reconcile, DeleteRow, SweepMark, HoldsPids
        <3>2. \/ status' = status \/ status' = UpdateStatus(task[a].vm, "Stopped")
              \/ status' = [status EXCEPT ![task[a].vm] = "none"]
            BY Zenon, <2>1 DEF Reconcile, DeleteRow, SweepMark
        <3> QED BY Zenon, <3>1, <3>2, StartsByUpdate DEF Statuses
    <2>2. CASE ~Reconcile(a) /\ ~DeleteRow(a) /\ ~SweepMark(a)
        BY Zenon, <1>1, <1>3, <2>2 DEF RowStep, Read, RecoverRead, ReadRow, RemoveStored,
                                       SweepTerminate, SweepStopped
    <2> QED BY Zenon, <2>1, <2>2
<1>4. ASSUME NEW a \in Actors, HandleStep(a) PROVE RowsStart
    <2>1. CASE \/ StartCommit(a) \/ StartCommitFails(a) \/ MarkDelete(a) \/ StopBegin(a)
               \/ Kill(a) \/ StopExited(a) \/ StopTimeout(a) \/ WaitExited(a)
        <3>1. task[a].pc # "idle"
            BY Zenon, <2>1 DEF StartCommit, StartCommitFails, MarkDelete, StopBegin, Kill,
                               StopExited, StopTimeout, WaitExited
        <3>2. \/ status' = status \/ status' = [status EXCEPT ![task[a].vm] = "none"]
              \/ \E s \in {"Running", "Stopping", "Stopped"} :
                     status' = UpdateStatus(task[a].vm, s)
            BY Zenon, <2>1 DEF StartCommit, StartCommitFails, MarkDelete, StopBegin, Kill,
                               StopExited, StopTimeout, WaitExited, MarkStopped
        <3> QED BY Zenon, <3>1, <3>2, StartsByUpdate DEF Statuses, HoldsPids
    <2>2. CASE \/ StartBegin(a) \/ StartSpawnFails(a) \/ StartReady(a) \/ StopReply(a)
               \/ StopRpcBroken(a) \/ WaitBegin(a) \/ Drop(a)
        BY Zenon, <1>1, <2>2 DEF StartBegin, StartSpawnFails, StartReady, StopReply,
                                 StopRpcBroken, StopWait, WaitBegin, Drop
    <2> QED BY Zenon, <1>4, <2>1, <2>2 DEF HandleStep
<1>5. ASSUME Shutdown PROVE RowsStart
    BY Zenon, <1>5 DEF Shutdown, RowsStart, Active
<1>6. ASSUME NEW p \in Pids, ShimStep(p) PROVE status' = status
    BY Zenon, <1>6 DEF ShimStep, ShimBoots, ShimExits, Reap
<1>9. ASSUME NEW p \in Pids, AdriftStep(p) PROVE status' = status
    BY Zenon, <1>9 DEF AdriftStep, AdriftBoots, AdriftExits
<1>7. ASSUME Crash \/ Open \/ RecoverDone PROVE status' = status
    BY Zenon, <1>7 DEF Crash, Open, RecoverDone
<1>8. CASE UNCHANGED vars
    BY Zenon, <1>1, <1>8 DEF vars
<1> QED BY Zenon, <1>1, <1>2, <1>3, <1>4, <1>5, <1>6, <1>7, <1>8, <1>9 DEF Next, RuntimeStep

-----------------------------------------------------------------------------
(* Guests.                                                                 *)

\* A guest that runs ran before, or the step is its boot and nothing else.
GuestOrigin ==
    /\ lost \subseteq lost' /\ used \subseteq used'
    /\ \A p \in Pids : proc'[p] = "live" =>
           /\ owner'[p] = owner[p]
           /\ \/ proc[p] = "live"
              \/ lost' = lost /\ owner' = owner /\ \A q \in Pids \ {p} : proc'[q] = proc[q]

\* Signals boot no guest.
LEMMA SignalOrigin ==
    ASSUME World, UNCHANGED <<owner, lost, used>>, NEW p,
           proc' = proc \/ proc' = Signal(p)
    PROVE  GuestOrigin
BY Zenon DEF World, Signal, GuestOrigin

\* Guests come from ShimBoots alone.
LEMMA NextGuests == ASSUME IInv, [Next]_vars PROVE GuestOrigin
<1> USE TypeFacts DEF procVars, ghostVars
<1>1. ASSUME UNCHANGED <<proc, owner, lost, used>> PROVE GuestOrigin
    BY Zenon, <1>1 DEF GuestOrigin
<1>2. ASSUME NEW a \in Actors, CreateStep(a) PROVE GuestOrigin
    <2>1. ASSUME NEW v \in Vms, CreateOverlay(a, v) PROVE GuestOrigin
        BY Zenon, <2>1 DEF CreateOverlay, GuestOrigin
    <2>2. ASSUME NEW p \in Pids, SpawnShim(a, p) PROVE GuestOrigin
        BY <2>2 DEF SpawnShim, GuestOrigin, World
    <2>3. CASE CreateInsertFails(a) \/ CreateUnready(a)
        <3>1. UNCHANGED <<owner, lost, used>>
            BY Zenon, <2>3 DEF CreateInsertFails, CreateUnready
        <3>2. proc' = Signal(task[a].sp) \/ proc' = Signal(task[a].cp)
            BY Zenon, <2>3 DEF CreateInsertFails, CreateUnready
        <3> QED BY Zenon, <3>1, <3>2, SignalOrigin
    <2>4. CASE CreateSpawnFails(a) \/ CreateInsert(a) \/ CreateReady(a)
        BY Zenon, <1>1, <2>4 DEF CreateSpawnFails, CreateInsert, CreateReady
    <2> QED BY Zenon, <1>2, <2>1, <2>2, <2>3, <2>4 DEF CreateStep
<1>3. ASSUME NEW a \in Actors, RowStep(a) PROVE GuestOrigin
    <2>1. CASE SweepTerminate(a) \/ DeleteRow(a)
        <3>1. UNCHANGED <<owner, lost, used>>
            BY Zenon, <2>1 DEF SweepTerminate, DeleteRow
        <3>2. proc' = proc \/ proc' = Signal(task[a].cp) \/ proc' = Signal(task[a].ka)
            BY Zenon, <2>1 DEF SweepTerminate, DeleteRow
        <3> QED BY Zenon, <3>1, <3>2, SignalOrigin
    <2>2. CASE ~SweepTerminate(a) /\ ~DeleteRow(a)
        BY Zenon, <1>1, <1>3, <2>2 DEF RowStep, Read, RecoverRead, ReadRow, Reconcile,
                                       RemoveStored, SweepMark, SweepStopped
    <2> QED BY Zenon, <2>1, <2>2
<1>4. ASSUME NEW a \in Actors, HandleStep(a) PROVE GuestOrigin
    <2>1. CASE \/ StartCommit(a) \/ StartCommitFails(a) \/ Kill(a) \/ StopExited(a)
               \/ StopTimeout(a) \/ WaitExited(a) \/ Drop(a)
        <3>1. UNCHANGED <<owner, lost, used>>
            BY Zenon, <2>1 DEF StartCommit, StartCommitFails, Kill, StopExited, StopTimeout, WaitExited,
                        Drop, MarkStopped
        <3>2. \/ proc' = proc \/ proc' = Signal(task[a].cp)
              \/ proc' = Signal(task[a].sp) \/ proc' = Signal(task[a].ka)
            BY Zenon, <2>1 DEF StartCommit, StartCommitFails, Kill, StopExited, StopTimeout,
                               WaitExited, Drop
        <3> QED BY Zenon, <3>1, <3>2, SignalOrigin
    <2>2. CASE \/ StartBegin(a) \/ StartSpawnFails(a) \/ StartReady(a) \/ MarkDelete(a)
               \/ StopBegin(a) \/ StopReply(a) \/ StopRpcBroken(a) \/ WaitBegin(a)
        BY Zenon, <1>1, <2>2 DEF StartBegin, StartSpawnFails, StartReady, MarkDelete, StopBegin,
               StopReply, StopRpcBroken, StopWait, WaitBegin
    <2> QED BY Zenon, <1>4, <2>1, <2>2 DEF HandleStep
<1>5. ASSUME NEW p \in Pids, ShimStep(p) PROVE GuestOrigin
    BY <1>5 DEF ShimStep, ShimBoots, ShimExits, Reap, GuestOrigin, World
<1>9. ASSUME NEW p \in Pids, AdriftStep(p) PROVE GuestOrigin
    BY Zenon, <1>1, <1>9 DEF AdriftStep, AdriftBoots, AdriftExits
<1>6. ASSUME Crash \/ Shutdown PROVE GuestOrigin
    BY <1>6 DEF Crash, Shutdown, ProcessEnds, AfterExit, GuestOrigin, World
<1>7. ASSUME Open \/ RecoverDone PROVE GuestOrigin
    BY Zenon, <1>1, <1>7 DEF Open, RecoverDone
<1>8. CASE UNCHANGED vars
    BY Zenon, <1>1, <1>8 DEF vars
<1> QED BY Zenon, <1>2, <1>3, <1>4, <1>5, <1>6, <1>7, <1>8, <1>9 DEF Next, RuntimeStep

\* Where the guests of a VM are: recorded in its row, or with a task.
GuestsPlaced ==
    \A v \in Vms : \A p \in Guests(v) :
        \/ Active(status[v])
        \/ \E a \in Actors : task[a].pc \in Uncommitted /\ task[a].vm = v /\ task[a].sp = p

\* The guests of a VM are those whose recorded pid runs.
LEMMA GuestsAre ==
    ASSUME DriftInv, NEW v
    PROVE  Guests(v) = {p \in Pids : proc[p] = "live" /\ owner[p] = v /\ p \notin lost}
BY Zenon, InReach DEF Guests

GuestsRecorded ==
    \A v \in Vms : Guests(v) = {p \in Pids : proc[p] = "live" /\ owner[p] = v /\ p \notin lost}

\* The same of the next state.
LEMMA NextGuestsAre == DriftInv' => GuestsRecorded'
<1>1. DriftInv => GuestsRecorded
    BY Zenon, GuestsAre DEF GuestsRecorded
<1> QED BY <1>1, PTL

\* IInv knows every guest.
LEMMA GuestPlace == IInv /\ DriftInv => GuestsPlaced
<1> SUFFICES ASSUME IInv, DriftInv, NEW v \in Vms, NEW p \in Guests(v), ~Active(status[v])
             PROVE  \E a \in Actors : /\ task[a].pc \in Uncommitted
                                      /\ task[a].vm = v /\ task[a].sp = p
    BY DEF GuestsPlaced
<1>1. p \in Pids /\ proc[p] = "live" /\ owner[p] = v /\ p \notin lost
    BY Zenon, GuestsAre
<1>2. InFlight(p)
    BY Zenon, <1>1 DEF IInv, Known, Alive, Recorded
<1>3. PICK a \in Actors : task[a].pc \in Uncommitted /\ task[a].sp = p
    BY Zenon, <1>2 DEF InFlight
<1>4. owner[p] = task[a].vm
    BY Zenon, <1>3 DEF IInv, TaskSync
<1> QED BY Zenon, <1>1, <1>3, <1>4

RetiredQuiet == \A v \in Vms : v \in Retired => Guests(v) = {}

\* Nobody writes the disk of a VM that is gone.
LEMMA RetiredRest == IInv /\ DriftInv => RetiredQuiet
<1> SUFFICES ASSUME IInv, DriftInv, NEW v \in Vms, v \in Retired, NEW p \in Guests(v) PROVE FALSE
    BY Zenon DEF RetiredQuiet
<1>1. status[v] = "none" /\ proc[p] = "live"
    BY Zenon, GuestsAre DEF Retired
<1>2. PICK a \in Actors : task[a].pc \in Uncommitted /\ task[a].vm = v /\ task[a].sp = p
    BY <1>1, GuestPlace DEF GuestsPlaced, Active
<1>3. task[a].pc = "start_commit"
    BY Zenon, <1>2 DEF Retired, Uncommitted
<1>4. TaskSync(a)
    BY Zenon DEF IInv
<1> QED BY Zenon, <1>1, <1>2, <1>3, <1>4 DEF TaskSync

\* The same of the next state.
LEMMA NextQuiet == IInv' /\ DriftInv' => GuestsPlaced' /\ RetiredQuiet' /\ OneWriter'
BY GuestPlace, RetiredRest, IInvSafe, PTL

\* A row that becomes Stopped leaves no guest: a start on it would have
\* found it Stopped before.
LEMMA StoppedQuiet ==
    ASSUME IInv, IInv', DriftInv', [Next]_vars, NEW v \in Vms, Active(status[v]), status'[v] = "Stopped"
    PROVE  Guests(v)' = {}
<1> SUFFICES ASSUME NEW p \in Guests(v)' PROVE FALSE
    BY Zenon
<1>1. PICK a \in Actors : task'[a].pc \in Uncommitted' /\ task'[a].vm = v
    BY Zenon, NextQuiet DEF GuestsPlaced, Active
<1>2. DiskTask(a)' /\ TaskSync(a) /\ TaskOrigin
    BY Zenon, NextOrigin DEF IInv, DiskInv
<1>3. task'[a].pc = "start_commit"
    BY Zenon, <1>1, <1>2 DEF Uncommitted, DiskTask, Creating
<1>4. task[a].pc \in {"start_spawn", "start_commit"} /\ task[a].vm = v
    BY Zenon, <1>1, <1>2, <1>3 DEF TaskOrigin
<1> QED BY Zenon, <1>2, <1>4 DEF TaskSync, HandlePoints, Active
-----------------------------------------------------------------------------
(* The refinement.                                                         *)

\* What is gone stays gone.
LEMMA RetiredStays == ASSUME IInv, [Next]_vars PROVE Retired \subseteq Retired'
<1> SUFFICES ASSUME NEW v \in Retired PROVE v \in Retired'
    BY Zenon
<1>1. v \in used /\ status[v] = "none" /\ v \in Vms /\ v \in used'
    BY Zenon, TypeFacts, NextGuests DEF Retired, World, GuestOrigin
<1>2. status'[v] = "none"
    <2> SUFFICES ASSUME status'[v] # "none" PROVE FALSE
        BY Zenon
    <2>1. PICK a \in Actors : task[a].pc = "create_insert" /\ task[a].vm = v
        BY Zenon, <1>1, TypeFacts, DiskNext DEF RowsBorn
    <2> QED BY Zenon, <2>1 DEF Retired
<1>3. ASSUME NEW a \in Actors, task'[a].vm = v, task'[a].pc \in Creating PROVE FALSE
    BY Zenon, <1>1, <1>3, NextOrigin DEF TaskOrigin, Retired, Creating
<1> QED BY Zenon, <1>1, <1>2, <1>3 DEF Retired, Creating

\* A step on the row of a VM is one the contract allows.
LEMMA RowRefines ==
    ASSUME IInv, DriftInv, IInv', DriftInv', [Next]_vars, NEW v \in Vms
    PROVE  Contract!RowStep(v)
<1> DEFINE guests == [w \in Vms |-> Guests(w)]
<1>g. guests'[v] = Guests(v)'
    BY Zenon
<1>w. status[v] \in Statuses \union {"none"} /\ status'[v] \in Statuses \union {"none"}
    BY Zenon, TypeFacts DEF World
<1> HIDE DEF guests
<1>1. CASE v \in Retired'
    <2>1. status'[v] = "none" /\ Guests(v)' = {}
        BY Zenon, <1>1, NextQuiet DEF Retired, RetiredQuiet
    <2> QED BY Zenon, <1>1, <1>g, <1>w, <2>1 DEF Contract!RowStep, Contract!Becomes, guests
<1>2. CASE v \notin Retired' /\ status'[v] = status[v]
    BY Zenon, <1>2, <1>g, <1>w, RetiredStays DEF Contract!RowStep, Contract!Becomes, guests
<1>3. CASE v \notin Retired' /\ status[v] = "none" /\ status'[v] # "none"
    BY Zenon, <1>3, <1>g, <1>w, NextStarts, RetiredStays DEF RowsStart, Contract!RowStep, Contract!Becomes, guests
<1>4. CASE v \notin Retired' /\ status[v] # "none" /\ status'[v] = "none"
    <2>1. v \in used /\ v \in used'
        BY Zenon, <1>4, TypeFacts, NextGuests DEF DiskInv, RowsUsed, GuestOrigin
    <2>2. PICK a \in Actors : task'[a].vm = v /\ task'[a].pc \in Creating
        BY Zenon, <1>4, <2>1 DEF Retired, Creating
    <2>3. task[a].pc \in Creating /\ task[a].vm = v
        BY Zenon, <2>1, <2>2, NextOrigin DEF TaskOrigin
    <2> QED BY Zenon, <1>4, <2>3, TypeFacts DEF DiskTask
<1>5. CASE v \notin Retired' /\ status[v] # "none" /\ status'[v] \notin {"none", status[v]}
    <2>1. CanTransition(status[v], status'[v])
        BY Zenon, <1>5, NextMoves DEF RowMoves
    <2>2. Active(status[v]) /\ status'[v] = "Stopped" => Guests(v)' = {}
        BY Zenon, StoppedQuiet
    <2> QED BY Zenon, <1>5, <1>g, <1>w, <2>1, <2>2 DEF CanTransition, Active, Contract!RowStep, Contract!Becomes, guests
<1> QED BY Zenon, <1>1, <1>2, <1>3, <1>4, <1>5

\* So is a step on its guests.
LEMMA GuestRefines ==
    ASSUME IInv, DriftInv, IInv', DriftInv', [Next]_vars, NEW v \in Vms
    PROVE  Contract!GuestStep(v)
<1> DEFINE guests == [w \in Vms |-> Guests(w)]
<1>g. guests[v] = Guests(v) /\ guests'[v] = Guests(v)'
    BY Zenon
<1>n. GuestOrigin /\ OneWriter' /\ OneWriter /\ RetiredQuiet' /\ Retired \subseteq Retired'
    BY Zenon, NextGuests, NextQuiet, IInvSafe, RetiredStays
<1>a. /\ Guests(v) = {p \in Pids : proc[p] = "live" /\ owner[p] = v /\ p \notin lost}
      /\ Guests(v)' = {p \in Pids : proc'[p] = "live" /\ owner'[p] = v /\ p \notin lost'}
    BY Zenon, GuestsAre, NextGuestsAre DEF GuestsRecorded
<1>o. /\ \A p, q \in Guests(v) : p = q
      /\ \A p, q \in Guests(v)' : p = q
    BY Zenon, <1>n DEF OneWriter, Guests
<1>1. CASE Guests(v)' = {}
    BY Zenon, <1>g, <1>1 DEF Contract!GuestStep, guests
<1>2. ASSUME NEW p \in Guests(v)' PROVE Contract!GuestStep(v)
    <2>1. p \in Pids /\ proc'[p] = "live" /\ owner'[p] = v /\ p \notin lost' /\ p \notin lost
        BY Zenon, <1>2, <1>a, <1>n DEF GuestOrigin
    <2>2. Guests(v)' = {p}
        BY Zenon, <1>2, <1>o
    <2>3. CASE p \in Guests(v)
        <3>1. Guests(v) = {p}
            BY Zenon, <2>3, <1>o
        <3> QED BY Zenon, <1>g, <2>2, <3>1 DEF Contract!GuestStep, guests
    <2>4. CASE p \notin Guests(v)
        <3>1. /\ proc[p] # "live" /\ lost' = lost /\ owner' = owner
              /\ \A q \in Pids \ {p} : proc'[q] = proc[q]
            BY Zenon, <1>a, <1>n, <2>1, <2>4 DEF GuestOrigin
        <3>2. Guests(v) = {}
            BY Zenon, <1>a, <2>2, <3>1
        <3>3. v \notin Retired
            BY Zenon, <1>n, <2>2 DEF RetiredQuiet
        <3> QED BY Zenon, <1>g, <2>1, <2>2, <3>2, <3>3 DEF Contract!GuestStep, guests
    <2> QED BY Zenon, <2>3, <2>4
<1> QED BY Zenon, <1>1, <1>2

\* An empty database is one without VMs.
LEMMA InitRefines == Init => Contract!Init
BY DEF Init, Contract!Init, Retired, Guests, Guest

\* For any VMs, shims and tasks of which no two work on one VM at a time,
\* and whatever crashes: the runtime keeps the contract.
THEOREM KeepsContract == Exclusive => (Spec => ImplementsContract)
<1> SUFFICES ASSUME Exclusive PROVE Spec => Contract!Spec
    BY Zenon DEF ImplementsContract
<1>1. IInv /\ DriftInv /\ [Next]_vars => IInv' /\ DriftInv'
    BY Zenon, SafeNext
<1>2. IInv /\ DriftInv /\ IInv' /\ DriftInv' /\ [Next]_vars => [Contract!Next]_(Contract!contractVars)
    BY Zenon, RowRefines, GuestRefines DEF Contract!Next
<1> QED BY IInvInit, DriftInit, InitRefines, <1>1, <1>2, PTL DEF Spec, Contract!Spec
=============================================================================
