------------------------------ MODULE Snapshot ------------------------------
(***************************************************************************)
(* Snapshots of one VM: SnapshotManager on the host, the Quiesce and Thaw  *)
(* requests, the guest agent's freeze list, the copy thread, the rows of   *)
(* the snapshots table and the files under snapshots/.  Every snapshot id  *)
(* is one create_snapshot call, and later its delete.                      *)
(***************************************************************************)
CONSTANTS
    Snaps,      \* snapshot ids
    Names,      \* explicit snapshot names
    NoName,
    Mounts      \* writable guest mounts that support FIFREEZE

ASSUME NamesAssumption == NoName \notin Names
ASSUME MountsAssumption == Mounts # {}

VARIABLES
    serial,     \* TRUE: the embedder lets each snapshot finish before it
                \* takes another, starts or removes the VM
    vm,         \* "running", "stopping" (its guest still up), "stopped" or "removed"
    frozen,     \* mounts the guest kernel holds frozen
    list,       \* FROZEN_MOUNTS in the guest agent
    slipped,    \* history: frozen mounts a failed open or ioctl left off the list
    req,        \* control requests sent and not yet handled by the guest
    step,       \* where each create or delete call is
    copy,       \* each fs::copy on its blocking thread
    hot,        \* history: copied with every mount frozen for it, the guest up throughout
    bare,       \* history: copied with the guest up and a mount not frozen for it
    torn,       \* whether the guest wrote to the disk during the copy
    name,       \* the name each snapshot was asked for
    files,      \* snapshots/{id}.qcow2
    rows        \* rows of the snapshots table

guestVars == <<frozen, list, slipped>>
hostVars == <<step, copy, hot, bare, torn, name, files, rows>>
vars == <<serial, vm, guestVars, req, hostVars>>

Init ==
    /\ serial \in BOOLEAN
    /\ vm \in {"running", "stopped"}
    /\ frozen = {} /\ list = {} /\ slipped = {} /\ req = {}
    /\ step = [s \in Snaps |-> "new"] /\ copy = [s \in Snaps |-> "none"]
    /\ hot = {} /\ bare = {}
    /\ torn = [s \in Snaps |-> FALSE] /\ name = [s \in Snaps |-> NoName]
    /\ files = {} /\ rows = {}

InProgress(s) == step[s] \in {"quiesce", "copy", "copy_cold", "thaw", "insert"} \/ copy[s] = "running"

NoneInProgress == \A s \in Snaps : ~InProgress(s)

Goto(s, point) == step' = [step EXCEPT ![s] = point]

\* The guest runs until a stop has taken effect.
Up == vm \in {"running", "stopping"}

\* Only a guest that is up takes a connection.
Send(s, what) == IF Up THEN req \union {<<s, what>>} ELSE req

StartCopy(s) ==
    /\ copy' = [copy EXCEPT ![s] = "running"]
    /\ files' = files \union {s}

-----------------------------------------------------------------------------
(* The host: snapshot.rs create and delete, under the HTTP handlers.       *)

\* The name is checked, then the handle's status decides whether to quiesce:
\* Running only, so that a guest on its way down is copied as it writes.
Begin(s, n) ==
    /\ step[s] = "new" /\ vm # "removed"
    /\ serial => NoneInProgress
    /\ \A t \in rows : name[t] = n => n = NoName
    /\ name' = [name EXCEPT ![s] = n]
    /\ \/ /\ vm = "running"
          /\ Goto(s, "quiesce")
          /\ req' = Send(s, "quiesce")
          /\ UNCHANGED <<copy, files, bare>>
       \/ /\ vm \in {"stopping", "stopped"}
          /\ Goto(s, "copy_cold")
          /\ StartCopy(s)
          /\ bare' = IF Up THEN bare \union {s} ELSE bare
          /\ UNCHANGED req
    /\ UNCHANGED <<serial, vm, guestVars, hot, torn, rows>>

\* quiesce() returns an error, the request refused or lost with the guest:
\* nothing was copied yet.
QuiesceFails(s) ==
    /\ step[s] = "quiesce"
    /\ Goto(s, "end")
    /\ req' = req \ {<<s, "quiesce">>}
    /\ UNCHANGED <<serial, vm, guestVars, copy, hot, bare, torn, name, files, rows>>

\* The copy thread ends, well or not; a failed copy leaves a partial file.
CopyEnds(s) ==
    /\ copy[s] = "running"
    /\ \E result \in {"done", "failed"} : copy' = [copy EXCEPT ![s] = result]
    /\ UNCHANGED <<serial, vm, guestVars, req, step, hot, bare, torn, name, files, rows>>

\* Mutant: the `?` on the copy comes before the thaw.
CopyReturnsEarly(s) ==
    /\ copy[s] \in {"done", "failed"} /\ step[s] \in {"copy", "copy_cold"}
    /\ IF step[s] = "copy" /\ copy[s] = "done"
       THEN req' = Send(s, "thaw") /\ Goto(s, "thaw")
       ELSE Goto(s, "insert") /\ UNCHANGED req
    /\ UNCHANGED <<serial, vm, guestVars, copy, hot, bare, torn, name, files, rows>>

\* create resumes after the copy: thaw first if it had quiesced.
CopyReturns(s) ==
    /\ copy[s] \in {"done", "failed"}
    /\ \/ /\ step[s] = "copy"
          /\ req' = Send(s, "thaw")
          /\ Goto(s, "thaw")
       \/ /\ step[s] = "copy_cold"
          /\ Goto(s, "insert")
          /\ UNCHANGED req
    /\ UNCHANGED <<serial, vm, guestVars, copy, hot, bare, torn, name, files, rows>>

\* thaw().await.ok(): a guest that died does not fail the snapshot.
ThawFails(s) ==
    /\ step[s] = "thaw" /\ <<s, "thaw">> \notin req
    /\ Goto(s, "insert")
    /\ UNCHANGED <<serial, vm, guestVars, req, copy, hot, bare, torn, name, files, rows>>

\* UNIQUE(vm_id, name) and the reference to vms.
Insertable(s) ==
    /\ vm # "removed"
    /\ \A t \in rows : name[t] = name[s] => name[s] = NoName

\* Mutant: the row is inserted whatever became of the copy.
InsertAnyway(s) ==
    /\ step[s] = "insert"
    /\ rows' = IF Insertable(s) THEN rows \union {s} ELSE rows
    /\ Goto(s, "end")
    /\ UNCHANGED <<serial, vm, guestVars, req, copy, hot, bare, torn, name, files>>

\* `copied??`, then the row; a refused row leaves the file behind.
Insert(s) ==
    /\ step[s] = "insert"
    /\ rows' = IF copy[s] = "done" /\ Insertable(s) THEN rows \union {s} ELSE rows
    /\ Goto(s, "end")
    /\ UNCHANGED <<serial, vm, guestVars, req, copy, hot, bare, torn, name, files>>

\* delete: the file first, then the row.
DeleteFile(s) ==
    /\ step[s] = "end" /\ s \in rows
    /\ files' = files \ {s}
    /\ Goto(s, "delete")
    /\ UNCHANGED <<serial, vm, guestVars, req, copy, hot, bare, torn, name, rows>>

DeleteRow(s) ==
    /\ step[s] = "delete"
    /\ rows' = rows \ {s}
    /\ Goto(s, "end")
    /\ UNCHANGED <<serial, vm, guestVars, req, copy, hot, bare, torn, name, files>>

\* The client goes away: the future is dropped at its await; a request
\* already sent is still handled, a copy already started still runs.
Cancel(s) ==
    /\ ~serial /\ step[s] \in {"quiesce", "copy", "copy_cold", "thaw"}
    /\ Goto(s, "end")
    /\ UNCHANGED <<serial, vm, guestVars, req, copy, hot, bare, torn, name, files, rows>>

-----------------------------------------------------------------------------
(* The guest: control.rs and mounts.rs.                                    *)

\* Mutant: EBUSY, already frozen, is not counted as frozen.
FreezeNewOnly(ok) ==
    /\ frozen' = frozen \union ok /\ list' = ok \ frozen
    /\ slipped' = (slipped \union frozen) \ ok

\* Mutant: sync(2) in place of FIFREEZE.
FreezeSyncs(ok) == UNCHANGED guestVars

\* freeze_filesystems: it freezes the mounts that open and FIFREEZE let it,
\* and skips the others; the list of the last call replaces FROZEN_MOUNTS.
Freeze(ok) ==
    /\ frozen' = frozen \union ok /\ list' = ok
    /\ slipped' = (slipped \union frozen) \ ok

\* QuiesceOk is sent however many mounts were skipped.
Quiesce(s) ==
    /\ Up /\ <<s, "quiesce">> \in req
    /\ req' = req \ {<<s, "quiesce">>}
    /\ \E ok \in SUBSET Mounts :
        /\ Freeze(ok)
        /\ \/ /\ step[s] = "quiesce"
              /\ Goto(s, "copy") /\ StartCopy(s)
              /\ hot' = IF ok = Mounts THEN hot \union {s} ELSE hot
              /\ bare' = IF ok = Mounts THEN bare ELSE bare \union {s}
           \/ step[s] # "quiesce" /\ UNCHANGED <<step, copy, files, hot, bare>>
    /\ UNCHANGED <<serial, vm, torn, name, rows>>

\* Thaw takes the list and thaws what is on it, as far as open and FITHAW
\* let it.
Thaw(s) ==
    /\ Up /\ <<s, "thaw">> \in req
    /\ req' = req \ {<<s, "thaw">>}
    /\ \E stuck \in SUBSET list :
        /\ frozen' = frozen \ (list \ stuck)
        /\ slipped' = slipped \union stuck
    /\ list' = {}
    /\ IF step[s] = "thaw" THEN Goto(s, "insert") ELSE UNCHANGED step
    /\ UNCHANGED <<serial, vm, copy, hot, bare, torn, name, files, rows>>

\* A process of the guest writes to a mount that is not frozen.
GuestWrite ==
    /\ Up /\ frozen # Mounts
    /\ torn' = [s \in Snaps |-> torn[s] \/ copy[s] = "running"]
    /\ UNCHANGED <<serial, vm, guestVars, req, step, copy, hot, bare, name, files, rows>>

-----------------------------------------------------------------------------
(* The VM around it.                                                       *)

\* stop marks the row Stopping and asks the guest to shut down.
VmStopping ==
    /\ vm = "running"
    /\ vm' = "stopping"
    /\ UNCHANGED <<serial, guestVars, req, hostVars>>

\* The guest stops or dies: its memory and every connection are gone.
VmStops ==
    /\ Up
    /\ vm' = "stopped"
    /\ frozen' = {} /\ list' = {} /\ slipped' = {} /\ req' = {}
    /\ hot' = {s \in hot : copy[s] # "running"}
    /\ UNCHANGED <<serial, step, copy, bare, torn, name, files, rows>>

VmStarts ==
    /\ vm = "stopped" /\ (serial => NoneInProgress)
    /\ vm' = "running"
    /\ UNCHANGED <<serial, guestVars, req, hostVars>>

\* DELETE FROM vms cascades to the rows; nothing removes the files.
VmRemoved ==
    /\ vm = "stopped" /\ (serial => NoneInProgress)
    /\ vm' = "removed"
    /\ rows' = {}
    /\ UNCHANGED <<serial, guestVars, req, step, copy, hot, bare, torn, name, files>>

-----------------------------------------------------------------------------

SnapStep(s) ==
    \/ \E n \in Names \union {NoName} : Begin(s, n)
    \/ QuiesceFails(s) \/ CopyEnds(s) \/ CopyReturns(s) \/ ThawFails(s) \/ Insert(s)
    \/ DeleteFile(s) \/ DeleteRow(s) \/ Cancel(s)

GuestStep(s) == Quiesce(s) \/ Thaw(s)

Next ==
    \/ \E s \in Snaps : SnapStep(s) \/ GuestStep(s)
    \/ GuestWrite \/ VmStopping \/ VmStops \/ VmStarts \/ VmRemoved

\* The runtime polls its futures, disk copies end, and the agent of a
\* running guest answers.
Fairness ==
    \A s \in Snaps :
        /\ WF_vars(CopyEnds(s)) /\ WF_vars(CopyReturns(s))
        /\ WF_vars(ThawFails(s)) /\ WF_vars(Insert(s)) /\ WF_vars(GuestStep(s))

Spec == Init /\ [][Next]_vars /\ Fairness

-----------------------------------------------------------------------------
(* Properties.                                                             *)

\* Every variable keeps its type.
TypeOK ==
    /\ serial \in BOOLEAN /\ vm \in {"running", "stopping", "stopped", "removed"}
    /\ frozen \in SUBSET Mounts /\ list \in SUBSET Mounts /\ slipped \in SUBSET Mounts
    /\ req \in SUBSET (Snaps \X {"quiesce", "thaw"})
    /\ step \in [Snaps -> {"new", "quiesce", "copy", "copy_cold", "thaw", "insert",
                           "end", "delete"}]
    /\ copy \in [Snaps -> {"none", "running", "done", "failed"}]
    /\ hot \in SUBSET Snaps /\ bare \in SUBSET Snaps
    /\ torn \in [Snaps -> BOOLEAN] /\ name \in [Snaps -> Names \union {NoName}]
    /\ files \in SUBSET Snaps /\ rows \in SUBSET Snaps

\* Whatever the interleaving of Quiesce, Thaw, cancellation and restart, all
\* that is frozen is on the list, so that one more Thaw undoes the freeze;
\* but a mount whose FITHAW, or a later FIFREEZE of it, the kernel refused.
FrozenTracked == frozen \ slipped \subseteq list

\* A row stands for a whole copy that is still there, until a delete has
\* begun; and explicit names of a VM's snapshots differ.
RowsAreWhole ==
    /\ \A s \in rows : copy[s] = "done" /\ (s \in files \/ step[s] = "delete")
    /\ \A s, t \in rows : name[s] = name[t] => s = t \/ name[s] = NoName

\* A snapshot of a running VM whose mounts could all be frozen is not torn:
\* the guest wrote nothing to the disk while it was copied.
RunningNeverTorn == \A s \in rows \intersect hot : ~torn[s]

\* For an embedder that takes snapshots one at a time, of a stopped VM or of
\* a running one, none is torn but where freeze_filesystems skipped a mount
\* or the VM was stopping, which create neither refuses nor quiesces.
SerialNeverTorn == serial => \A s \in rows : torn[s] => s \in bare

\* For such an embedder a frozen guest is always thawed again, also when
\* the copy fails, but for the mounts the kernel would not thaw.
SerialThaws == serial => (frozen # {} ~> frozen \subseteq slipped)

=============================================================================
