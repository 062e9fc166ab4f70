------------------------------- MODULE Worker -------------------------------
(***************************************************************************)
(* The HTTP worker (`bux serve`): handlers of crates/bux-serve running in  *)
(* parallel over one Runtime, its vms and volumes tables, the workspace    *)
(* directories and the image index.  A request is a slot of Reqs; between  *)
(* two statements of its handler any other request, the sweeper or a shim  *)
(* exit may step in, and the worker may restart.                           *)
(*                                                                         *)
(* Abstracted: a tenant and an agent are the sandbox name built from them  *)
(* (ids.rs makes the pair injective), whose workspace volume has the same  *)
(* key; a create specification is its image; every sandbox weighs one unit *)
(* of RAM; the engine behind a status is VmLifecycle.                      *)
(***************************************************************************)
EXTENDS Naturals, FiniteSets

CONSTANTS Reqs,          \* request slots (requests in flight)
          Ids,           \* sandbox ids gen_id may return: bounds creations
          Names,         \* sandbox names, one per (tenant, agent)
          Tenants,       \* tenants holding an API key
          TenantOf,      \* [Names -> Tenants]
          Specs,         \* images a create may ask for
          MaxSandboxes,  \* Limits.max_sandboxes
          MaxGlobal,     \* Limits.max_sandboxes_global
          MaxRunning,    \* Limits.max_running_ram_mib, in sandboxes
          Kept, KeptName, \* a sandbox that is there from the start, of an agent that sends
                          \* no request: a restored one, to be cloned
          None           \* absent id, name, image

\* The sandbox that is there from the start is within its tenant's cap.
ASSUME WorkerAssumption ==
  /\ IsFiniteSet(Reqs) /\ IsFiniteSet(Ids)
  /\ TenantOf \in [Names -> Tenants]
  /\ Kept \in Ids /\ KeptName \in Names
  /\ MaxSandboxes \in Nat \ {0}

VARIABLES row,     \* vms table: [Ids -> row record]
          vols,    \* names with a row in volumes
          dirs,    \* names with a directory under volumes/
          att,     \* vm_volumes: pairs <<id, name>>
          cached,  \* references in the image index
          req,     \* [Reqs -> request record]
          raced,   \* names whose volume was resolved during its removal
          slipped  \* tenants whose last admission overlapped another one

vars == <<row, vols, dirs, att, cached, req, raced, slipped>>

Statuses == {"Running", "Stopping", "Stopped"}

\* A clone's image label is the path of its flattened base disk.
DiskLabel == "disk"

Row == [st : {"unused", "gone"} \cup Statuses, name : Names \cup {None},
        spec : Specs \cup {DiskLabel, None}]

Blank == [st |-> "unused", name |-> None, spec |-> None]

Ops == {"create", "start", "delete", "clone", "pull", "delete_image"}

\* 200..204 are the successes, 400 any refusal; 0 stands for no answer yet.
Codes == {0, 200, 201, 204, 400}

Pcs == {"idle", "lookup", "occupied", "admit", "flatten", "image", "volget", "voldir",
        "volins", "spawn", "insert", "link", "ready", "failed", "poll", "start",
        "startready", "stop", "stopping", "remove", "rmget", "rmrow", "rmdir",
        "pull", "rmimage", "done"}

Request == [op : Ops, pc : Pcs, tenant : Tenants, name : Names \cup {None},
            spec : Specs \cup {DiskLabel, None}, id : Ids \cup {None}, ans : Codes,
            finishing : BOOLEAN, polled : BOOLEAN, seen : SUBSET Ids]

Idle == [op |-> "create", pc |-> "idle", tenant |-> CHOOSE t \in Tenants : TRUE,
         name |-> None, spec |-> None, id |-> None, ans |-> 0,
         finishing |-> FALSE, polled |-> FALSE, seen |-> {}]

Present(v) == row[v].st \in Statuses
Active(v) == row[v].st \in {"Running", "Stopping"}
Named(n) == {v \in Ids : Present(v) /\ row[v].name = n}
Attached(n) == {v \in Ids : <<v, n>> \in att}

Init ==
  /\ row = [[v \in Ids |-> Blank] EXCEPT ![Kept] =
              [st |-> "Running", name |-> KeptName, spec |-> DiskLabel]]
  /\ vols = {KeptName} /\ dirs = {KeptName} /\ att = {<<Kept, KeptName>>}
  /\ cached = {} /\ raced = {} /\ slipped = {}
  /\ req = [r \in Reqs |-> Idle]

-----------------------------------------------------------------------------
\* Request bookkeeping: the record after an answer, or at the next step.

\* The properties tell the successes apart; a refusal is only remembered as one.
Answer(q, code, v) ==
  IF code < 400 THEN [Idle EXCEPT !.pc = "done", !.ans = code, !.id = v]
                ELSE [Idle EXCEPT !.pc = "done", !.ans = 400]
Goto(q, pc) == [q EXCEPT !.pc = pc]
Becomes(r, q) == req' = [req EXCEPT ![r] = q]
At(r, pc) == req[r].pc = pc

\* resume_matching: a running sandbox is the answer, a stopping one is polled, a
\* stopped one is started.  The handle it is given is not compared with the request.
ResumeMatching(q, v) ==
  CASE row[v].st = "Running"  -> Answer(q, 200, v)
    [] row[v].st = "Stopping" -> [q EXCEPT !.pc = "poll", !.polled = TRUE]
    [] row[v].st = "Stopped"  -> [q EXCEPT !.pc = "start", !.id = v]

\* spec_mismatch: the stored image must be the requested one (a disk label never is).
SpecMismatch(q, v) == row[v].spec # q.spec

\* Mutation: an existing sandbox is resumed as it is.
ExistingResumed(q, v) == ResumeMatching(q, v)

\* existing_sandbox: the specification must match before the sandbox is resumed.
ExistingSandbox(q, v) ==
  IF SpecMismatch(q, v) THEN Answer(q, 409, v) ELSE ResumeMatching(q, v)

\* Mutation: the caps of the whole worker only.
AdmitsGlobal(q) ==
  LET rows == {v \in Ids : Present(v)} IN
  /\ Cardinality(rows) < MaxGlobal
  /\ Cardinality({v \in rows : Active(v)}) + 1 <= MaxRunning

\* admit: per-tenant, global and running-RAM caps over one list() of the table.
Admits(q) ==
  LET rows == {v \in Ids : Present(v)} IN
  /\ Cardinality({v \in rows : TenantOf[row[v].name] = q.tenant}) < MaxSandboxes
  /\ Cardinality(rows) < MaxGlobal
  /\ Cardinality({v \in rows : Active(v)}) + 1 <= MaxRunning

\* A request of q's tenant that was admitted and has not inserted its row yet.
Admitted(q) == \E r \in Reqs :
  /\ req[r].tenant = q.tenant /\ req[r].op \in {"create", "clone"} /\ ~req[r].finishing
  /\ req[r].pc \in {"flatten", "image", "volget", "voldir", "volins", "spawn", "insert"}

\* load_owned: exact id, and 404 for a missing row or another tenant's.
Owned(q, v) == Present(v) /\ TenantOf[row[v].name] = q.tenant

\* delete_one derives the workspace volume from the row it loads; clone and restore
\* go on to prepare_spawn.
LoadOwned(r, q) ==
  LET v == q.id IN
  Becomes(r, CASE ~Owned(q, v)                                -> Answer(q, 404, None)
               [] Owned(q, v) /\ q.op = "clone"               -> Goto(q, "occupied")
               [] Owned(q, v) /\ q.op = "delete"              ->
                    [q EXCEPT !.pc = IF Active(v) THEN "stop" ELSE "remove",
                              !.name = row[v].name]
               [] Owned(q, v) /\ q.op = "start" /\ Active(v)  -> Answer(q, 409, None)
               [] Owned(q, v) /\ q.op = "start" /\ ~Active(v) -> Goto(q, "start"))

\* Mutation: only running sandboxes hold their image.
ImageInUseRunning(r, q) ==
  LET users == {v \in Ids : row[v].st = "Running" /\ row[v].spec = q.spec} IN
  Becomes(r, IF users # {} THEN Answer(q, 409, None)
             ELSE [q EXCEPT !.pc = "rmimage", !.seen = {v \in Ids : row[v] # Blank}])

\* delete_image: image_in_use over one list(), then remove_image.
ImageInUse(r, q) ==
  LET users == {v \in Ids : Present(v) /\ row[v].spec = q.spec} IN
  Becomes(r, IF users # {} THEN Answer(q, 409, None)
             ELSE [q EXCEPT !.pc = "rmimage", !.seen = {v \in Ids : row[v] # Blank}])

-----------------------------------------------------------------------------
\* A request arrives.

BeginCreate(r) ==
  /\ req[r].pc \in {"idle", "done"}
  /\ \E n \in Names \ {KeptName}, s \in Specs :
       Becomes(r, [Idle EXCEPT !.pc = "lookup", !.tenant = TenantOf[n],
                               !.name = n, !.spec = s])
  /\ UNCHANGED <<row, vols, dirs, att, cached, raced, slipped>>

\* The other handlers begin with a read of the tables; nothing comes between a request's
\* arrival and that read that it could tell.
BeginById(r) ==
  /\ req[r].pc \in {"idle", "done"}
  /\ \E v \in Ids \ {Kept}, t \in Tenants, op \in {"start", "delete"} :
       LoadOwned(r, [Idle EXCEPT !.op = op, !.tenant = t, !.id = v])
  /\ UNCHANGED <<row, vols, dirs, att, cached, raced, slipped>>

\* clone and restore share every step from load_owned to finish_spawn.
BeginClone(r) ==
  /\ req[r].pc \in {"idle", "done"}
  /\ \E v \in Ids, n \in Names \ {KeptName} :
       LoadOwned(r, [Idle EXCEPT !.op = "clone", !.tenant = TenantOf[n],
                                 !.name = n, !.spec = DiskLabel, !.id = v])
  /\ UNCHANGED <<row, vols, dirs, att, cached, raced, slipped>>

\* pull_image, after canonical_reference and admit_disk.
BeginPull(r) ==
  /\ req[r].pc \in {"idle", "done"}
  /\ \E s \in Specs : Becomes(r, [Idle EXCEPT !.op = "pull", !.pc = "pull", !.spec = s])
  /\ UNCHANGED <<row, vols, dirs, att, cached, raced, slipped>>

\* A token, an agent, an id, an image or a body that is refused before any read.
Invalid(r) ==
  /\ req[r].pc \in {"idle", "done"}
  /\ Becomes(r, Answer(req[r], 400, None))
  /\ UNCHANGED <<row, vols, dirs, att, cached, raced, slipped>>

BeginDeleteImage(r) ==
  /\ req[r].pc \in {"idle", "done"}
  /\ \E s \in Specs : ImageInUse(r, [Idle EXCEPT !.op = "delete_image", !.spec = s])
  /\ UNCHANGED <<row, vols, dirs, att, cached, raced, slipped>>

-----------------------------------------------------------------------------
\* create: look the name up, admit, resolve image and volume, spawn, link, wait ready.

Lookup(r) ==
  /\ At(r, "lookup")
  /\ \/ /\ Named(req[r].name) = {}
        /\ Becomes(r, Goto(req[r], "admit"))
     \/ \E v \in Named(req[r].name) : Becomes(r, ExistingSandbox(req[r], v))
  /\ UNCHANGED <<row, vols, dirs, att, cached, raced, slipped>>

Admit(r) ==
  /\ At(r, "admit")
  /\ Admits(req[r])
  /\ slipped' = IF Admitted(req[r]) THEN slipped \cup {req[r].tenant}
                                    ELSE slipped \ {req[r].tenant}
  /\ Becomes(r, Goto(req[r], IF req[r].op = "clone" THEN "flatten" ELSE "image"))
  /\ UNCHANGED <<row, vols, dirs, att, cached, raced>>

\* A cap is reached: one of Admits', or the disk cap, at any time.
AdmitRefused(r) ==
  /\ At(r, "admit")
  /\ Becomes(r, Answer(req[r], 429, None))
  /\ UNCHANGED <<row, vols, dirs, att, cached, raced, slipped>>

\* resolve_image: ensure leaves the reference in the index, or the pull fails.
ResolveImage(r) ==
  /\ At(r, "image")
  /\ \/ cached' = cached \cup {req[r].spec} /\ Becomes(r, Goto(req[r], "volget"))
     \/ cached' = cached /\ Becomes(r, Goto(req[r], "failed"))
  /\ UNCHANGED <<row, vols, dirs, att, raced, slipped>>

\* VolumeManager::create, three statements: select, create_dir_all, insert.  The history
\* variable raced records that creation and removal of one volume overlapped, until the
\* directory is made anew.
UnderCreation(n) == \E r \in Reqs : req[r].pc = "volins" /\ req[r].name = n
UnderRemoval(n) == \E r \in Reqs : req[r].pc \in {"rmrow", "rmdir"} /\ req[r].name = n
NoteRace(n) == raced' = IF UnderRemoval(n) THEN raced \cup {n} ELSE raced

AfterVolume(q) == Goto(q, IF q.finishing THEN "link" ELSE "spawn")

VolumeGet(r) ==
  /\ At(r, "volget")
  /\ Becomes(r, IF req[r].name \in vols THEN AfterVolume(req[r]) ELSE Goto(req[r], "voldir"))
  /\ NoteRace(req[r].name)
  /\ UNCHANGED <<row, vols, dirs, att, cached, slipped>>

VolumeDir(r) ==
  /\ At(r, "voldir")
  /\ dirs' = dirs \cup {req[r].name}
  /\ Becomes(r, Goto(req[r], "volins"))
  /\ raced' = IF UnderRemoval(req[r].name) THEN raced \cup {req[r].name}
                                           ELSE raced \ {req[r].name}
  /\ UNCHANGED <<row, vols, att, cached, slipped>>

VolumeInsert(r) ==
  /\ At(r, "volins")
  /\ IF req[r].name \in vols
     THEN Becomes(r, Goto(req[r], "failed")) /\ vols' = vols
     ELSE Becomes(r, AfterVolume(req[r])) /\ vols' = vols \cup {req[r].name}
  /\ NoteRace(req[r].name)
  /\ UNCHANGED <<row, dirs, att, cached, slipped>>

\* spawn_config up to the insert: the name check, overlay, secrets, network, shim.
Spawn(r) ==
  /\ At(r, "spawn")
  /\ \/ Named(req[r].name) = {} /\ Becomes(r, Goto(req[r], "insert"))
     \/ Becomes(r, Goto(req[r], "failed"))
  /\ UNCHANGED <<row, vols, dirs, att, cached, raced, slipped>>

\* Mutation: no UNIQUE on the name, the check of spawn_config is all there is.
InsertAny(r) ==
  /\ At(r, "insert")
  /\ \E v \in Ids :
       /\ row[v] = Blank
       /\ row' = [row EXCEPT ![v] = [st |-> "Running", name |-> req[r].name,
                                     spec |-> req[r].spec]]
       /\ Becomes(r, [req[r] EXCEPT !.pc = "link", !.id = v])
  /\ UNCHANGED <<vols, dirs, att, cached, raced, slipped>>

\* db.insert under UNIQUE(name); SpawnAbort undoes the spawn when it fails.
InsertVm(r) ==
  /\ At(r, "insert")
  /\ \/ row' = row /\ Becomes(r, Goto(req[r], "failed"))
     \/ \E v \in Ids :
          /\ row[v] = Blank /\ Named(req[r].name) = {}
          /\ row' = [row EXCEPT ![v] = [st |-> "Running", name |-> req[r].name,
                                        spec |-> req[r].spec]]
          /\ Becomes(r, [req[r] EXCEPT !.pc = "link", !.id = v])
  /\ UNCHANGED <<vols, dirs, att, cached, raced, slipped>>

\* abort_unready: attachments and row go.
AbortUnready(v) ==
  /\ att' = {p \in att : p[1] # v}
  /\ row' = [row EXCEPT ![v] = [Blank EXCEPT !.st = "gone"]]

\* link_vm under the two foreign keys.  In create a failure aborts the sandbox; in
\* finish_spawn it only answers an error.
CanLink(q) == Present(q.id) /\ q.name \in vols

LinkVm(r) ==
  LET q == req[r] IN
  /\ At(r, "link")
  /\ \/ /\ CanLink(q)
        /\ att' = att \cup {<<q.id, q.name>>}
        /\ row' = row
        /\ Becomes(r, IF q.finishing THEN Answer(q, 201, q.id) ELSE Goto(q, "ready"))
     \/ /\ ~CanLink(q)
        /\ IF q.finishing THEN UNCHANGED <<att, row>> ELSE AbortUnready(q.id)
        /\ Becomes(r, [q EXCEPT !.pc = "failed", !.id = None])
  /\ UNCHANGED <<vols, dirs, cached, raced, slipped>>

\* finish_spawn resolves and links the workspace a second time.
FinishSpawn(q) == [q EXCEPT !.pc = "volget", !.finishing = TRUE]

\* wait_ready: the agent answers, or the create is aborted.
WaitReady(r) ==
  LET q == req[r] IN
  /\ At(r, "ready")
  /\ \/ /\ Becomes(r, IF q.op = "clone" THEN FinishSpawn(q) ELSE Answer(q, 201, q.id))
        /\ UNCHANGED <<att, row>>
     \/ /\ AbortUnready(q.id)
        /\ Becomes(r, [q EXCEPT !.pc = "failed", !.id = None])
  /\ UNCHANGED <<vols, dirs, cached, raced, slipped>>

\* The error arm of create_new looks the name up again; spawn_create_error (clone,
\* restore) and a failing finish_spawn only choose the error.
CreateFailed(r) ==
  LET q == req[r] IN
  /\ At(r, "failed")
  /\ \/ q.op = "clone" /\ Becomes(r, Answer(q, IF Named(q.name) # {} THEN 409 ELSE 500, None))
     \/ q.op = "create" /\ Named(q.name) = {} /\ Becomes(r, Answer(q, 500, None))
     \/ q.op = "create" /\ \E v \in Named(q.name) : Becomes(r, ExistingSandbox(q, v))
  /\ UNCHANGED <<row, vols, dirs, att, cached, raced, slipped>>

\* wait_not_stopping: re-read the name every 100 ms until it is not Stopping; the
\* deadline ends the wait.
Poll(r) ==
  LET q == req[r] IN
  /\ At(r, "poll")
  /\ \/ Named(q.name) = {} /\ Becomes(r, Answer(q, 404, None))
     \/ \E v \in Named(q.name) :
          /\ row[v].st # "Stopping"
          /\ Becomes(r, ResumeMatching(q, v))
     \/ \E v \in Named(q.name) : row[v].st = "Stopping" /\ Becomes(r, Answer(q, 503, None))
  /\ UNCHANGED <<row, vols, dirs, att, cached, raced, slipped>>

\* Vm::start on a handle read as Stopped: the row becomes Running if it still exists.
StartVm(r) ==
  LET q == req[r] IN
  /\ At(r, "start")
  /\ \/ /\ row' = IF Present(q.id) THEN [row EXCEPT ![q.id].st = "Running"] ELSE row
        /\ Becomes(r, Goto(q, "startready"))
     \/ row' = row /\ Becomes(r, Answer(q, 500, None))
  /\ UNCHANGED <<vols, dirs, att, cached, raced, slipped>>

StartReady(r) ==
  LET q == req[r] IN
  /\ At(r, "startready")
  /\ \/ Becomes(r, Answer(q, 200, q.id)) /\ row' = row
     \/ /\ row' = IF Present(q.id) THEN [row EXCEPT ![q.id].st = "Stopped"] ELSE row
        /\ Becomes(r, Answer(q, 503, None))
  /\ UNCHANGED <<vols, dirs, att, cached, raced, slipped>>

-----------------------------------------------------------------------------
\* Requests on an exact id.

\* prepare_spawn, first half: reject_occupied.
RejectOccupied(r) ==
  /\ At(r, "occupied")
  /\ Becomes(r, IF Named(req[r].name) # {} THEN Answer(req[r], 409, None)
                ELSE Goto(req[r], "admit"))
  /\ UNCHANGED <<row, vols, dirs, att, cached, raced, slipped>>

\* clone_prepare / restore_prepare: the source must still be there to be flattened.
Flatten(r) ==
  /\ At(r, "flatten")
  /\ Becomes(r, [req[r] EXCEPT !.pc = IF Present(req[r].id) THEN "volget" ELSE "failed",
                               !.id = None])
  /\ UNCHANGED <<row, vols, dirs, att, cached, raced, slipped>>

\* stop_for_delete: a stop marks the row Stopping, then it exits or is killed.
StopForDelete(r) ==
  LET q == req[r] IN
  /\ At(r, "stop")
  /\ row' = IF row[q.id].st = "Running" THEN [row EXCEPT ![q.id].st = "Stopping"] ELSE row
  /\ Becomes(r, Goto(q, "stopping"))
  /\ UNCHANGED <<vols, dirs, att, cached, raced, slipped>>

Stopped(r) ==
  LET q == req[r] IN
  /\ At(r, "stopping")
  /\ row' = IF Present(q.id) THEN [row EXCEPT ![q.id].st = "Stopped"] ELSE row
  /\ Becomes(r, Goto(q, "remove"))
  /\ UNCHANGED <<vols, dirs, att, cached, raced, slipped>>

\* Runtime::remove: a fresh lookup, can_remove, then remove_stored.
RemoveVm(r) ==
  LET q == req[r] IN
  /\ At(r, "remove")
  /\ \/ ~Present(q.id) /\ Becomes(r, Answer(q, 404, None)) /\ UNCHANGED <<att, row>>
     \/ Active(q.id) /\ Becomes(r, Answer(q, 409, None)) /\ UNCHANGED <<att, row>>
     \/ /\ row[q.id].st = "Stopped"
        /\ AbortUnready(q.id)
        /\ Becomes(r, [q EXCEPT !.pc = "rmget", !.id = None])
  /\ UNCHANGED <<vols, dirs, cached, raced, slipped>>

\* VolumeManager::remove, three statements: get and count, delete, remove_dir_all.
VolumeCount(r) ==
  LET q == req[r] IN
  /\ At(r, "rmget")
  /\ Becomes(r, CASE q.name \notin vols -> Answer(q, 204, None)
                  [] q.name \in vols /\ Attached(q.name) # {} -> Answer(q, 500, None)
                  [] q.name \in vols /\ Attached(q.name) = {} -> Goto(q, "rmrow"))
  /\ UNCHANGED <<row, vols, dirs, att, cached, raced, slipped>>

\* Mutation: the delete goes by the count read before.
VolumeDeleteCounted(r) ==
  LET q == req[r] IN
  /\ At(r, "rmrow")
  /\ vols' = vols \ {q.name} /\ Becomes(r, Goto(q, "rmdir"))
  /\ UNCHANGED <<row, dirs, att, cached, raced, slipped>>

VolumeDelete(r) ==
  LET q == req[r] IN
  /\ At(r, "rmrow")
  /\ IF Attached(q.name) # {}
     THEN vols' = vols /\ Becomes(r, Answer(q, 500, None))
     ELSE vols' = vols \ {q.name} /\ Becomes(r, Goto(q, "rmdir"))
  /\ UNCHANGED <<row, dirs, att, cached, raced, slipped>>

VolumeRmdir(r) ==
  /\ At(r, "rmdir")
  /\ dirs' = dirs \ {req[r].name}
  /\ Becomes(r, Answer(req[r], 204, None))
  /\ raced' = IF UnderCreation(req[r].name) \/ req[r].name \in vols
               THEN raced \cup {req[r].name} ELSE raced \ {req[r].name}
  /\ UNCHANGED <<row, vols, att, cached, slipped>>

\* pull_from_registry under its deadline: the index entry comes last; a manifest over
\* the limit, an error or the deadline ends it before.
PullImage(r) ==
  /\ At(r, "pull")
  /\ \/ cached' = cached \cup {req[r].spec} /\ Becomes(r, Answer(req[r], 200, None))
     \/ cached' = cached /\ Becomes(r, Answer(req[r], 500, None))
  /\ UNCHANGED <<row, vols, dirs, att, raced, slipped>>

\* remove_image.
RemoveImage(r) ==
  LET q == req[r] IN
  /\ At(r, "rmimage")
  /\ Becomes(r, Answer(q, IF q.spec \in cached THEN 204 ELSE 404, None))
  /\ cached' = cached \ {q.spec}
  /\ UNCHANGED <<row, vols, dirs, att, raced, slipped>>

-----------------------------------------------------------------------------
\* The engine and the process around the handlers.

\* A shim exits, and the next read of the row marks it (Runtime::handle, list), or the
\* sweep ends an idle sandbox and marks it itself: a row that was active is Stopped.
Exit(v) ==
  /\ Active(v)
  /\ row' = [row EXCEPT ![v].st = "Stopped"]
  /\ UNCHANGED <<vols, dirs, att, cached, req, raced, slipped>>

\* The worker restarts: handlers are lost, tables, directories and detached shims stay.
Restart ==
  /\ \E r \in Reqs : req[r].pc \notin {"idle", "done"}
  /\ req' = [r \in Reqs |-> Idle]
  /\ UNCHANGED <<row, vols, dirs, att, cached, raced, slipped>>

Step(r) ==
  \/ Lookup(r) \/ Admit(r) \/ AdmitRefused(r) \/ ResolveImage(r)
  \/ VolumeGet(r) \/ VolumeDir(r) \/ VolumeInsert(r)
  \/ Spawn(r) \/ InsertVm(r) \/ LinkVm(r) \/ WaitReady(r) \/ CreateFailed(r)
  \/ Poll(r) \/ StartVm(r) \/ StartReady(r)
  \/ RejectOccupied(r) \/ Flatten(r)
  \/ StopForDelete(r) \/ Stopped(r) \/ RemoveVm(r)
  \/ VolumeCount(r) \/ VolumeDelete(r) \/ VolumeRmdir(r)
  \/ PullImage(r) \/ RemoveImage(r)

Next ==
  \/ \E r \in Reqs : BeginCreate(r) \/ BeginById(r) \/ BeginClone(r) \/ BeginPull(r)
                    \/ BeginDeleteImage(r) \/ Invalid(r)
  \/ \E r \in Reqs : Step(r)
  \/ \E v \in Ids \ {Kept} : Exit(v)
  \/ Restart

Spec == Init /\ [][Next]_vars

-----------------------------------------------------------------------------

\* However many creates, clones and restores race for one tenant and agent, at most one
\* sandbox row carries the name: the early name checks are only advisory, the UNIQUE
\* insert decides.
OneSandboxPerAgent == \A n \in Names : Cardinality(Named(n)) <= 1

\* Admission reads the table before a boot of many steps.  Requests that are past it
\* together can take a tenant over its cap, by at most the other requests in flight;
\* an admission that no other overlaps restores the cap, through deletes, restarts and
\* failed boots.
AdmissionSlack ==
  \A t \in Tenants :
    Cardinality({v \in Ids : Present(v) /\ TenantOf[row[v].name] = t})
      <= MaxSandboxes + (IF t \in slipped THEN Cardinality(Reqs) - 1 ELSE 0)

\* An attached workspace keeps its row and its directory through every interleaving of
\* creates, deletes and restarts, unless VolumeManager::create and ::remove of that very
\* volume overlapped.
WorkspaceKept ==
  \A p \in att : Present(p[1]) /\ p[2] \in vols /\ (p[2] \in dirs \/ p[2] \in raced)

\* The step that answers request r with a sandbox.
Answers(r) ==
  /\ req[r].pc # "done" /\ req'[r].pc = "done"
  /\ req'[r].ans \in {200, 201} /\ req'[r].id # None

Matches(r) ==
  LET v == req'[r].id IN
  row[v].st \in Statuses =>
    /\ TenantOf[row[v].name] = req[r].tenant
    /\ req[r].op = "create" => row[v].name = req[r].name /\ row[v].spec = req[r].spec

\* A create, start or clone that did not wait for a stopping sandbox is answered with a
\* sandbox of its tenant, and a create with the one of its agent and image, whatever
\* was deleted and created in between.
AnswerMatches == [][\A r \in Reqs : Answers(r) /\ ~req[r].polled => Matches(r)]_vars

\* delete_image takes an image from under a sandbox only when the sandbox row appeared
\* after the in-use check of that very request.
ImageRemovedUnused ==
  [][\A r \in Reqs :
       At(r, "rmimage") /\ req'[r].ans = 204 =>
         \A v \in req[r].seen : Present(v) => row[v].spec # req[r].spec]_vars
=============================================================================
