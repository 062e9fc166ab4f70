------------------------------ MODULE OciStore ------------------------------
(***************************************************************************)
(* The image store of crates/bux-oci: layer blobs and rootfs directories   *)
(* made in a shared staging path and renamed into place, the images,       *)
(* layers and image_layers tables, pull and remove as concurrent tasks of  *)
(* one process, and a crash of that process at any point.                  *)
(*                                                                         *)
(* A file or directory is "none", "partial", "whole", or the task that     *)
(* created (truncated, re-made) it last and is still writing to it.        *)
(***************************************************************************)
EXTENDS Integers, Sequences, Functions

CONSTANTS
    Tasks,          \* concurrent pulls and removals
    Refs,           \* image references
    Digests,        \* manifest digests
    Layers,         \* layer digests
    LayersOf,       \* the layers of each manifest, in order
    Manifests,      \* the manifests a reference may resolve to over time
    MaxRefCount,    \* bound: no layer is committed again beyond it
    None

ASSUME ManifestAssumption ==
    /\ LayersOf \in [Digests -> Seq(Layers)]
    /\ \A d \in Digests : IsInjective(LayersOf[d])
    /\ Manifests \in [Refs -> SUBSET Digests]
    /\ MaxRefCount \in Nat
    /\ None \notin Digests \union Refs \union Layers
    /\ Refs \intersect Digests = {}
    /\ Tasks \intersect {"none", "partial", "whole"} = {}

VARIABLES
    serial,         \* TRUE: the embedder pulls and removes one at a time
    stage, blob,    \* layers/{digest}.tar.gz.tmp and layers/{digest}.tar.gz
    rstage, rootfs, \* rootfs/{digest}.tmp and rootfs/{digest}
    refCount,       \* layers.ref_count; 0 when there is no row
    images,         \* images.digest, or None
    imageLayers,    \* image_layers of each reference
    task,           \* where each task is
    broken          \* history of a serial run: what a removal left half-way

fileVars == <<stage, blob, rstage, rootfs>>
dbVars == <<refCount, images, imageLayers>>
vars == <<serial, fileVars, dbVars, task, broken>>

Idle == [pc |-> "idle", ref |-> None, dig |-> None, cur |-> None, todo |-> <<>>]

Init ==
    /\ serial \in BOOLEAN
    /\ stage = [l \in Layers |-> "none"] /\ blob = [l \in Layers |-> "none"]
    /\ rstage = [d \in Digests |-> "none"] /\ rootfs = [d \in Digests |-> "none"]
    /\ refCount = [l \in Layers |-> 0]
    /\ images = [r \in Refs |-> None] /\ imageLayers = [r \in Refs |-> {}]
    /\ task = [t \in Tasks |-> Idle]
    /\ broken = {}

LayerRows == {l \in Layers : refCount[l] > 0}

\* Images and rootfs directories whose removal stopped half-way.
Break(S) == broken' = IF serial THEN broken \union S ELSE broken

Become(t, r) == task' = [task EXCEPT ![t] = r]

Goto(t, point) == Become(t, [task[t] EXCEPT !.pc = point])

\* What task t was writing is complete, or never will be.
Settle(files, t, state) ==
    [f \in DOMAIN files |-> IF files[f] = t THEN state ELSE files[f]]

-----------------------------------------------------------------------------
(* pull.                                                                   *)

PullBegin(t, r, d) ==
    /\ task[t].pc = "idle"
    /\ serial => \A u \in Tasks : task[u].pc = "idle"
    /\ d \in Manifests[r]
    /\ Become(t, [Idle EXCEPT !.pc = "layers", !.ref = r, !.dig = d, !.todo = LayersOf[d]])
    /\ UNCHANGED <<serial, fileVars, dbVars, broken>>

\* has_layer looks at the file alone.
LayerCached(t) ==
    LET l == Head(task[t].todo) IN
    /\ task[t].pc = "layers" /\ task[t].todo # <<>> /\ blob[l] # "none"
    /\ Become(t, [task[t] EXCEPT !.todo = Tail(@)])
    /\ UNCHANGED <<serial, fileVars, dbVars, broken>>

\* Mutant: the download goes straight to the final path.
LayerStageInPlace(t) ==
    LET l == Head(task[t].todo) IN
    /\ task[t].pc = "layers" /\ task[t].todo # <<>> /\ blob[l] = "none"
    /\ blob' = [blob EXCEPT ![l] = t] /\ stage' = [stage EXCEPT ![l] = t]
    /\ Become(t, [task[t] EXCEPT !.pc = "download", !.cur = l, !.todo = Tail(@)])
    /\ UNCHANGED <<serial, rstage, rootfs, dbVars, broken>>

\* File::create truncates a staging file that another task may be writing.
LayerStage(t) ==
    LET l == Head(task[t].todo) IN
    /\ task[t].pc = "layers" /\ task[t].todo # <<>> /\ blob[l] = "none"
    /\ stage' = [stage EXCEPT ![l] = t]
    /\ Become(t, [task[t] EXCEPT !.pc = "download", !.cur = l, !.todo = Tail(@)])
    /\ UNCHANGED <<serial, blob, rstage, rootfs, dbVars, broken>>

\* pull_blob ends; the task's file may have been renamed meanwhile.
LayerDownloaded(t) ==
    /\ task[t].pc = "download"
    /\ stage' = Settle(stage, t, "whole") /\ blob' = Settle(blob, t, "whole")
    /\ Goto(t, "rename")
    /\ UNCHANGED <<serial, rstage, rootfs, dbVars, broken>>

\* The download fails, or the pull's future is dropped.
LayerFails(t) ==
    /\ task[t].pc = "download"
    /\ stage' = Settle(stage, t, "partial") /\ blob' = Settle(blob, t, "partial")
    /\ Become(t, Idle)
    /\ UNCHANGED <<serial, rstage, rootfs, dbVars, broken>>

\* commit_layer: rename, which fails without a staging file ...
LayerRename(t) ==
    LET l == task[t].cur IN
    /\ task[t].pc = "rename"
    /\ \/ /\ stage[l] # "none"
          /\ blob' = [blob EXCEPT ![l] = stage[l]] /\ stage' = [stage EXCEPT ![l] = "none"]
          /\ Goto(t, "row")
       \/ stage[l] = "none" /\ Become(t, Idle) /\ UNCHANGED <<stage, blob>>
    /\ UNCHANGED <<serial, rstage, rootfs, dbVars, broken>>

\* ... then INSERT with ref_count 1, or ref_count + 1 on conflict.
LayerRow(t) ==
    /\ task[t].pc = "row" /\ refCount[task[t].cur] < MaxRefCount
    /\ refCount' = [refCount EXCEPT ![task[t].cur] = @ + 1]
    /\ Goto(t, "layers")
    /\ UNCHANGED <<serial, fileVars, images, imageLayers, broken>>

\* Every layer is there: a rootfs directory is taken as complete, otherwise
\* a stale staging directory is removed and extraction starts in a new one.
ExtractBegin(t) ==
    LET d == task[t].dig IN
    /\ task[t].pc = "layers" /\ task[t].todo = <<>>
    /\ \/ rootfs[d] # "none" /\ Goto(t, "upsert") /\ UNCHANGED rstage
       \/ rootfs[d] = "none" /\ rstage' = [rstage EXCEPT ![d] = t] /\ Goto(t, "extract")
    /\ UNCHANGED <<serial, stage, blob, rootfs, dbVars, broken>>

\* The blobs are read whole, into a directory nobody has removed.
Extracted(t) ==
    LET d == task[t].dig IN
    /\ task[t].pc = "extract"
    /\ \A l \in Range(LayersOf[d]) : blob[l] = "whole"
    /\ t \in {rstage[d], rootfs[d]}
    /\ rstage' = Settle(rstage, t, "whole") /\ rootfs' = Settle(rootfs, t, "whole")
    /\ Goto(t, "install")
    /\ UNCHANGED <<serial, stage, blob, dbVars, broken>>

ExtractFails(t) ==
    /\ task[t].pc = "extract"
    /\ rstage' = Settle(rstage, t, "partial") /\ rootfs' = Settle(rootfs, t, "partial")
    /\ Become(t, Idle)
    /\ UNCHANGED <<serial, stage, blob, dbVars, broken>>

\* commit_rootfs: an existing directory wins and the staging one goes.
Install(t) ==
    LET d == task[t].dig IN
    /\ task[t].pc = "install"
    /\ \/ /\ rootfs[d] # "none"
          /\ rstage' = [rstage EXCEPT ![d] = "none"]
          /\ Goto(t, "upsert")
          /\ UNCHANGED rootfs
       \/ /\ rootfs[d] = "none" /\ rstage[d] # "none"
          /\ rootfs' = [rootfs EXCEPT ![d] = rstage[d]]
          /\ rstage' = [rstage EXCEPT ![d] = "none"]
          /\ Goto(t, "upsert")
       \/ /\ rootfs[d] = "none" /\ rstage[d] = "none"
          /\ Become(t, Idle)
          /\ UNCHANGED <<rstage, rootfs>>
    /\ UNCHANGED <<serial, stage, blob, dbVars, broken>>

\* upsert_image: one transaction that fails if a layer has no row.
Upsert(t) ==
    /\ task[t].pc = "upsert"
    /\ \/ /\ Range(LayersOf[task[t].dig]) \subseteq LayerRows
          /\ images' = [images EXCEPT ![task[t].ref] = task[t].dig]
          /\ imageLayers' = [imageLayers EXCEPT ![task[t].ref] = Range(LayersOf[task[t].dig])]
          /\ broken' = broken \ {task[t].ref}
       \/ /\ ~(Range(LayersOf[task[t].dig]) \subseteq LayerRows)
          /\ UNCHANGED <<images, imageLayers, broken>>
    /\ Become(t, Idle)
    /\ UNCHANGED <<serial, fileVars, refCount>>

-----------------------------------------------------------------------------
(* remove.                                                                 *)

RemoveBegin(t, r) ==
    /\ task[t].pc = "idle" /\ images[r] # None
    /\ serial => \A u \in Tasks : task[u].pc = "idle"
    /\ Become(t, [Idle EXCEPT !.pc = "remove", !.ref = r, !.dig = images[r]])
    /\ UNCHANGED <<serial, fileVars, dbVars, broken>>

\* Layers at ref_count zero once reference r has given up its own.
Orphans(r) == {l \in LayerRows : refCount[l] - (IF l \in imageLayers[r] THEN 1 ELSE 0) <= 0}

ReferencedElsewhere(r) == UNION {imageLayers[q] : q \in Refs \ {r}}

DeleteBlobs(S) == blob' = [l \in Layers |-> IF l \in S THEN "none" ELSE blob[l]]

\* The transaction of remove_image: counts, the image, then row and file of
\* each orphan in turn.
RemoveCommits(t) ==
    LET r == task[t].ref IN
    /\ task[t].pc = "remove"
    /\ Orphans(r) \intersect ReferencedElsewhere(r) = {}
    /\ DeleteBlobs(Orphans(r))
    /\ refCount' = [l \in Layers |->
           IF l \in Orphans(r) THEN 0
           ELSE IF l \in imageLayers[r] THEN refCount[l] - 1 ELSE refCount[l]]
    /\ images' = [images EXCEPT ![r] = None]
    /\ imageLayers' = [imageLayers EXCEPT ![r] = {}]
    /\ broken' = broken \ {r}
    /\ Goto(t, "remove_rootfs")
    /\ UNCHANGED <<serial, stage, rstage, rootfs>>

\* Mutant: each orphan's file goes before its row.
RemoveFailsLate(t) ==
    LET r == task[t].ref IN
    /\ task[t].pc = "remove"
    /\ Orphans(r) \intersect ReferencedElsewhere(r) # {}
    /\ DeleteBlobs(Orphans(r))
    /\ Break({r})
    /\ Become(t, Idle)
    /\ UNCHANGED <<serial, stage, rstage, rootfs, dbVars>>

\* DELETE of an orphan's row meets the foreign key of another image: the
\* transaction is rolled back, but the files of orphans met before are gone.
RemoveFails(t) ==
    LET r == task[t].ref IN
    /\ task[t].pc = "remove"
    /\ Orphans(r) \intersect ReferencedElsewhere(r) # {}
    /\ \E S \in SUBSET (Orphans(r) \ ReferencedElsewhere(r)) : DeleteBlobs(S)
    /\ Break({r})
    /\ Become(t, Idle)
    /\ UNCHANGED <<serial, stage, rstage, rootfs, dbVars>>

RemoveRootfs(t) ==
    /\ task[t].pc = "remove_rootfs"
    /\ rootfs' = [rootfs EXCEPT ![task[t].dig] = "none"]
    /\ broken' = broken \ {task[t].dig}
    /\ Become(t, Idle)
    /\ UNCHANGED <<serial, stage, blob, rstage, dbVars>>

-----------------------------------------------------------------------------

AllPartial(files) == [f \in DOMAIN files |-> IF files[f] \in Tasks THEN "partial" ELSE files[f]]

\* The process dies, a removal perhaps inside its transaction, between an
\* orphan's file and the commit, or inside remove_dir_all.
Crash ==
    LET at(point) == {t \in Tasks : task[t].pc = point}
        removing == {task[t].ref : t \in at("remove")}
        cleared == {d \in {task[t].dig : t \in at("remove_rootfs")} : rootfs[d] # "none"}
    IN  /\ \E S \in SUBSET UNION {Orphans(r) \ ReferencedElsewhere(r) : r \in removing} :
               /\ blob' = [l \in Layers |-> IF l \in S THEN "none" ELSE AllPartial(blob)[l]]
               /\ Break(cleared \union (IF S = {} THEN {} ELSE removing))
        /\ stage' = AllPartial(stage) /\ rstage' = AllPartial(rstage)
        /\ \E left \in SUBSET cleared :
               rootfs' = [d \in Digests |->
                   IF d \in left THEN "partial" ELSE AllPartial(rootfs)[d]]
        /\ task' = [t \in Tasks |-> Idle]
        /\ UNCHANGED <<serial, dbVars>>

PullStep(t) ==
    \/ \E r \in Refs, d \in Digests : PullBegin(t, r, d)
    \/ LayerCached(t) \/ LayerStage(t) \/ LayerDownloaded(t) \/ LayerFails(t)
    \/ LayerRename(t) \/ LayerRow(t)
    \/ ExtractBegin(t) \/ Extracted(t) \/ ExtractFails(t) \/ Install(t) \/ Upsert(t)

RemoveStep(t) ==
    \/ \E r \in Refs : RemoveBegin(t, r)
    \/ RemoveCommits(t) \/ RemoveFails(t) \/ RemoveRootfs(t)

Next == Crash \/ \E t \in Tasks : PullStep(t) \/ RemoveStep(t)

Spec == Init /\ [][Next]_vars

-----------------------------------------------------------------------------
(* Properties.                                                             *)

\* With one task at a time a final path never holds a half-made blob or
\* rootfs, whatever pull fails or crashes: exists and is_dir may be trusted,
\* but for a rootfs whose removal a crash cut short.
SerialWhole ==
    serial => /\ \A l \in Layers : blob[l] \in {"none", "whole"}
              /\ \A d \in Digests \ broken : rootfs[d] \in {"none", "whole"}

\* With one task at a time removing an image never takes a layer blob from
\* another: the layers of each image are on disk, but for an image whose own
\* removal failed or crashed half-way.
SerialBlobsKept ==
    serial => \A r \in Refs \ broken : \A l \in imageLayers[r] : blob[l] = "whole"

\* A removal that the process lives through removes the image: remove_image
\* gives up the layers another image still lists and keeps those.
RemoveRemoves ==
    [][\A t \in Tasks :
           task[t].pc = "remove" /\ task'[t].pc # "remove" /\ ~Crash
               => images'[task[t].ref] = None]_vars

=============================================================================
