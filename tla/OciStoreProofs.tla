--------------------------- MODULE OciStoreProofs ---------------------------
(***************************************************************************)
(* Theorems about the image store when the embedder pulls and removes one  *)
(* image at a time: SerialWhole and SerialBlobsKept hold in every state,   *)
(* whatever the references, manifests, layers and crashes.                 *)
(* Then about the unpacking of layers: a rootfs is what its layers mean.   *)
(***************************************************************************)
EXTENDS OciStore, OciLayers, TLAPS

States == {"none", "partial", "whole"} \union Tasks
Points == {"idle", "layers", "download", "rename", "row", "extract", "install",
           "upsert", "remove", "remove_rootfs"}
TaskStates == [pc : Points, ref : Refs \union {None}, dig : Digests \union {None},
               cur : Layers \union {None}, todo : Seq(Layers)]

\* What a task record must satisfy by itself.
Proper(x) ==
    /\ x \in TaskStates
    /\ x.pc # "idle" => x.ref \in Refs /\ x.dig \in Digests
    /\ x.pc \in {"download", "rename", "row"} => x.cur \in Layers
    /\ x.pc \in {"extract", "install", "upsert"} => x.todo = <<>>

FileType ==
    /\ stage \in [Layers -> States] /\ blob \in [Layers -> States]
    /\ rstage \in [Digests -> States] /\ rootfs \in [Digests -> States]

\* The tables, with the foreign key of image_layers: a layer an image lists has
\* a row.
DbType ==
    /\ refCount \in [Layers -> Nat]
    /\ images \in [Refs -> Digests \union {None}]
    /\ imageLayers \in [Refs -> SUBSET Layers]
    /\ \A r \in Refs : imageLayers[r] \subseteq LayerRows

TaskType == task \in [Tasks -> TaskStates] /\ \A t \in Tasks : Proper(task[t])

TypeInv == serial \in BOOLEAN /\ FileType /\ DbType /\ TaskType

\* One pull or removal at a time.
Alone == \A t, u \in Tasks : task[t].pc # "idle" /\ task[u].pc # "idle" => t = u

Whole == {l \in Layers : blob[l] = "whole"}

\* What a task of a serial run has made of its layers and its rootfs: a staging
\* path under a pen belongs to the task that writes it, a file about to be
\* renamed is complete, and every layer the pull has passed is on disk.
TaskInv(t) ==
    /\ task[t].pc = "download" => stage[task[t].cur] = t
    /\ task[t].pc = "rename" => stage[task[t].cur] = "whole"
    /\ task[t].pc = "install" => rstage[task[t].dig] = "whole"
    /\ task[t].pc \in {"layers", "row"} =>
           Range(LayersOf[task[t].dig]) \subseteq Range(task[t].todo) \union Whole
    /\ task[t].pc = "row" => blob[task[t].cur] = "whole"
    /\ task[t].pc \in {"download", "rename"} =>
           Range(LayersOf[task[t].dig])
               \subseteq Range(task[t].todo) \union {task[t].cur} \union Whole
    /\ task[t].pc \in {"extract", "install", "upsert"} =>
           Range(LayersOf[task[t].dig]) \subseteq Whole

\* What one task at a time makes of the files and tables.
Files ==
    /\ \A l \in Layers : blob[l] \in {"none", "whole"}
    /\ \A d \in Digests : rootfs[d] \notin Tasks
    /\ \A d \in Digests \ broken : rootfs[d] \in {"none", "whole"}
    /\ \A r \in Refs \ broken : imageLayers[r] \subseteq Whole

SerialInv == Alone /\ (\A t \in Tasks : TaskInv(t)) /\ Files

\* The inductive invariant.
IInv == TypeInv /\ (serial => SerialInv)

-----------------------------------------------------------------------------
(* Types.                                                                  *)

\* The members of a sequence are its head and the members of its tail.
LEMMA MembersOfTail ==
    ASSUME NEW S, NEW s \in Seq(S), s # <<>>
    PROVE  Range(s) = {Head(s)} \union Range(Tail(s))
<1> DEFINE n == Len(s)
<1>1. /\ n \in Nat \ {0} /\ DOMAIN s = 1 .. n /\ Head(s) = s[1]
      /\ Tail(s) \in Seq(S) /\ Len(Tail(s)) = n - 1 /\ DOMAIN Tail(s) = 1 .. n - 1
      /\ \A i \in 1 .. n - 1 : Tail(s)[i] = s[i + 1]
  OBVIOUS
<1> HIDE DEF n
<1>2. ASSUME NEW i \in 1 .. n
      PROVE  s[i] \in {Head(s)} \union Range(Tail(s))
  <2>1. CASE i = 1
    BY <1>1, <2>1
  <2>2. CASE i # 1
    <3>1. i - 1 \in 1 .. n - 1 /\ s[i] = Tail(s)[i - 1]
      BY <1>1, <2>2
    <3> QED
      BY Zenon, <1>1, <3>1 DEF Range
  <2> QED
    BY <2>1, <2>2
<1>3. ASSUME NEW i \in 1 .. n - 1
      PROVE  Tail(s)[i] \in Range(s)
  <2>1. i + 1 \in 1 .. n /\ Tail(s)[i] = s[i + 1]
    BY <1>1
  <2> QED
    BY <1>1, <2>1 DEF Range
<1>4. Head(s) \in Range(s)
  <2>1. 1 \in 1 .. n
    BY <1>1
  <2> QED
    BY <1>1, <2>1 DEF Range
<1> QED
  BY <1>1, <1>2, <1>3, <1>4 DEF Range

LEMMA IdleType == Proper(Idle)
<1>1. <<>> \in Seq(Layers)
  OBVIOUS
<1> QED
  BY <1>1 DEF Proper, Idle, TaskStates, Points

LEMMA PullType ==
    ASSUME NEW r \in Refs, NEW d \in Digests
    PROVE  Proper([Idle EXCEPT !.pc = "layers", !.ref = r, !.dig = d, !.todo = LayersOf[d]])
BY Zenon, ManifestAssumption DEF Proper, Idle, TaskStates, Points

\* Become replaces the record of one task.
LEMMA BecomeType ==
    ASSUME TaskType, NEW t \in Tasks, NEW x, Proper(x), Become(t, x)
    PROVE  /\ TaskType'
           /\ task'[t] = x
           /\ \A u \in Tasks \ {t} : task'[u] = task[u]
BY DEF TaskType, Proper, Become

LEMMA EndType ==
    ASSUME TaskType, NEW t \in Tasks, Become(t, Idle)
    PROVE  /\ TaskType'
           /\ task'[t].pc = "idle"
           /\ \A u \in Tasks \ {t} : task'[u] = task[u]
<1>1. /\ TaskType' /\ task'[t] = Idle
      /\ \A u \in Tasks \ {t} : task'[u] = task[u]
  BY BecomeType, IdleType
<1> QED
  BY <1>1 DEF Idle

\* A task moves on to another point.
LEMMA GotoType ==
    ASSUME TaskType, NEW t \in Tasks, NEW p \in Points, Goto(t, p), task[t].pc # "idle",
           p \in {"download", "rename", "row"} => task[t].cur \in Layers,
           p \in {"extract", "install", "upsert"} => task[t].todo = <<>>
    PROVE  /\ TaskType'
           /\ task'[t].pc = p /\ task'[t].dig = task[t].dig
           /\ task'[t].cur = task[t].cur /\ task'[t].todo = task[t].todo
           /\ \A u \in Tasks \ {t} : task'[u] = task[u]
<1>1. Proper([task[t] EXCEPT !.pc = p])
  BY DEF TaskType, Proper, TaskStates
<1>2. /\ TaskType' /\ task'[t] = [task[t] EXCEPT !.pc = p]
      /\ \A u \in Tasks \ {t} : task'[u] = task[u]
  BY <1>1, BecomeType DEF Goto
<1> QED
  BY <1>2 DEF TaskType, TaskStates

\* A task passes on to its next layer.
LEMMA NextLayerType ==
    ASSUME NEW x, Proper(x), x.todo # <<>>, x.pc = "layers"
    PROVE  /\ Head(x.todo) \in Layers
           /\ Range(x.todo) = {Head(x.todo)} \union Range(Tail(x.todo))
           /\ Proper([x EXCEPT !.todo = Tail(@)])
           /\ Proper([x EXCEPT !.pc = "download", !.cur = Head(x.todo), !.todo = Tail(@)])
<1>1. x.todo \in Seq(Layers)
  BY DEF Proper, TaskStates
<1>2. Head(x.todo) \in Layers /\ Tail(x.todo) \in Seq(Layers)
  BY <1>1
<1>3. Range(x.todo) = {Head(x.todo)} \union Range(Tail(x.todo))
  BY <1>1, MembersOfTail
<1>4. Proper([x EXCEPT !.todo = Tail(@)])
  BY <1>2 DEF Proper, TaskStates
<1>5. Proper([x EXCEPT !.pc = "download", !.cur = Head(x.todo), !.todo = Tail(@)])
  BY Zenon, <1>2 DEF Proper, TaskStates, Points
<1> QED
  BY <1>2, <1>3, <1>4, <1>5

LEMMA SettleType ==
    ASSUME NEW D, NEW f \in [D -> States], NEW t, NEW s \in States
    PROVE  Settle(f, t, s) \in [D -> States]
BY DEF Settle

LEMMA TypeInit == Init => TypeInv
BY ManifestAssumption, IdleType DEF Init, TypeInv, FileType, DbType, LayerRows, TaskType, States, Idle, Proper

LEMMA TypePullStep ==
    ASSUME TypeInv, NEW t \in Tasks, PullStep(t)
    PROVE  TypeInv'
<1> USE DEF TypeInv
<1>0. Proper(task[t]) /\ {"none", "partial", "whole", t} \subseteq States
  BY DEF States, TaskType
<1>1. ASSUME NEW r \in Refs, NEW d \in Digests, PullBegin(t, r, d)
      PROVE  TypeInv'
  <2> DEFINE x == [Idle EXCEPT !.pc = "layers", !.ref = r, !.dig = d, !.todo = LayersOf[d]]
  <2>1. Proper(x)
    BY Zenon, ManifestAssumption DEF Proper, Idle, TaskStates, Points
  <2>2. TaskType'
    BY <1>1, <2>1, BecomeType DEF PullBegin
  <2> QED
    BY <1>1, <2>2 DEF PullBegin, FileType, DbType, fileVars, dbVars, LayerRows
<1>2. CASE LayerCached(t)
  <2>1. TaskType'
    BY Zenon, <1>0, <1>2, NextLayerType, BecomeType DEF LayerCached
  <2> QED
    BY <1>2, <2>1 DEF LayerCached, FileType, DbType, fileVars, dbVars, LayerRows
<1>3. CASE LayerStage(t)
  <2>1. TaskType'
    BY Zenon, <1>0, <1>3, NextLayerType, BecomeType DEF LayerStage
  <2> QED
    BY Zenon, <1>0, <1>3, <2>1 DEF LayerStage, FileType, DbType, dbVars, LayerRows
<1>4. CASE LayerDownloaded(t)
  <2>1. TaskType'
    BY Zenon, <1>0, <1>4, GotoType DEF LayerDownloaded, Proper, Points
  <2>2. FileType'
    BY <1>0, <1>4, SettleType DEF LayerDownloaded, FileType
  <2> QED
    BY Zenon, <1>4, <2>1, <2>2 DEF LayerDownloaded, DbType, dbVars, LayerRows
<1>5. CASE LayerFails(t)
  <2>1. TaskType'
    BY <1>5, EndType DEF LayerFails
  <2>2. FileType'
    BY <1>0, <1>5, SettleType DEF LayerFails, FileType
  <2> QED
    BY Zenon, <1>5, <2>1, <2>2 DEF LayerFails, DbType, dbVars, LayerRows
<1>6. CASE LayerRename(t)
  <2>1. TaskType'
    BY Zenon, <1>0, <1>6, GotoType, EndType DEF LayerRename, Proper, Points
  <2>2. FileType'
    BY <1>0, <1>6 DEF LayerRename, FileType, Proper
  <2> QED
    BY Zenon, <1>6, <2>1, <2>2 DEF LayerRename, DbType, dbVars, LayerRows
<1>7. CASE LayerRow(t)
  <2>1. TaskType'
    BY Zenon, <1>0, <1>7, GotoType DEF LayerRow, Proper, Points
  <2>2. task[t].cur \in Layers
    BY Zenon, <1>0, <1>7 DEF LayerRow, Proper
  <2>3. refCount' \in [Layers -> Nat] /\ LayerRows \subseteq LayerRows'
    <3>1. refCount' = [refCount EXCEPT ![task[t].cur] = @ + 1]
      BY Zenon, <1>7 DEF LayerRow
    <3> QED
      BY <2>2, <3>1 DEF DbType, LayerRows
  <2>4. DbType'
    BY Zenon, <1>7, <2>3 DEF LayerRow, DbType
  <2> QED
    BY Zenon, <1>7, <2>1, <2>4 DEF LayerRow, FileType, fileVars
<1>8. CASE ExtractBegin(t)
  <2>1. TaskType'
    BY Zenon, <1>0, <1>8, GotoType DEF ExtractBegin, Proper, Points
  <2> QED
    BY <1>0, <1>8, <2>1 DEF ExtractBegin, FileType, DbType, dbVars, LayerRows
<1>9. CASE Extracted(t)
  <2>1. TaskType'
    BY Zenon, <1>0, <1>9, GotoType DEF Extracted, Proper, Points
  <2>2. FileType'
    BY <1>0, <1>9, SettleType DEF Extracted, FileType
  <2> QED
    BY Zenon, <1>9, <2>1, <2>2 DEF Extracted, DbType, dbVars, LayerRows
<1>10. CASE ExtractFails(t)
  <2>1. TaskType'
    BY <1>10, EndType DEF ExtractFails
  <2>2. FileType'
    BY <1>0, <1>10, SettleType DEF ExtractFails, FileType
  <2> QED
    BY <1>10, <2>1, <2>2 DEF ExtractFails, DbType, dbVars, LayerRows
<1>11. CASE Install(t)
  <2>1. TaskType'
    BY Zenon, <1>0, <1>11, GotoType, EndType DEF Install, Proper, Points
  <2>2. FileType'
    BY <1>0, <1>11 DEF Install, FileType, Proper
  <2> QED
    BY Zenon, <1>11, <2>1, <2>2 DEF Install, DbType, dbVars, LayerRows
<1>12. CASE Upsert(t)
  <2>1. TaskType'
    BY <1>12, EndType DEF Upsert
  <2>2. task[t].dig \in Digests /\ task[t].ref \in Refs
    BY <1>0, <1>12 DEF Upsert, Proper
  <2>3. Range(LayersOf[task[t].dig]) \subseteq Layers
    BY <2>2, ManifestAssumption DEF Range
  <2>4. DbType'
    <3>1. CASE UNCHANGED <<images, imageLayers>>
      BY Zenon, <1>12, <3>1 DEF Upsert, DbType, LayerRows
    <3>2. CASE /\ images' = [images EXCEPT ![task[t].ref] = task[t].dig]
               /\ imageLayers' =
                      [imageLayers EXCEPT ![task[t].ref] = Range(LayersOf[task[t].dig])]
               /\ Range(LayersOf[task[t].dig]) \subseteq LayerRows
      <4>1. refCount' = refCount
        BY Zenon, <1>12 DEF Upsert
      <4> QED
        BY <2>2, <2>3, <3>2, <4>1 DEF DbType, LayerRows
    <3> QED
      BY Zenon, <1>12, <3>1, <3>2 DEF Upsert
  <2> QED
    BY <1>12, <2>1, <2>4 DEF Upsert, FileType, fileVars
<1> QED
  BY <1>1, <1>2, <1>3, <1>4, <1>5, <1>6, <1>7, <1>8, <1>9, <1>10, <1>11, <1>12
  DEF PullStep

LEMMA TypeRemoveStep ==
    ASSUME TypeInv, NEW t \in Tasks, RemoveStep(t)
    PROVE  TypeInv'
<1> USE DEF TypeInv
<1>0. Proper(task[t]) /\ {"none", "partial", "whole", t} \subseteq States
  BY DEF States, TaskType
<1>1. ASSUME NEW r \in Refs, RemoveBegin(t, r)
      PROVE  TypeInv'
  <2> DEFINE x == [Idle EXCEPT !.pc = "remove", !.ref = r, !.dig = images[r]]
  <2>1. images[r] \in Digests
    <3>1. images[r] # None
      BY Zenon, <1>1 DEF RemoveBegin
    <3> QED
      BY <3>1 DEF DbType
  <2>2. Proper(x)
    <3>1. <<>> \in Seq(Layers)
      OBVIOUS
    <3> QED
      BY Zenon, <2>1, <3>1 DEF Proper, Idle, TaskStates, Points
  <2>3. TaskType'
    BY <1>1, <2>2, BecomeType DEF RemoveBegin
  <2> QED
    BY <1>1, <2>3 DEF RemoveBegin, FileType, DbType, fileVars, dbVars, LayerRows
<1>2. CASE RemoveCommits(t)
  <2> DEFINE r == task[t].ref
  <2>1. r \in Refs
    BY <1>0, <1>2 DEF RemoveCommits, Proper
  <2>2. refCount' = [l \in Layers |->
            IF l \in Orphans(r) THEN 0
            ELSE IF l \in imageLayers[r] THEN refCount[l] - 1 ELSE refCount[l]]
    BY Zenon, <1>2 DEF RemoveCommits
  <2>3. ASSUME NEW l \in Layers
        PROVE  /\ refCount'[l] \in Nat
               /\ l \in LayerRows \ Orphans(r) => refCount'[l] > 0
    <3>1. refCount[l] \in Nat /\ (l \in imageLayers[r] => refCount[l] > 0)
      BY <2>1 DEF DbType, LayerRows
    <3>2. l \in Orphans(r) <=>
              refCount[l] > 0 /\ refCount[l] - (IF l \in imageLayers[r] THEN 1 ELSE 0) <= 0
      BY DEF Orphans, LayerRows
    <3> QED
      BY <2>2, <3>1, <3>2 DEF LayerRows
  <2>4. refCount' \in [Layers -> Nat]
    BY <2>2, <2>3
  <2>5. /\ images' = [images EXCEPT ![r] = None]
        /\ imageLayers' = [imageLayers EXCEPT ![r] = {}]
        /\ Orphans(r) \intersect ReferencedElsewhere(r) = {}
    BY Zenon, <1>2 DEF RemoveCommits
  <2>6. ASSUME NEW q \in Refs, NEW l \in imageLayers'[q]
        PROVE  l \in LayerRows'
    <3>1. q # r /\ l \in imageLayers[q]
      BY <2>1, <2>5 DEF DbType
    <3>2. l \in LayerRows \ Orphans(r) /\ l \in Layers
      BY <2>5, <3>1 DEF DbType, ReferencedElsewhere, LayerRows
    <3> QED
      BY <2>3, <3>2 DEF LayerRows
  <2>7. images' \in [Refs -> Digests \union {None}] /\ imageLayers' \in [Refs -> SUBSET Layers]
    BY Zenon, <2>5 DEF DbType
  <2>8. DbType'
    BY Zenon, <2>4, <2>6, <2>7 DEF DbType
  <2>9. TaskType'
    BY Zenon, <1>0, <1>2, GotoType DEF RemoveCommits, Proper, Points
  <2> QED
    BY Zenon, <1>0, <1>2, <2>8, <2>9 DEF RemoveCommits, DeleteBlobs, FileType
<1>3. CASE RemoveFails(t)
  <2>1. TaskType'
    BY <1>3, EndType DEF RemoveFails
  <2> QED
    BY <1>0, <1>3, <2>1 DEF RemoveFails, DeleteBlobs, FileType, DbType, dbVars, LayerRows
<1>4. CASE RemoveRootfs(t)
  <2>1. TaskType'
    BY <1>4, EndType DEF RemoveRootfs
  <2> QED
    BY Zenon, <1>0, <1>4, <2>1 DEF RemoveRootfs, FileType, DbType, dbVars, LayerRows
<1> QED
  BY <1>1, <1>2, <1>3, <1>4 DEF RemoveStep

LEMMA TypeCrash ==
    ASSUME TypeInv, Crash
    PROVE  TypeInv'
<1> USE DEF TypeInv, FileType, DbType, TaskType, dbVars, LayerRows
<1>1. ASSUME NEW D, NEW f \in [D -> States]
      PROVE  AllPartial(f) \in [D -> States]
  BY DEF AllPartial, States
<1>2. {"none", "partial"} \subseteq States
  BY DEF States
<1>3. stage' \in [Layers -> States] /\ rstage' \in [Digests -> States]
  BY <1>1 DEF Crash
<1>4. blob' \in [Layers -> States]
  BY <1>1, <1>2 DEF Crash
<1>5. rootfs' \in [Digests -> States]
  BY <1>1, <1>2 DEF Crash
<1>6. Idle \in TaskStates
  BY IdleType DEF Proper
<1>7. task' \in [Tasks -> TaskStates] /\ \A t \in Tasks : Proper(task[t])'
  BY <1>6, IdleType DEF Crash, Proper
<1> QED
  BY <1>3, <1>4, <1>5, <1>7 DEF Crash

\* Every variable keeps its type: a task that works has a reference, a manifest
\* and, while it stages a layer, a layer; counts never go below zero (pull and
\* remove, store.rs).
THEOREM TypeCorrect == Spec => []TypeInv
<1>1. TypeInv /\ [Next]_vars => TypeInv'
  <2> SUFFICES ASSUME TypeInv, [Next]_vars PROVE TypeInv'
    OBVIOUS
  <2>1. CASE UNCHANGED vars
    BY <2>1 DEF TypeInv, FileType, DbType, TaskType, vars, fileVars, dbVars, LayerRows
  <2> QED
    BY <2>1, TypePullStep, TypeRemoveStep, TypeCrash DEF Next
<1> QED
  BY <1>1, TypeInit, PTL DEF Spec

-----------------------------------------------------------------------------
(* One task at a time.                                                     *)

\* In a serial run a step of one task finds and leaves the others idle, so that
\* only its own part of the invariant is at stake.
LEMMA OneMoves ==
    ASSUME TypeInv, SerialInv, NEW t \in Tasks,
           task[t].pc # "idle" \/ \A u \in Tasks : task[u].pc = "idle",
           \A u \in Tasks \ {t} : task'[u] = task[u],
           TaskInv(t)'
    PROVE  Alone' /\ \A u \in Tasks : TaskInv(u)'
<1>1. \A u \in Tasks \ {t} : task'[u].pc = "idle"
  BY Zenon DEF SerialInv, Alone
<1>2. Alone'
  BY <1>1 DEF Alone
<1>3. ASSUME NEW u \in Tasks, u # t PROVE TaskInv(u)'
  BY <1>1, <1>3 DEF TaskInv
<1> QED
  BY Zenon, <1>2, <1>3

\* Nothing at a final path is under a pen, so completing or giving up what a
\* task writes leaves the final paths alone.
LEMMA SettledBlobs ==
    ASSUME TypeInv, SerialInv, NEW t \in Tasks, NEW s
    PROVE  Settle(blob, t, s) = blob /\ Settle(rootfs, t, s) = rootfs
<1>1. \A l \in Layers : blob[l] # t
  BY ManifestAssumption DEF SerialInv, Files
<1>2. \A d \in Digests : rootfs[d] # t
  BY DEF SerialInv, Files
<1> QED
  BY <1>1, <1>2 DEF Settle, TypeInv, FileType

\* A task that ends owes nothing.
LEMMA IdleInv ==
    ASSUME NEW t \in Tasks, task'[t].pc = "idle"
    PROVE  TaskInv(t)'
BY DEF TaskInv

\* A step that leaves the final paths, the images and the history alone.
LEMMA FilesKept ==
    ASSUME Files, UNCHANGED <<blob, rootfs, imageLayers, broken>>
    PROVE  Files' /\ Whole' = Whole
BY DEF Files, Whole

LEMMA SerialPullStep ==
    ASSUME TypeInv, SerialInv, serial, NEW t \in Tasks, PullStep(t)
    PROVE  SerialInv'
<1>0. Proper(task[t]) /\ TaskInv(t) /\ Files /\ TaskType
  BY Zenon DEF TypeInv, TaskType, SerialInv
<1>1. ASSUME NEW r \in Refs, NEW d \in Digests, PullBegin(t, r, d)
      PROVE  SerialInv'
  <2> DEFINE x == [Idle EXCEPT !.pc = "layers", !.ref = r, !.dig = d, !.todo = LayersOf[d]]
  <2>1. Proper(x)
    BY Zenon, PullType
  <2>2. task'[t] = x /\ \A u \in Tasks \ {t} : task'[u] = task[u]
    BY Zenon, <1>0, <1>1, <2>1, BecomeType DEF PullBegin
  <2>3. task'[t].pc = "layers" /\ task'[t].dig = d /\ task'[t].todo = LayersOf[d]
    BY <2>2 DEF Idle
  <2>4. TaskInv(t)'
    BY <2>3 DEF TaskInv
  <2>5. Files'
    BY Zenon, <1>0, <1>1, FilesKept DEF PullBegin, fileVars, dbVars
  <2> QED
    BY Zenon, <1>1, <2>2, <2>4, <2>5, OneMoves DEF PullBegin, SerialInv
<1>2. CASE LayerCached(t)
  <2> DEFINE l == Head(task[t].todo)
  <2>1. /\ l \in Layers /\ Range(task[t].todo) = {l} \union Range(Tail(task[t].todo))
        /\ task[t].pc = "layers" /\ blob[l] # "none"
        /\ Proper([task[t] EXCEPT !.todo = Tail(@)])
    BY Zenon, <1>0, <1>2, NextLayerType DEF LayerCached
  <2>2. /\ task'[t] = [task[t] EXCEPT !.todo = Tail(@)]
        /\ \A u \in Tasks \ {t} : task'[u] = task[u]
    BY Zenon, <1>0, <1>2, <2>1, BecomeType DEF LayerCached
  <2>3. task'[t].pc = "layers" /\ task'[t].dig = task[t].dig
        /\ task'[t].todo = Tail(task[t].todo)
    BY <1>0, <2>1, <2>2 DEF Proper, TaskStates
  <2>4. Files' /\ Whole' = Whole
    BY Zenon, <1>0, <1>2, FilesKept DEF LayerCached, fileVars, dbVars
  <2>5. l \in Whole
    BY <1>0, <2>1 DEF Files, Whole
  <2>6. TaskInv(t)'
    BY <1>0, <2>1, <2>3, <2>4, <2>5 DEF TaskInv
  <2> QED
    BY Zenon, <2>1, <2>2, <2>4, <2>6, OneMoves DEF SerialInv
<1>3. CASE LayerStage(t)
  <2> DEFINE l == Head(task[t].todo)
             x == [task[t] EXCEPT !.pc = "download", !.cur = l, !.todo = Tail(@)]
  <2>1. /\ l \in Layers /\ Range(task[t].todo) = {l} \union Range(Tail(task[t].todo))
        /\ task[t].pc = "layers"
        /\ Proper(x)
    BY Zenon, <1>0, <1>3, NextLayerType DEF LayerStage
  <2>2. task'[t] = x /\ \A u \in Tasks \ {t} : task'[u] = task[u]
    BY Zenon, <1>0, <1>3, <2>1, BecomeType DEF LayerStage
  <2>3. /\ task'[t].pc = "download" /\ task'[t].dig = task[t].dig
        /\ task'[t].cur = l /\ task'[t].todo = Tail(task[t].todo)
    BY <1>0, <2>2 DEF Proper, TaskStates
  <2>4. Files' /\ Whole' = Whole
    BY Zenon, <1>0, <1>3, FilesKept DEF LayerStage, dbVars
  <2>5. stage'[l] = t
    <3>1. stage' = [stage EXCEPT ![l] = t]
      BY Zenon, <1>3 DEF LayerStage
    <3> QED
      BY <2>1, <3>1 DEF TypeInv, FileType
  <2>6. TaskInv(t)'
    BY <1>0, <2>1, <2>3, <2>4, <2>5 DEF TaskInv
  <2> QED
    BY Zenon, <2>1, <2>2, <2>4, <2>6, OneMoves DEF SerialInv
<1>4. CASE LayerDownloaded(t)
  <2>1. task[t].pc = "download" /\ task[t].cur \in Layers
    BY Zenon, <1>0, <1>4 DEF LayerDownloaded, Proper
  <2>2. /\ task'[t].pc = "rename" /\ task'[t].dig = task[t].dig
        /\ task'[t].cur = task[t].cur /\ task'[t].todo = task[t].todo
        /\ \A u \in Tasks \ {t} : task'[u] = task[u]
    BY <1>0, <1>4, <2>1, GotoType DEF LayerDownloaded, Points
  <2>3. Files' /\ Whole' = Whole
    BY Zenon, <1>0, <1>4, FilesKept, SettledBlobs DEF LayerDownloaded, dbVars
  <2>4. stage'[task[t].cur] = "whole"
    <3>1. stage' = Settle(stage, t, "whole") /\ stage[task[t].cur] = t
      BY Zenon, <1>0, <1>4, <2>1 DEF LayerDownloaded, TaskInv
    <3> QED
      BY <2>1, <3>1 DEF Settle, TypeInv, FileType
  <2>5. TaskInv(t)'
    BY <1>0, <2>1, <2>2, <2>3, <2>4 DEF TaskInv
  <2> QED
    BY Zenon, <2>1, <2>2, <2>3, <2>5, OneMoves DEF SerialInv
<1>5. CASE LayerFails(t)
  <2>1. task[t].pc = "download" /\ Files'
    BY Zenon, <1>0, <1>5, FilesKept, SettledBlobs DEF LayerFails, dbVars
  <2>2. task'[t].pc = "idle" /\ \A u \in Tasks \ {t} : task'[u] = task[u]
    BY Zenon, <1>0, <1>5, EndType DEF LayerFails
  <2> QED
    BY Zenon, <2>1, <2>2, IdleInv, OneMoves DEF SerialInv
<1>6. CASE LayerRename(t)
  <2> DEFINE l == task[t].cur
  <2>1. task[t].pc = "rename" /\ l \in Layers /\ stage[l] = "whole"
    BY Zenon, <1>0, <1>6 DEF LayerRename, Proper, TaskInv
  <2>2. blob' = [blob EXCEPT ![l] = "whole"] /\ Goto(t, "row")
    BY <1>6, <2>1 DEF LayerRename
  <2>3. /\ task'[t].pc = "row" /\ task'[t].dig = task[t].dig
        /\ task'[t].cur = l /\ task'[t].todo = task[t].todo
        /\ \A u \in Tasks \ {t} : task'[u] = task[u]
    BY <1>0, <2>1, <2>2, GotoType DEF Points
  <2>4. Whole' = Whole \union {l}
    BY <2>1, <2>2 DEF Whole, TypeInv, FileType
  <2>5. UNCHANGED <<rootfs, imageLayers, broken>>
    BY Zenon, <1>6 DEF LayerRename, dbVars
  <2>6. \A k \in Layers : blob'[k] \in {"none", "whole"}
    BY <1>0, <2>1, <2>2 DEF Files, TypeInv, FileType
  <2>7. Files'
    BY <1>0, <2>4, <2>5, <2>6 DEF Files
  <2>8. blob'[l] = "whole"
    BY <2>1, <2>2 DEF TypeInv, FileType
  <2>9. TaskInv(t)'
    BY <1>0, <2>1, <2>3, <2>4, <2>8 DEF TaskInv
  <2> QED
    BY Zenon, <2>1, <2>3, <2>7, <2>9, OneMoves DEF SerialInv
<1>7. CASE LayerRow(t)
  <2>1. task[t].pc = "row"
    BY Zenon, <1>7 DEF LayerRow
  <2>2. /\ task'[t].pc = "layers" /\ task'[t].dig = task[t].dig
        /\ task'[t].todo = task[t].todo
        /\ \A u \in Tasks \ {t} : task'[u] = task[u]
    BY <1>0, <1>7, <2>1, GotoType DEF LayerRow, Points
  <2>3. Files' /\ Whole' = Whole
    BY Zenon, <1>0, <1>7, FilesKept DEF LayerRow, fileVars
  <2>4. TaskInv(t)'
    BY <1>0, <2>1, <2>2, <2>3 DEF TaskInv
  <2> QED
    BY Zenon, <2>1, <2>2, <2>3, <2>4, OneMoves DEF SerialInv
<1>8. CASE ExtractBegin(t)
  <2>1. task[t].pc = "layers" /\ task[t].todo = <<>>
    BY Zenon, <1>8 DEF ExtractBegin
  <2>2. /\ task'[t].pc \in {"upsert", "extract"} /\ task'[t].dig = task[t].dig
        /\ \A u \in Tasks \ {t} : task'[u] = task[u]
    BY <1>0, <1>8, <2>1, GotoType DEF ExtractBegin, Points
  <2>3. Files' /\ Whole' = Whole
    BY Zenon, <1>0, <1>8, FilesKept DEF ExtractBegin, dbVars
  <2>4. Range(LayersOf[task[t].dig]) \subseteq Whole
    BY <1>0, <2>1 DEF TaskInv, Range
  <2>5. TaskInv(t)'
    BY <2>2, <2>3, <2>4 DEF TaskInv
  <2> QED
    BY Zenon, <2>1, <2>2, <2>3, <2>5, OneMoves DEF SerialInv
<1>9. CASE Extracted(t)
  <2> DEFINE d == task[t].dig
  <2>1. task[t].pc = "extract" /\ d \in Digests
    BY Zenon, <1>0, <1>9 DEF Extracted, Proper
  <2>2. /\ task'[t].pc = "install" /\ task'[t].dig = d
        /\ \A u \in Tasks \ {t} : task'[u] = task[u]
    BY <1>0, <1>9, <2>1, GotoType DEF Extracted, Points, Proper
  <2>3. Files' /\ Whole' = Whole
    BY Zenon, <1>0, <1>9, FilesKept, SettledBlobs DEF Extracted, dbVars
  <2>4. rstage'[d] = "whole"
    <3>1. rstage' = Settle(rstage, t, "whole") /\ t \in {rstage[d], rootfs[d]}
      BY Zenon, <1>9 DEF Extracted
    <3>2. rootfs[d] # t
      BY <1>0, <2>1 DEF Files
    <3> QED
      BY <2>1, <3>1, <3>2 DEF Settle, TypeInv, FileType
  <2>5. TaskInv(t)'
    BY <1>0, <2>1, <2>2, <2>3, <2>4 DEF TaskInv
  <2> QED
    BY Zenon, <2>1, <2>2, <2>3, <2>5, OneMoves DEF SerialInv
<1>10. CASE ExtractFails(t)
  <2>1. task[t].pc = "extract" /\ Files'
    BY Zenon, <1>0, <1>10, FilesKept, SettledBlobs DEF ExtractFails, dbVars
  <2>2. task'[t].pc = "idle" /\ \A u \in Tasks \ {t} : task'[u] = task[u]
    BY Zenon, <1>0, <1>10, EndType DEF ExtractFails
  <2> QED
    BY Zenon, <2>1, <2>2, IdleInv, OneMoves DEF SerialInv
<1>11. CASE Install(t)
  <2> DEFINE d == task[t].dig
  <2>1. task[t].pc = "install" /\ d \in Digests /\ rstage[d] = "whole"
    BY Zenon, <1>0, <1>11 DEF Install, Proper, TaskInv
  <2>2. Goto(t, "upsert") /\ rootfs' \in {rootfs, [rootfs EXCEPT ![d] = "whole"]}
    BY <1>11, <2>1 DEF Install
  <2>3. /\ task'[t].pc = "upsert" /\ task'[t].dig = d
        /\ \A u \in Tasks \ {t} : task'[u] = task[u]
    BY <1>0, <2>1, <2>2, GotoType DEF Points, Proper
  <2>4. UNCHANGED <<blob, imageLayers, broken>> /\ Whole' = Whole
    BY Zenon, <1>11 DEF Install, dbVars, Whole
  <2>5. \A e \in Digests : rootfs'[e] \in {rootfs[e], "whole"}
    BY <2>1, <2>2 DEF TypeInv, FileType
  <2>6. Files'
    BY <1>0, <2>4, <2>5, ManifestAssumption DEF Files
  <2>7. TaskInv(t)'
    BY <1>0, <2>1, <2>3, <2>4 DEF TaskInv
  <2> QED
    BY Zenon, <2>1, <2>3, <2>6, <2>7, OneMoves DEF SerialInv
<1>12. CASE Upsert(t)
  <2> DEFINE d == task[t].dig
             r == task[t].ref
  <2>1. task[t].pc = "upsert" /\ r \in Refs /\ d \in Digests /\ Range(LayersOf[d]) \subseteq Whole
    BY Zenon, <1>0, <1>12 DEF Upsert, Proper, TaskInv
  <2>2. task'[t].pc = "idle" /\ \A u \in Tasks \ {t} : task'[u] = task[u]
    BY Zenon, <1>0, <1>12, EndType DEF Upsert
  <2>3. UNCHANGED <<blob, rootfs>> /\ Whole' = Whole
    BY Zenon, <1>12 DEF Upsert, fileVars, Whole
  <2>4. CASE UNCHANGED <<imageLayers, broken>>
    BY Zenon, <1>0, <2>1, <2>2, <2>3, <2>4, FilesKept, IdleInv, OneMoves DEF SerialInv
  <2>5. CASE /\ imageLayers' = [imageLayers EXCEPT ![r] = Range(LayersOf[d])]
             /\ broken' = broken \ {r}
    <3>1. \A e \in Digests \ broken' : e \notin broken
      BY <2>1, <2>5, ManifestAssumption
    <3>2. \A q \in Refs \ broken' : imageLayers'[q] \subseteq Whole
      BY <1>0, <2>1, <2>5 DEF Files, TypeInv, DbType
    <3>3. Files'
      BY <1>0, <2>3, <3>1, <3>2 DEF Files
    <3> QED
      BY Zenon, <2>1, <2>2, <3>3, IdleInv, OneMoves DEF SerialInv
  <2> QED
    BY Zenon, <1>12, <2>4, <2>5 DEF Upsert
<1> QED
  BY Zenon, <1>1, <1>2, <1>3, <1>4, <1>5, <1>6, <1>7, <1>8, <1>9, <1>10, <1>11, <1>12
  DEF PullStep

\* Files is in danger only where a removal deletes blobs, and the images that
\* list one of them are then in the history.
LEMMA BlobsDeleted ==
    ASSUME TypeInv, Files, NEW S,
           blob' = [l \in Layers |-> IF l \in S THEN "none" ELSE blob[l]],
           \A r \in Refs \ broken' : imageLayers'[r] \intersect S = {},
           \A r \in Refs \ broken' : imageLayers'[r] # {} =>
               r \notin broken /\ imageLayers'[r] = imageLayers[r]
    PROVE  /\ \A l \in Layers : blob'[l] \in {"none", "whole"}
           /\ \A r \in Refs \ broken' : imageLayers'[r] \subseteq Whole'
<1>1. \A l \in Layers : blob'[l] \in {"none", "whole"}
  BY DEF Files
<1>2. Whole' = Whole \ S
  BY DEF Whole
<1> QED
  BY <1>1, <1>2 DEF Files

LEMMA SerialRemoveStep ==
    ASSUME TypeInv, SerialInv, serial, NEW t \in Tasks, RemoveStep(t)
    PROVE  SerialInv'
<1>0. Proper(task[t]) /\ Files /\ TaskType /\ DbType
  BY Zenon DEF TypeInv, TaskType, SerialInv
<1>1. ASSUME NEW r \in Refs, RemoveBegin(t, r)
      PROVE  SerialInv'
  <2>1. task'[t].pc = "remove" /\ \A u \in Tasks \ {t} : task'[u] = task[u]
    <3>1. task' = [task EXCEPT ![t] = [Idle EXCEPT !.pc = "remove", !.ref = r, !.dig = images[r]]]
      BY Zenon, <1>1 DEF RemoveBegin, Become
    <3> QED
      BY <1>0, <3>1 DEF TaskType, Idle
  <2>2. TaskInv(t)'
    BY <2>1 DEF TaskInv
  <2>3. Files'
    BY Zenon, <1>0, <1>1, FilesKept DEF RemoveBegin, fileVars, dbVars
  <2> QED
    BY Zenon, <1>1, <2>1, <2>2, <2>3, OneMoves DEF RemoveBegin, SerialInv
<1>2. CASE RemoveCommits(t)
  <2> DEFINE r == task[t].ref
  <2>1. task[t].pc = "remove" /\ r \in Refs
    BY Zenon, <1>0, <1>2 DEF RemoveCommits, Proper
  <2>2. task'[t].pc = "remove_rootfs" /\ \A u \in Tasks \ {t} : task'[u] = task[u]
    BY <1>0, <1>2, <2>1, GotoType DEF RemoveCommits, Points
  <2>3. /\ blob' = [l \in Layers |-> IF l \in Orphans(r) THEN "none" ELSE blob[l]]
        /\ imageLayers' = [imageLayers EXCEPT ![r] = {}]
        /\ broken' = broken \ {r}
        /\ Orphans(r) \intersect ReferencedElsewhere(r) = {}
        /\ rootfs' = rootfs
    BY Zenon, <1>2 DEF RemoveCommits, DeleteBlobs
  <2>4. imageLayers'[r] = {} /\ \A q \in Refs \ {r} : imageLayers'[q] = imageLayers[q]
    BY <1>0, <2>1, <2>3 DEF DbType
  <2>5. \A q \in Refs \ {r} : imageLayers[q] \intersect Orphans(r) = {}
    BY <2>3 DEF ReferencedElsewhere
  <2>6. /\ \A l \in Layers : blob'[l] \in {"none", "whole"}
        /\ \A q \in Refs \ broken' : imageLayers'[q] \subseteq Whole'
    BY <1>0, <2>3, <2>4, <2>5, BlobsDeleted
  <2>7. \A e \in Digests \ broken' : e \notin broken
    BY <2>1, <2>3, ManifestAssumption
  <2>8. Files'
    BY <1>0, <2>3, <2>6, <2>7 DEF Files
  <2>9. TaskInv(t)'
    BY <2>2 DEF TaskInv
  <2> QED
    BY Zenon, <2>1, <2>2, <2>8, <2>9, OneMoves DEF SerialInv
<1>3. CASE RemoveFails(t)
  <2> DEFINE r == task[t].ref
  <2>1. task[t].pc = "remove" /\ r \in Refs
    BY Zenon, <1>0, <1>3 DEF RemoveFails, Proper
  <2>2. task'[t].pc = "idle" /\ \A u \in Tasks \ {t} : task'[u] = task[u]
    BY Zenon, <1>0, <1>3, EndType DEF RemoveFails
  <2>3. PICK S \in SUBSET (Orphans(r) \ ReferencedElsewhere(r)) :
            blob' = [l \in Layers |-> IF l \in S THEN "none" ELSE blob[l]]
    BY Zenon, <1>3 DEF RemoveFails, DeleteBlobs
  <2>4. broken' = broken \union {r} /\ UNCHANGED <<rootfs, imageLayers>>
    BY Zenon, <1>3 DEF RemoveFails, Break, dbVars
  <2>5. \A q \in Refs \ {r} : imageLayers[q] \intersect S = {}
    BY DEF ReferencedElsewhere
  <2>6. /\ \A l \in Layers : blob'[l] \in {"none", "whole"}
        /\ \A q \in Refs \ broken' : imageLayers'[q] \subseteq Whole'
    BY <1>0, <2>3, <2>4, <2>5, BlobsDeleted
  <2>7. Files'
    BY <1>0, <2>4, <2>6 DEF Files
  <2> QED
    BY Zenon, <2>1, <2>2, <2>7, IdleInv, OneMoves DEF SerialInv
<1>4. CASE RemoveRootfs(t)
  <2> DEFINE d == task[t].dig
  <2>1. task[t].pc = "remove_rootfs" /\ d \in Digests
    BY Zenon, <1>0, <1>4 DEF RemoveRootfs, Proper
  <2>2. task'[t].pc = "idle" /\ \A u \in Tasks \ {t} : task'[u] = task[u]
    BY Zenon, <1>0, <1>4, EndType DEF RemoveRootfs
  <2>3. /\ rootfs' = [rootfs EXCEPT ![d] = "none"] /\ broken' = broken \ {d}
        /\ UNCHANGED <<blob, imageLayers>>
    BY Zenon, <1>4 DEF RemoveRootfs, dbVars
  <2>4. rootfs'[d] = "none" /\ \A e \in Digests \ {d} : rootfs'[e] = rootfs[e]
    BY <2>1, <2>3 DEF TypeInv, FileType
  <2>5. \A r \in Refs \ broken' : r \notin broken
    BY <2>1, <2>3, ManifestAssumption
  <2>6. "none" \notin Tasks
    BY ManifestAssumption
  <2>7. Files'
    BY <1>0, <2>3, <2>4, <2>5, <2>6 DEF Files, Whole
  <2> QED
    BY Zenon, <2>1, <2>2, <2>7, IdleInv, OneMoves DEF SerialInv
<1> QED
  BY Zenon, <1>1, <1>2, <1>3, <1>4 DEF RemoveStep

\* A crash keeps only the files: what was half-made stays in a staging path, and
\* an image or rootfs whose removal it cut short is in the history.
LEMMA SerialCrash ==
    ASSUME TypeInv, SerialInv, serial, Crash
    PROVE  SerialInv'
<1> DEFINE at(point) == {t \in Tasks : task[t].pc = point}
           removing == {task[t].ref : t \in at("remove")}
           cleared == {d \in {task[t].dig : t \in at("remove_rootfs")} : rootfs[d] # "none"}
<1>0. Files /\ TaskType /\ DbType
  BY Zenon DEF TypeInv, SerialInv
<1>1. PICK S \in SUBSET UNION {Orphans(r) \ ReferencedElsewhere(r) : r \in removing} :
          /\ blob' = [l \in Layers |-> IF l \in S THEN "none" ELSE AllPartial(blob)[l]]
          /\ Break(cleared \union (IF S = {} THEN {} ELSE removing))
  BY Zenon DEF Crash
<1>2. PICK left \in SUBSET cleared :
          rootfs' = [d \in Digests |-> IF d \in left THEN "partial" ELSE AllPartial(rootfs)[d]]
  BY Zenon DEF Crash
<1>3. task' = [t \in Tasks |-> Idle] /\ imageLayers' = imageLayers
  BY Zenon DEF Crash, dbVars
<1>4. \A t \in Tasks : task'[t].pc = "idle"
  BY <1>3 DEF Idle
<1>5. AllPartial(blob) = blob /\ AllPartial(rootfs) = rootfs
  BY <1>0, ManifestAssumption DEF AllPartial, Files, TypeInv, FileType
<1>6. broken' = broken \union cleared \union (IF S = {} THEN {} ELSE removing)
  BY <1>1 DEF Break
<1>7. \A q \in Refs \ broken' : imageLayers'[q] \intersect S = {}
  <2> SUFFICES ASSUME NEW q \in Refs \ broken', NEW l \in S, l \in imageLayers[q]
               PROVE  FALSE
    BY <1>3
  <2>1. PICK r \in removing : l \in Orphans(r) \ ReferencedElsewhere(r)
    BY <1>1
  <2>2. q # r
    BY <1>6
  <2> QED
    BY <2>1, <2>2 DEF ReferencedElsewhere
<1>8. /\ \A l \in Layers : blob'[l] \in {"none", "whole"}
      /\ \A q \in Refs \ broken' : imageLayers'[q] \subseteq Whole'
  BY <1>0, <1>1, <1>3, <1>5, <1>6, <1>7, BlobsDeleted
<1>9. \A d \in Digests : rootfs'[d] = (IF d \in left THEN "partial" ELSE rootfs[d])
  BY <1>2, <1>5
<1>10. \A d \in Digests \ broken' : d \notin broken /\ d \notin left
  BY <1>2, <1>6
<1>11. "partial" \notin Tasks
  BY ManifestAssumption
<1>12. Files'
  BY <1>0, <1>8, <1>9, <1>10, <1>11 DEF Files
<1> QED
  BY Zenon, <1>4, <1>12, IdleInv DEF SerialInv, Alone

LEMMA Inductive == IInv /\ [Next]_vars => IInv'
<1> SUFFICES ASSUME IInv, [Next]_vars PROVE IInv'
  OBVIOUS
<1>1. CASE UNCHANGED vars
  BY Zenon, <1>1
  DEF IInv, TypeInv, FileType, DbType, LayerRows, TaskType, SerialInv, Alone, TaskInv, Files,
      Whole, vars, fileVars, dbVars
<1>2. CASE Next
  <2>1. TypeInv'
    BY Zenon, <1>2, TypePullStep, TypeRemoveStep, TypeCrash DEF IInv, Next
  <2>2. ASSUME serial' PROVE SerialInv'
    <3>1. serial
      BY Zenon, <1>2, <2>2
      DEF Next, PullStep, RemoveStep, Crash, PullBegin, LayerCached, LayerStage,
          LayerDownloaded, LayerFails, LayerRename, LayerRow, ExtractBegin, Extracted,
          ExtractFails, Install, Upsert, RemoveBegin, RemoveCommits, RemoveFails, RemoveRootfs
    <3> QED
      BY Zenon, <1>2, <3>1, SerialPullStep, SerialRemoveStep, SerialCrash DEF IInv, Next
  <2> QED
    BY Zenon, <2>1, <2>2 DEF IInv
<1> QED
  BY <1>1, <1>2

LEMMA Inductively == Spec => []IInv
<1>1. Init => IInv
  <2> SUFFICES ASSUME Init PROVE IInv
    OBVIOUS
  <2>1. TypeInv
    BY TypeInit
  <2>2. \A t \in Tasks : task[t].pc = "idle"
    BY DEF Init, Idle
  <2>3. Files
    BY ManifestAssumption DEF Init, Files
  <2> QED
    BY <2>1, <2>2, <2>3 DEF IInv, SerialInv, Alone, TaskInv
<1> QED
  BY <1>1, Inductive, PTL DEF Spec

\* Whatever pulls fail and whenever the process dies, an embedder that pulls and
\* removes one image at a time may trust exists and is_dir: a final path holds no
\* half-made blob or rootfs, but for a rootfs whose removal a crash cut short
\* (pull and remove_image).
THEOREM SerialWholeHolds == Spec => []SerialWhole
<1>1. IInv => SerialWhole
  BY DEF IInv, SerialInv, Files, SerialWhole
<1> QED
  BY <1>1, Inductively, PTL

\* One task at a time, removing an image never takes a layer blob from another
\* that lists it, whatever layers the images share: the file of an orphan goes
\* only where no other image refers to it (remove_image).
THEOREM SerialBlobsKeptHolds == Spec => []SerialBlobsKept
<1>1. IInv => SerialBlobsKept
  BY DEF IInv, SerialInv, Files, Whole, SerialBlobsKept
<1> QED
  BY <1>1, Inductively, PTL

-----------------------------------------------------------------------------
(* The layers of an image (bux-oci extract.rs).                            *)

\* Paths of one name, and of two.
Top == {<<"a">>, <<"b">>}

\* Paths below a directory of the root.
Inner == {<<"a", "a">>, <<"a", "b">>, <<"b", "a">>}

\* The directory a path lies in.
Par(p) == SubSeq(p, 1, 1)

\* A path is a function.
LEMMA PathIsFun == ASSUME NEW Any, NEW s \in Seq(Any) PROVE s \in [1 .. Len(s) -> Any]
OBVIOUS

\* A sequence of one element.
LEMMA OneName ==
    ASSUME NEW Any, NEW s \in Seq(Any), Len(s) = 1
    PROVE  s = <<s[1]>>
<1> DEFINE t == <<s[1]>>
<1>0. s \in [1 .. Len(s) -> Any]
    BY Zenon, PathIsFun
<1>1. s \in [1 .. 1 -> Any] /\ s[1] \in Any
    <2>1. s \in [1 .. 1 -> Any]
        BY Zenon, <1>0
    <2> QED BY <2>1
<1>2. t \in [1 .. 1 -> Any] /\ t[1] = s[1]
    BY <1>1
<1> HIDE DEF t
<1>3. \A i \in 1 .. 1 : s[i] = t[i]
    BY <1>2
<1>4. s = [i \in 1 .. 1 |-> s[i]] /\ t = [i \in 1 .. 1 |-> t[i]]
    BY Zenon, <1>1, <1>2
<1>5. [i \in 1 .. 1 |-> s[i]] = [i \in 1 .. 1 |-> t[i]]
    BY Zenon, <1>3
<1>6. s = t
    BY Zenon, <1>4, <1>5
<1> QED BY Zenon, <1>6 DEF t

\* How long paths are, and where they lie.
LEMMA Lengths ==
    /\ \A p \in Top : Len(p) = 1 /\ Par(p) = p
    /\ \A p \in Inner : Len(p) = 2 /\ Par(p) \in Top
    /\ Par(<<"a", "a">>) = <<"a">> /\ Par(<<"a", "b">>) = <<"a">> /\ Par(<<"b", "a">>) = <<"b">>
<1>1. ASSUME NEW x PROVE Len(<<x>>) = 1 /\ Par(<<x>>) = <<x>>
    <2>1. SubSeq(<<x>>, 1, 1) \in Seq({x}) /\ Len(SubSeq(<<x>>, 1, 1)) = 1 /\ SubSeq(<<x>>, 1, 1)[1] = x
        OBVIOUS
    <2>2. SubSeq(<<x>>, 1, 1) = <<x>>
        BY Zenon, <2>1, OneName
    <2> QED BY <2>2 DEF Par
<1>2. ASSUME NEW x, NEW y PROVE Len(<<x, y>>) = 2 /\ Par(<<x, y>>) = <<x>>
    <2>1. SubSeq(<<x, y>>, 1, 1) \in Seq({x, y}) /\ Len(SubSeq(<<x, y>>, 1, 1)) = 1 /\ SubSeq(<<x, y>>, 1, 1)[1] = x
        OBVIOUS
    <2>2. SubSeq(<<x, y>>, 1, 1) = <<x>>
        BY Zenon, <2>1, OneName
    <2> QED BY <2>2 DEF Par
<1> QED BY Zenon, <1>1, <1>2 DEF Top, Inner

\* What lies below and above a path.
LEMMA Shape ==
    /\ E!Paths = Top \cup Inner /\ Top \cap Inner = {}
    /\ \A p \in Top : Len(p) = 1 /\ E!Above(p) = {} /\ E!Below(p) = {q \in Inner : Par(q) = p}
    /\ \A p \in Inner : Len(p) = 2 /\ Par(p) \in Top /\ E!Above(p) = {Par(p)} /\ E!Below(p) = {}
    /\ E!Below(<<>>) = E!Paths
<1>1. E!Paths = Top \cup Inner
    BY Zenon DEF E!Paths, Top, Inner
<1>2. 1 # 2 /\ ~ (1 > 1) /\ ~ (1 > 2) /\ ~ (2 > 2) /\ 2 > 1
    OBVIOUS
<1>3. Top \cap Inner = {}
    BY Zenon, <1>2, Lengths
<1>4. ASSUME NEW p \in Top PROVE E!Below(p) = {q \in Inner : Par(q) = p}
    <2>1. Len(p) = 1
        BY Zenon, Lengths
    <2>2. \A q \in E!Paths : Len(q) > 1 /\ Par(q) = p <=> q \in Inner /\ Par(q) = p
        BY Zenon, <1>1, <1>2, Lengths
    <2> QED BY Zenon, <1>1, <2>1, <2>2 DEF E!Below, Par
<1>5. ASSUME NEW p \in Inner PROVE E!Below(p) = {}
    <2>1. Len(p) = 2
        BY Zenon, Lengths
    <2>2. \A q \in E!Paths : ~ (Len(q) > 2)
        BY Zenon, <1>1, <1>2, Lengths
    <2> QED BY Zenon, <2>1, <2>2 DEF E!Below
<1>6. ASSUME NEW p \in Top PROVE E!Above(p) = {}
    BY Zenon, <1>1, <1>3, <1>4, <1>5 DEF E!Above
<1>7. ASSUME NEW p \in Inner PROVE E!Above(p) = {Par(p)}
    <2>1. Par(p) \in Top
        BY Zenon, Lengths
    <2>2. \A q \in E!Paths : p \in E!Below(q) <=> q = Par(p)
        BY Zenon, <1>1, <1>4, <1>5, <2>1
    <2> QED BY Zenon, <1>1, <2>1, <2>2 DEF E!Above
<1>8. E!Below(<<>>) = E!Paths
    <2>1. \A x : Len(<<x>>) > Len(<<>>) /\ SubSeq(<<x>>, 1, Len(<<>>)) = <<>>
        OBVIOUS
    <2>2. \A x, y : Len(<<x, y>>) > Len(<<>>) /\ SubSeq(<<x, y>>, 1, Len(<<>>)) = <<>>
        OBVIOUS
    <2> QED BY Zenon, <2>1, <2>2 DEF E!Below, E!Paths
<1> QED BY Zenon, <1>1, <1>3, <1>4, <1>5, <1>6, <1>7, <1>8, Lengths

\* What a tree holds at a path.
IsNode(n) == n = E!Gone \/ n = E!Dir \/ n.type \in {"reg", "sym"}

\* A file or a symlink.
Leaf(n) == n.type \in {"reg", "sym"}

\* The kinds of nodes are different.
LEMMA Kinds ==
    /\ E!Gone.type = "none" /\ E!Dir.type = "dir" /\ E!Gone # E!Dir /\ "none" # "dir"
    /\ \A n : IsNode(n) => (n.type = "none" <=> n = E!Gone) /\ (n.type = "dir" <=> n = E!Dir)
    /\ \A n : Leaf(n) => IsNode(n) /\ n # E!Gone /\ n # E!Dir /\ n.type # "dir"
    /\ \A n : IsNode(n) /\ n.type \notin {"none", "dir"} => Leaf(n)
    /\ \A v : Leaf(E!Node("reg", v)) /\ Leaf(E!Node("sym", v))
<1>1. E!Gone.type = "none" /\ E!Dir.type = "dir" /\ "none" # "dir" /\ "none" \notin {"reg", "sym"} /\ "dir" \notin {"reg", "sym"}
    BY DEF E!Gone, E!Dir, E!Node
<1>2. \A v : Leaf(E!Node("reg", v)) /\ Leaf(E!Node("sym", v))
    BY DEF E!Node, Leaf
<1> QED BY Zenon, <1>1, <1>2 DEF IsNode, Leaf

\* A tree: nothing lies below what is no directory.
Formed(t) ==
    /\ t = [p \in E!Paths |-> t[p]]
    /\ \A p \in E!Paths : IsNode(t[p])
    /\ \A p \in Inner : t[p] # E!Dir /\ (t[p] # E!Gone => t[Par(p)] = E!Dir)

\* What a layer means at a path, the two levels apart.
Mean(put, hid, low, p) ==
    IF put[p] # E!Gone THEN put[p]
    ELSE IF p \in Top
    THEN IF \E q \in Inner : Par(q) = p /\ put[q] # E!Gone THEN E!Dir ELSE IF p \in hid THEN E!Gone ELSE low[p]
    ELSE IF p \in hid \/ put[Par(p)] \notin {E!Gone, E!Dir} \/ (put[Par(p)] = E!Dir /\ low[Par(p)].type # "dir")
    THEN E!Gone ELSE low[p]

\* Meaning says the same of a path as Mean, which asks for its parent and children only.
LEMMA MeaningIsMean == \A p \in E!Paths : E!Meaning(p) = Mean(puts, hides, lower, p)
<1>1. ASSUME NEW p \in Top PROVE E!Meaning(p) = Mean(puts, hides, lower, p)
    <2>1. E!Above(p) = {} /\ E!Below(p) = {q \in Inner : Par(q) = p}
        BY Zenon, Shape
    <2>2. (\E q \in E!Below(p) : puts[q] # E!Gone) <=> \E q \in Inner : Par(q) = p /\ puts[q] # E!Gone
        BY Zenon, <2>1
    <2> QED BY Zenon, <2>1, <2>2 DEF E!Meaning, Mean
<1>2. ASSUME NEW p \in Inner PROVE E!Meaning(p) = Mean(puts, hides, lower, p)
    <2>1. p \notin Top /\ E!Above(p) = {Par(p)} /\ E!Below(p) = {}
        BY Zenon, Shape
    <2> QED BY Zenon, <2>1 DEF E!Meaning, Mean
<1> QED BY Zenon, <1>1, <1>2, Shape

\* The same after a step.
LEMMA MeaningIsMeanNext == \A p \in E!Paths : E!Meaning(p)' = Mean(puts', hides', lower', p)
<1>1. ASSUME NEW p \in Top PROVE E!Meaning(p)' = Mean(puts', hides', lower', p)
    <2>1. E!Above(p) = {} /\ E!Below(p) = {q \in Inner : Par(q) = p}
        BY Zenon, Shape
    <2>2. (\E q \in E!Below(p) : puts'[q] # E!Gone) <=> \E q \in Inner : Par(q) = p /\ puts'[q] # E!Gone
        BY Zenon, <2>1
    <2> QED BY Zenon, <2>1, <2>2 DEF E!Meaning, Mean
<1>2. ASSUME NEW p \in Inner PROVE E!Meaning(p)' = Mean(puts', hides', lower', p)
    <2>1. p \notin Top /\ E!Above(p) = {Par(p)} /\ E!Below(p) = {}
        BY Zenon, Shape
    <2> QED BY Zenon, <2>1 DEF E!Meaning, Mean
<1> QED BY Zenon, <1>1, <1>2, Shape

\* What the extractor has unpacked of the layer.
Unpacked == \A p \in E!Paths : p \in unpacked <=> puts[p] # E!Gone \/ \E q \in Inner : Par(q) = p /\ puts[q] # E!Gone

\* The inductive invariant: the tree and the one below it are well formed, unpacked holds the paths
\* put and their directories, and while the layer does not contradict itself the tree is at every
\* moment what the members so far mean.
EInv ==
    /\ Formed(fstree) /\ Formed(lower)
    /\ puts = [p \in E!Paths |-> puts[p]]
    /\ deferred \in Seq(E!HardLinks)
    /\ Unpacked
    /\ ~unusual =>
         /\ \A p \in Inner : puts[p] # E!Gone => puts[Par(p)] \in {E!Gone, E!Dir}
         /\ \A p \in E!Paths : fstree[p] = Mean(puts, hides, lower, p)

\* Where a member lands, and what of the rest stays.
LEMMA PlacedDir ==
    ASSUME Formed(fstree), NEW p \in Top
    PROVE  LET t == [E!PlaceLeaf(p, TRUE) EXCEPT ![p] = E!Dir] IN
           t = [q \in E!Paths |-> t[q]] /\ \A q \in E!Paths : t[q] = IF q = p THEN E!Dir ELSE fstree[q]
<1>1. E!EnsureDir(fstree, p) = fstree
    BY Zenon, Shape DEF E!EnsureDir
<1>2. CASE fstree[p].type = "dir"
    <2>1. E!PlaceLeaf(p, TRUE) = fstree
        BY Zenon, <1>1, <1>2 DEF E!PlaceLeaf
    <2> QED BY Zenon, <2>1, Shape DEF Formed
<1>3. CASE fstree[p].type # "dir"
    <2>1. E!PlaceLeaf(p, TRUE) = E!RemoveTree(fstree, p)
        BY Zenon, <1>1, <1>3 DEF E!PlaceLeaf
    <2>2. \A q \in E!Paths : q # p => E!RemoveTree(fstree, p)[q] = fstree[q]
        <3> SUFFICES ASSUME NEW q \in E!Paths, q # p PROVE E!RemoveTree(fstree, p)[q] = fstree[q]
            BY Zenon
        <3>1. CASE q \in E!Below(p)
            <4>1. q \in Inner /\ Par(q) = p /\ fstree[p] # E!Dir
                BY Zenon, <1>3, <3>1, Shape, Kinds
            <4>2. fstree[q] = E!Gone
                BY Zenon, <4>1 DEF Formed
            <4> QED BY Zenon, <3>1, <4>2 DEF E!RemoveTree
        <3>2. CASE q \notin E!Below(p)
            BY Zenon, <3>2 DEF E!RemoveTree
        <3> QED BY Zenon, <3>1, <3>2
    <2>3. E!RemoveTree(fstree, p) = [q \in E!Paths |-> E!RemoveTree(fstree, p)[q]]
        BY Zenon DEF E!RemoveTree
    <2> QED BY Zenon, <2>1, <2>2, <2>3, Shape
<1> QED BY Zenon, <1>2, <1>3

\* Putting a leaf at the root removes what was below it.
LEMMA PlacedTop ==
    ASSUME Formed(fstree), NEW p \in Top, NEW n
    PROVE  LET t == [E!PlaceLeaf(p, FALSE) EXCEPT ![p] = n] IN
           t = [q \in E!Paths |-> t[q]] /\ \A q \in E!Paths : t[q] =
              IF q = p THEN n ELSE IF q \in Inner /\ Par(q) = p THEN E!Gone ELSE fstree[q]
<1>0. p \in E!Paths
    BY Zenon, Shape
<1>1. E!EnsureDir(fstree, p) = fstree
    BY Zenon, Shape DEF E!EnsureDir
<1>2. E!PlaceLeaf(p, FALSE) = E!RemoveTree(fstree, p)
    BY Zenon, <1>1 DEF E!PlaceLeaf
<1>3. \A q \in E!Paths : q # p => E!RemoveTree(fstree, p)[q] = IF q \in Inner /\ Par(q) = p THEN E!Gone ELSE fstree[q]
    <2>1. E!Below(p) = {q \in Inner : Par(q) = p}
        BY Zenon, Shape
    <2> QED BY Zenon, <2>1 DEF E!RemoveTree
<1>4. E!RemoveTree(fstree, p) = [q \in E!Paths |-> E!RemoveTree(fstree, p)[q]]
    BY Zenon DEF E!RemoveTree
<1> QED BY Zenon, <1>0, <1>2, <1>3, <1>4

\* Putting a leaf in a directory first makes that directory.
LEMMA PlacedInner ==
    ASSUME Formed(fstree), NEW p \in Inner, NEW n
    PROVE  LET t == [E!PlaceLeaf(p, FALSE) EXCEPT ![p] = n] IN
           t = [q \in E!Paths |-> t[q]] /\ \A q \in E!Paths : t[q] =
              IF q = p THEN n ELSE IF q = Par(p) THEN E!Dir ELSE fstree[q]
<1> DEFINE r == Par(p)
           u == E!EnsureDir(fstree, p)
<1>1. r \in Top /\ r \in E!Paths /\ p \in E!Paths /\ p # r /\ Len(p) # 1 /\ E!Below(p) = {} /\ SubSeq(p, 1, 1) = r
    <2>1. Len(p) = 2 /\ r \in Top /\ E!Below(p) = {}
        BY Zenon, Shape
    <2>2. 2 # 1
        OBVIOUS
    <2>3. p \in E!Paths /\ r \in E!Paths /\ p # r
        BY Zenon, <2>1, Shape
    <2> QED BY Zenon, <2>1, <2>2, <2>3 DEF Par
<1> HIDE DEF r
<1>2. u = [q \in E!Paths |-> u[q]] /\ \A q \in E!Paths : q # p => u[q] = IF q = r THEN E!Dir ELSE fstree[q]
    <2>1. CASE fstree[r].type = "dir"
        <3>1. u = fstree
            BY Zenon, <1>1, <2>1 DEF E!EnsureDir
        <3>2. fstree[r] = E!Dir
            BY Zenon, <1>1, <2>1, Kinds DEF Formed
        <3> QED BY Zenon, <3>1, <3>2 DEF Formed
    <2>2. CASE fstree[r].type # "dir"
        <3>1. u = [E!RemoveTree(fstree, r) EXCEPT ![r] = E!Dir]
            BY Zenon, <1>1, <2>2 DEF E!EnsureDir
        <3>2. E!RemoveTree(fstree, r) = [q \in E!Paths |-> E!RemoveTree(fstree, r)[q]]
            BY Zenon DEF E!RemoveTree
        <3>3. fstree[r] # E!Dir
            BY Zenon, <2>2, Kinds
        <3>4. \A q \in E!Paths : q # r => E!RemoveTree(fstree, r)[q] = fstree[q]
            <4> SUFFICES ASSUME NEW q \in E!Paths, q # r PROVE E!RemoveTree(fstree, r)[q] = fstree[q]
                BY Zenon
            <4>1. CASE q \in E!Below(r)
                <5>1. q \in Inner /\ Par(q) = r
                    <6>1. E!Below(r) = {c \in Inner : Par(c) = r}
                        BY Zenon, <1>1, Shape
                    <6> QED BY Zenon, <4>1, <6>1
                <5>2. fstree[q] = E!Gone
                    BY Zenon, <3>3, <5>1 DEF Formed
                <5> QED BY Zenon, <4>1, <5>2 DEF E!RemoveTree
            <4>2. CASE q \notin E!Below(r)
                BY Zenon, <4>2 DEF E!RemoveTree
            <4> QED BY Zenon, <4>1, <4>2
        <3> HIDE DEF u
        <3> QED BY Zenon, <1>1, <3>1, <3>2, <3>4
    <2> QED BY Zenon, <2>1, <2>2
<1>3. E!PlaceLeaf(p, FALSE) = E!RemoveTree(u, p)
    BY Zenon DEF E!PlaceLeaf
<1> HIDE DEF u
<1>4. \A q \in E!Paths : q # p => E!RemoveTree(u, p)[q] = u[q]
    BY Zenon, <1>1 DEF E!RemoveTree
<1>5. E!RemoveTree(u, p) = [q \in E!Paths |-> E!RemoveTree(u, p)[q]]
    BY Zenon DEF E!RemoveTree
<1> QED BY Zenon, <1>1, <1>2, <1>3, <1>4, <1>5 DEF r

\* A member is put where nothing of the layer contradicts it, or the layer is unusual.
LEMMA PutEffect ==
    ASSUME EInv, NEW p \in E!Paths, NEW n, n # E!Gone, NEW names, E!Put(names, p, n)
    PROVE  /\ puts' = [q \in E!Paths |-> IF q = p THEN n ELSE puts[q]]
           /\ Unpacked'
           /\ ~unusual' =>
                /\ ~unusual /\ puts[p] = E!Gone
                /\ p \in Inner => puts[Par(p)] \in {E!Gone, E!Dir}
                /\ n # E!Dir => \A q \in Inner : Par(q) = p => puts[q] = E!Gone
<1>1. /\ puts' = [puts EXCEPT ![p] = n] /\ unpacked' = unpacked \cup {p} \cup E!Above(p)
      /\ unusual' = (unusual \/ E!Contradicts(p, n))
    BY Zenon DEF E!Put
<1>2. puts' = [q \in E!Paths |-> IF q = p THEN n ELSE puts[q]]
    BY Zenon, <1>1 DEF EInv
<1>3. p \in Inner => E!Above(p) = {Par(p)} /\ Par(p) \in E!Paths /\ Par(p) \in Top /\ p \notin Top
    BY Zenon, Shape
<1>4. p \in Top => E!Above(p) = {} /\ E!Below(p) = {q \in Inner : Par(q) = p}
    BY Zenon, Shape
<1>5. p \in Top \/ p \in Inner
    BY Zenon, Shape
<1>6. Inner \subseteq E!Paths /\ \A q \in Inner : q \notin Top /\ Par(q) \in Top
    BY Zenon, Shape
<1>7. Unpacked'
    <2> SUFFICES ASSUME NEW q \in E!Paths
                 PROVE  q \in unpacked' <=> puts'[q] # E!Gone \/ \E c \in Inner : Par(c) = q /\ puts'[c] # E!Gone
        BY Zenon DEF Unpacked
    <2>1. q \in unpacked <=> puts[q] # E!Gone \/ \E c \in Inner : Par(c) = q /\ puts[c] # E!Gone
        BY Zenon DEF EInv, Unpacked
    <2>2. q \in unpacked' <=> q \in unpacked \/ q = p \/ (p \in Inner /\ q = Par(p))
        BY Zenon, <1>1, <1>3, <1>4, <1>5
    <2>3. puts'[q] # E!Gone <=> q = p \/ puts[q] # E!Gone
        BY Zenon, <1>2
    <2>4. \A c \in Inner : puts'[c] # E!Gone <=> c = p \/ puts[c] # E!Gone
        BY Zenon, <1>2, <1>6
    <2> QED BY Zenon, <2>1, <2>2, <2>3, <2>4
<1>8. ASSUME ~unusual'
      PROVE  /\ ~unusual /\ puts[p] = E!Gone
             /\ p \in Inner => puts[Par(p)] \in {E!Gone, E!Dir}
             /\ n # E!Dir => \A q \in Inner : Par(q) = p => puts[q] = E!Gone
    <2>1. ~unusual /\ ~E!Contradicts(p, n)
        BY Zenon, <1>1, <1>8
    <2>2. puts[p] = E!Gone /\ (\A q \in E!Above(p) : puts[q] \in {E!Gone, E!Dir}) /\ (n # E!Dir => \A q \in E!Below(p) : puts[q] = E!Gone)
        BY Zenon, <2>1 DEF E!Contradicts
    <2>3. n # E!Dir => \A q \in Inner : Par(q) = p => puts[q] = E!Gone
        BY Zenon, <1>3, <1>4, <1>5, <1>6, <2>2
    <2> QED BY Zenon, <1>3, <2>1, <2>2, <2>3
<1> QED BY Zenon, <1>2, <1>7, <1>8

\* A member that is a directory, which leaves what is in it.
LEMMA PutDirStep ==
    ASSUME EInv, NEW p \in Top, NEW names, E!Put(names, p, E!Dir), UNCHANGED <<lower, hides>>, deferred' \in Seq(E!HardLinks)
    PROVE  EInv'
<1>0. p \in E!Paths /\ E!Dir # E!Gone /\ IsNode(E!Dir)
    BY Zenon, Shape, Kinds DEF IsNode
<1>1. fstree' = [q \in E!Paths |-> fstree'[q]] /\ \A q \in E!Paths : fstree'[q] = IF q = p THEN E!Dir ELSE fstree[q]
    <2>1. fstree' = [E!PlaceLeaf(p, TRUE) EXCEPT ![p] = E!Dir]
        BY Zenon DEF E!Put
    <2>2. Formed(fstree)
        BY Zenon DEF EInv
    <2> QED BY Zenon, <2>1, <2>2, PlacedDir
<1>2. puts' = [q \in E!Paths |-> IF q = p THEN E!Dir ELSE puts[q]] /\ Unpacked' /\ (~unusual' => ~unusual /\ puts[p] = E!Gone)
    BY Zenon, <1>0, PutEffect
<1>3. Inner \subseteq E!Paths /\ p \notin Inner /\ (\A q \in Inner : Par(q) \in Top /\ Par(q) \in E!Paths /\ q \notin Top /\ q # p)
        /\ \A q \in E!Paths : q \in Top \/ q \in Inner
    BY Zenon, Shape
<1>4. Formed(fstree')
    BY Zenon, <1>0, <1>1, <1>3 DEF EInv, Formed
<1>5. ASSUME ~unusual' PROVE \A q \in Inner : puts'[q] # E!Gone => puts'[Par(q)] \in {E!Gone, E!Dir}
    BY Zenon, <1>2, <1>3, <1>5 DEF EInv
<1>6. ASSUME ~unusual', NEW q \in E!Paths PROVE fstree'[q] = Mean(puts', hides', lower', q)
    <2>0. fstree[q] = Mean(puts, hides, lower, q) /\ Formed(lower)
        BY Zenon, <1>2, <1>6 DEF EInv
    <2>1. CASE q = p
        BY Zenon, <1>0, <1>1, <1>2, <2>1 DEF Mean
    <2>2. CASE q \in Top /\ q # p
        <3>1. puts'[q] = puts[q] /\ \A c \in Inner : puts'[c] = puts[c]
            BY Zenon, <1>2, <1>3, <2>2
        <3> QED BY Zenon, <1>1, <2>0, <2>2, <3>1 DEF Mean
    <2>3. CASE q \in Inner /\ Par(q) # p
        <3>1. puts'[q] = puts[q] /\ puts'[Par(q)] = puts[Par(q)] /\ q # p /\ q \notin Top
            BY Zenon, <1>2, <1>3, <2>3
        <3> QED BY Zenon, <1>1, <2>0, <2>3, <3>1 DEF Mean
    <2>4. CASE q \in Inner /\ Par(q) = p
        <3>1. puts'[q] = puts[q] /\ puts'[p] = E!Dir /\ puts[p] = E!Gone /\ q # p /\ q \notin Top
            BY Zenon, <1>0, <1>2, <1>3, <1>6, <2>4
        <3>2. lower[p].type # "dir" => lower[q] = E!Gone
            BY Zenon, <2>0, <2>4, Kinds DEF Formed
        <3> QED BY Zenon, <1>0, <1>1, <2>0, <2>4, <3>1, <3>2 DEF Mean
    <2> QED BY Zenon, <1>3, <2>1, <2>2, <2>3, <2>4
<1> QED BY Zenon, <1>2, <1>4, <1>5, <1>6 DEF EInv

\* A leaf put at the root.
LEMMA PutTopStep ==
    ASSUME EInv, NEW p \in Top, NEW n, Leaf(n), NEW names, E!Put(names, p, n), UNCHANGED <<lower, hides>>,
           deferred' \in Seq(E!HardLinks)
    PROVE  EInv'
<1>0. p \in E!Paths /\ n # E!Gone /\ n # E!Dir /\ IsNode(n) /\ IsNode(E!Gone) /\ E!Gone # E!Dir
    BY Zenon, Shape, Kinds DEF IsNode
<1>1. fstree' = [q \in E!Paths |-> fstree'[q]] /\ \A q \in E!Paths : fstree'[q] =
        IF q = p THEN n ELSE IF q \in Inner /\ Par(q) = p THEN E!Gone ELSE fstree[q]
    <2>1. fstree' = [E!PlaceLeaf(p, FALSE) EXCEPT ![p] = n]
        BY Zenon, <1>0 DEF E!Put
    <2>2. Formed(fstree)
        BY Zenon DEF EInv
    <2> QED BY Zenon, <2>1, <2>2, PlacedTop
<1>2. puts' = [q \in E!Paths |-> IF q = p THEN n ELSE puts[q]] /\ Unpacked' /\
        (~unusual' => ~unusual /\ puts[p] = E!Gone /\ \A q \in Inner : Par(q) = p => puts[q] = E!Gone)
    BY Zenon, <1>0, PutEffect
<1>3. Inner \subseteq E!Paths /\ p \notin Inner /\ (\A q \in Inner : Par(q) \in Top /\ Par(q) \in E!Paths /\ q \notin Top /\ q # p)
        /\ \A q \in E!Paths : q \in Top \/ q \in Inner
    BY Zenon, Shape
<1>4. Formed(fstree')
    <2>1. \A q \in E!Paths : IsNode(fstree'[q])
        BY Zenon, <1>0, <1>1 DEF EInv, Formed
    <2>2. ASSUME NEW q \in Inner PROVE fstree'[q] # E!Dir /\ (fstree'[q] # E!Gone => fstree'[Par(q)] = E!Dir)
        <3>1. CASE Par(q) = p
            BY Zenon, <1>0, <1>1, <1>3, <3>1
        <3>2. CASE Par(q) # p
            <4>1. fstree'[q] = fstree[q] /\ fstree'[Par(q)] = fstree[Par(q)]
                BY Zenon, <1>1, <1>3, <3>2
            <4> QED BY Zenon, <4>1 DEF EInv, Formed
        <3> QED BY Zenon, <3>1, <3>2
    <2> QED BY Zenon, <1>1, <2>1, <2>2 DEF Formed
<1>5. ASSUME ~unusual' PROVE \A q \in Inner : puts'[q] # E!Gone => puts'[Par(q)] \in {E!Gone, E!Dir}
    BY Zenon, <1>2, <1>3, <1>5 DEF EInv
<1>6. ASSUME ~unusual', NEW q \in E!Paths PROVE fstree'[q] = Mean(puts', hides', lower', q)
    <2>0. fstree[q] = Mean(puts, hides, lower, q)
        BY Zenon, <1>2, <1>6 DEF EInv
    <2>1. CASE q = p
        BY Zenon, <1>0, <1>1, <1>2, <2>1 DEF Mean
    <2>2. CASE q \in Top /\ q # p
        <3>1. puts'[q] = puts[q] /\ q \notin Inner /\ \A c \in Inner : puts'[c] = puts[c]
            BY Zenon, <1>2, <1>3, <2>2
        <3> QED BY Zenon, <1>1, <2>0, <2>2, <3>1 DEF Mean
    <2>3. CASE q \in Inner /\ Par(q) # p
        <3>1. puts'[q] = puts[q] /\ puts'[Par(q)] = puts[Par(q)] /\ q # p /\ q \notin Top
            BY Zenon, <1>2, <1>3, <2>3
        <3> QED BY Zenon, <1>1, <2>0, <2>3, <3>1 DEF Mean
    <2>4. CASE q \in Inner /\ Par(q) = p
        <3>1. puts'[q] = E!Gone /\ puts'[p] = n /\ q # p /\ q \notin Top
            BY Zenon, <1>0, <1>2, <1>3, <1>6, <2>4
        <3> QED BY Zenon, <1>0, <1>1, <2>4, <3>1 DEF Mean
    <2> QED BY Zenon, <1>3, <2>1, <2>2, <2>3, <2>4
<1> QED BY Zenon, <1>2, <1>4, <1>5, <1>6 DEF EInv

\* A leaf put in a directory.
LEMMA PutInnerStep ==
    ASSUME EInv, NEW p \in Inner, NEW n, Leaf(n), NEW names, E!Put(names, p, n), UNCHANGED <<lower, hides>>,
           deferred' \in Seq(E!HardLinks)
    PROVE  EInv'
<1> DEFINE r == Par(p)
<1>0. p \in E!Paths /\ n # E!Gone /\ n # E!Dir /\ IsNode(n) /\ IsNode(E!Dir) /\ E!Gone # E!Dir
    BY Zenon, Shape, Kinds DEF IsNode
<1>1. fstree' = [q \in E!Paths |-> fstree'[q]] /\ \A q \in E!Paths : fstree'[q] =
        IF q = p THEN n ELSE IF q = r THEN E!Dir ELSE fstree[q]
    <2>1. fstree' = [E!PlaceLeaf(p, FALSE) EXCEPT ![p] = n]
        BY Zenon, <1>0 DEF E!Put
    <2>2. Formed(fstree)
        BY Zenon DEF EInv
    <2> QED BY Zenon, <2>1, <2>2, PlacedInner
<1>2. puts' = [q \in E!Paths |-> IF q = p THEN n ELSE puts[q]] /\ Unpacked' /\
        (~unusual' => ~unusual /\ puts[p] = E!Gone /\ puts[r] \in {E!Gone, E!Dir})
    BY Zenon, <1>0, PutEffect
<1>3. Inner \subseteq E!Paths /\ r \in Top /\ r \in E!Paths /\ r # p /\ (\A q \in Inner : Par(q) \in E!Paths /\ Par(q) # p /\ q \notin Top /\ q # r)
        /\ (\A q \in E!Paths : q \in Top \/ q \in Inner) /\ \A q \in Top : q # p
    <2>1. Inner \subseteq E!Paths /\ r \in Top /\ r \in E!Paths
        BY Zenon, Shape
    <2>2. (\A q \in Inner : Par(q) \in E!Paths /\ Par(q) \in Top /\ q \notin Top) /\ (\A q \in E!Paths : q \in Top \/ q \in Inner)
        BY Zenon, Shape
    <2> QED BY Zenon, <2>1, <2>2
<1> HIDE DEF r
<1>4. Formed(fstree')
    <2>1. \A q \in E!Paths : IsNode(fstree'[q])
        BY Zenon, <1>0, <1>1 DEF EInv, Formed
    <2>2. ASSUME NEW q \in Inner PROVE fstree'[q] # E!Dir /\ (fstree'[q] # E!Gone => fstree'[Par(q)] = E!Dir)
        <3>1. CASE q = p
            BY Zenon, <1>0, <1>1, <1>3, <3>1 DEF r
        <3>2. CASE q # p
            <4>1. fstree'[q] = fstree[q] /\ fstree'[Par(q)] = IF Par(q) = r THEN E!Dir ELSE fstree[Par(q)]
                BY Zenon, <1>1, <1>3, <3>2
            <4> QED BY Zenon, <4>1 DEF EInv, Formed
        <3> QED BY Zenon, <3>1, <3>2
    <2> QED BY Zenon, <1>1, <2>1, <2>2 DEF Formed
<1>5. ASSUME ~unusual' PROVE \A q \in Inner : puts'[q] # E!Gone => puts'[Par(q)] \in {E!Gone, E!Dir}
    BY Zenon, <1>2, <1>3, <1>5 DEF EInv, r
<1>6. ASSUME ~unusual', NEW q \in E!Paths PROVE fstree'[q] = Mean(puts', hides', lower', q)
    <2>0. fstree[q] = Mean(puts, hides, lower, q)
        BY Zenon, <1>2, <1>6 DEF EInv
    <2>1. CASE q = p
        BY Zenon, <1>0, <1>1, <1>2, <2>1 DEF Mean
    <2>2. CASE q = r
        <3>1. puts'[r] \in {E!Gone, E!Dir} /\ puts'[p] # E!Gone /\ p \in Inner /\ Par(p) = r /\ r \in Top /\ fstree'[r] = E!Dir
            BY Zenon, <1>0, <1>1, <1>2, <1>3, <1>6 DEF r
        <3> QED BY Zenon, <2>2, <3>1 DEF Mean
    <2>3. CASE q \in Top /\ q # r
        <3>1. puts'[q] = puts[q] /\ q # p /\ \A c \in Inner : Par(c) = q => puts'[c] = puts[c]
            BY Zenon, <1>2, <1>3, <2>3 DEF r
        <3>2. (\E c \in Inner : Par(c) = q /\ puts'[c] # E!Gone) <=> \E c \in Inner : Par(c) = q /\ puts[c] # E!Gone
            BY Zenon, <3>1
        <3> QED BY Zenon, <1>1, <2>0, <2>3, <3>1, <3>2 DEF Mean
    <2>4. CASE q \in Inner /\ q # p
        <3>1. puts'[q] = puts[q] /\ puts'[Par(q)] = puts[Par(q)] /\ q # r /\ q \notin Top
            BY Zenon, <1>2, <1>3, <2>4
        <3> QED BY Zenon, <1>1, <2>0, <2>4, <3>1 DEF Mean
    <2> QED BY Zenon, <1>3, <2>1, <2>2, <2>3, <2>4
<1> QED BY Zenon, <1>2, <1>4, <1>5, <1>6 DEF EInv

\* A leaf put anywhere.
LEMMA PutLeafStep ==
    ASSUME EInv, NEW p \in E!Paths, NEW n, Leaf(n), NEW names, E!Put(names, p, n), UNCHANGED <<lower, hides>>,
           deferred' \in Seq(E!HardLinks)
    PROVE  EInv'
<1>1. p \in Top \/ p \in Inner
    BY Zenon, Shape
<1> QED BY Zenon, <1>1, PutTopStep, PutInnerStep

\* A path leads to a path.
LEMMA Resolved ==
    ASSUME NEW p \in E!Paths
    PROVE  E!ResolveParent(p) \in E!Paths
<1>1. p = <<"a">> \/ p = <<"b">> \/ p = <<"a", "a">> \/ p = <<"a", "b">> \/ p = <<"b", "a">>
    BY Zenon DEF E!Paths
<1>2. 1 # 2
    OBVIOUS
<1>3. CASE p \in Top
    <2>1. Len(p) # 2
        BY Zenon, <1>2, <1>3, Shape
    <2> QED BY Zenon, <2>1 DEF E!ResolveParent
<1>4. CASE p \in Inner
    <2>1. p[2] \in {"a", "b"}
        BY <1>4 DEF Inner
    <2>2. <<"a", p[2]>> \in E!Paths
        BY Zenon, <2>1 DEF E!Paths
    <2> QED BY Zenon, <2>2 DEF E!ResolveParent
<1> QED BY Zenon, <1>3, <1>4, Shape

\* The names and targets of hard links are paths.
LEMMA Links == \A h \in E!HardLinks : h[1] \in E!Paths /\ h[2] \in E!Paths
<1>1. ASSUME NEW x, NEW y PROVE <<x, y>>[1] = x /\ <<x, y>>[2] = y
    OBVIOUS
<1>2. <<"a">> \in E!Paths /\ <<"b">> \in E!Paths /\ <<"a", "a">> \in E!Paths /\ <<"a", "b">> \in E!Paths
    BY Zenon DEF E!Paths
<1> SUFFICES ASSUME NEW h \in E!HardLinks PROVE h[1] \in E!Paths /\ h[2] \in E!Paths
    BY Zenon
<1>3. CASE h = << <<"b">>, <<"a", "a">> >>
    BY Zenon, <1>1, <1>2, <1>3
<1>4. CASE h = << <<"a", "b">>, <<"b">> >>
    BY Zenon, <1>1, <1>2, <1>4
<1> QED BY Zenon, <1>3, <1>4 DEF E!HardLinks

\* What link(2) finds at its target is a node.
LEMMA PlacedNodes ==
    ASSUME Formed(fstree), NEW p \in E!Paths, NEW q \in E!Paths
    PROVE  IsNode(E!PlaceLeaf(p, FALSE)[q])
<1> DEFINE t == E!EnsureDir(fstree, p)
<1>0. IsNode(E!Gone) /\ IsNode(E!Dir) /\ IsNode(fstree[q])
    BY Zenon DEF IsNode, Formed
<1>1. IsNode(t[q])
    <2>1. CASE t = fstree
        BY Zenon, <1>0, <2>1
    <2>2. CASE t = [E!RemoveTree(fstree, SubSeq(p, 1, 1)) EXCEPT ![SubSeq(p, 1, 1)] = E!Dir]
        <3>1. E!RemoveTree(fstree, SubSeq(p, 1, 1))[q] \in {E!Gone, fstree[q]}
            BY Zenon DEF E!RemoveTree
        <3>2. E!RemoveTree(fstree, SubSeq(p, 1, 1)) = [c \in E!Paths |-> E!RemoveTree(fstree, SubSeq(p, 1, 1))[c]]
            BY Zenon DEF E!RemoveTree
        <3>3. t[q] \in {E!Dir, E!RemoveTree(fstree, SubSeq(p, 1, 1))[q]}
            BY Zenon, <2>2, <3>2
        <3> HIDE DEF t
        <3> QED BY Zenon, <1>0, <3>1, <3>3
    <2> QED BY Zenon, <2>1, <2>2 DEF E!EnsureDir
<1>2. E!PlaceLeaf(p, FALSE) = E!RemoveTree(t, p)
    BY Zenon DEF E!PlaceLeaf
<1> HIDE DEF t
<1>3. E!RemoveTree(t, p)[q] \in {E!Gone, t[q]}
    BY Zenon DEF E!RemoveTree
<1> QED BY Zenon, <1>0, <1>1, <1>2, <1>3

\* A member that is refused ends the extraction.
LEMMA ExtractFailStep ==
    ASSUME EInv, E!Fail
    PROVE  EInv'
<1>1. unusual' = TRUE /\ UNCHANGED <<fstree, unpacked, deferred, lower, puts>>
    BY Zenon DEF E!Fail
<1> QED BY Zenon, <1>1 DEF EInv, Unpacked

\* apply_hardlink puts what its target holds, or fails.
LEMMA LinkStep ==
    ASSUME EInv, NEW name \in E!Paths, NEW target \in E!Paths, NEW rest \in Seq(E!HardLinks), NEW names,
           E!LinkTo(name, target, rest, names)
    PROVE  EInv'
<1> DEFINE p == E!ResolveParent(name)
           n == E!PlaceLeaf(p, FALSE)[target]
<1>1. p \in E!Paths
    BY Zenon, Resolved
<1>2. IsNode(n)
    BY Zenon, <1>1, PlacedNodes DEF EInv
<1> HIDE DEF p
<1>3. CASE n.type \notin {"none", "dir"} /\ E!Put(names, p, n) /\ deferred' = rest /\ UNCHANGED <<layer, lower, hides>>
    <2> HIDE DEF n
    <2>1. Leaf(n)
        BY Zenon, <1>2, <1>3, Kinds
    <2> QED BY Zenon, <1>1, <1>3, <2>1, PutLeafStep
<1> QED BY Zenon, <1>3, ExtractFailStep DEF E!LinkTo, p

\* Members that put a directory, a file or a symlink.
LEMMA MembersPut ==
    ASSUME EInv, E!CreateDirectory \/ E!WriteRegular \/ E!CreateSymlink
    PROVE  EInv'
<1>0. deferred \in Seq(E!HardLinks)
    BY Zenon DEF EInv
<1>1. CASE E!CreateDirectory
    <2>1. PICK p \in Top : E!Put(written \cup {p}, p, E!Dir)
        BY Zenon, <1>1 DEF E!CreateDirectory, Top
    <2>2. UNCHANGED <<lower, hides>> /\ deferred' \in Seq(E!HardLinks)
        BY Zenon, <1>0, <1>1 DEF E!CreateDirectory
    <2> QED BY Zenon, <2>1, <2>2, PutDirStep
<1>2. CASE E!WriteRegular
    <2>1. PICK p \in E!Paths : E!Put(written \cup {p}, E!ResolveParent(p), E!Node("reg", layer))
        BY Zenon, <1>2 DEF E!WriteRegular
    <2>2. UNCHANGED <<lower, hides>> /\ deferred' \in Seq(E!HardLinks)
        BY Zenon, <1>0, <1>2 DEF E!WriteRegular
    <2>3. E!ResolveParent(p) \in E!Paths /\ Leaf(E!Node("reg", layer))
        BY Zenon, Resolved, Kinds
    <2> QED BY Zenon, <2>1, <2>2, <2>3, PutLeafStep
<1>3. CASE E!CreateSymlink
    <2>1. PICK abs \in {0, 1} : E!Put(written \cup {<<"b">>}, <<"b">>, E!Node("sym", abs))
        BY Zenon, <1>3 DEF E!CreateSymlink
    <2>2. UNCHANGED <<lower, hides>> /\ deferred' \in Seq(E!HardLinks)
        BY Zenon, <1>0, <1>3 DEF E!CreateSymlink
    <2>3. <<"b">> \in E!Paths /\ Leaf(E!Node("sym", abs))
        BY Zenon, Kinds DEF E!Paths
    <2> QED BY Zenon, <2>1, <2>2, <2>3, PutLeafStep
<1> QED BY Zenon, <1>1, <1>2, <1>3

\* Hard links: at once, put off, or taken up at the end of the stream.
LEMMA LinksPut ==
    ASSUME EInv, E!ApplyHardlink \/ E!FlushHardlink
    PROVE  EInv'
<1>0. deferred \in Seq(E!HardLinks)
    BY Zenon DEF EInv
<1>1. ASSUME deferred' \in Seq(E!HardLinks), UNCHANGED <<fstree, layer, unpacked, written, lower, puts, hides, unusual>>
      PROVE  EInv'
    BY Zenon, <1>1 DEF EInv, Unpacked
<1>2. CASE E!ApplyHardlink
    <2>1. PICK h \in E!HardLinks :
            IF E!Type(h[2]) # "none" THEN E!LinkTo(h[1], h[2], deferred, written \cup {h[1]})
            ELSE /\ deferred' = Append(deferred, h)
                 /\ UNCHANGED <<fstree, layer, unpacked, written, lower, puts, hides, unusual>>
        BY Zenon, <1>2 DEF E!ApplyHardlink
    <2>2. Append(deferred, h) \in Seq(E!HardLinks)
        BY <1>0
    <2>3. h[1] \in E!Paths /\ h[2] \in E!Paths
        BY Zenon, Links
    <2> QED BY Zenon, <1>0, <1>1, <2>1, <2>2, <2>3, LinkStep
<1>3. CASE E!FlushHardlink
    <2> DEFINE h == Head(deferred)
    <2>1. IF h[1] \notin written THEN E!LinkTo(h[1], h[2], Tail(deferred), written)
          ELSE /\ deferred' = Tail(deferred)
               /\ UNCHANGED <<fstree, layer, unpacked, written, lower, puts, hides, unusual>>
        BY Zenon, <1>3 DEF E!FlushHardlink
    <2>2. deferred # <<>>
        BY Zenon, <1>3 DEF E!FlushHardlink
    <2>3. h \in E!HardLinks /\ Tail(deferred) \in Seq(E!HardLinks)
        BY <1>0, <2>2
    <2> HIDE DEF h
    <2>4. h[1] \in E!Paths /\ h[2] \in E!Paths
        BY Zenon, <2>3, Links
    <2> QED BY Zenon, <1>1, <2>1, <2>3, <2>4, LinkStep
<1> QED BY Zenon, <1>2, <1>3

\* A whiteout hides what is below its name, and contradicts a member of the layer it removes.
LEMMA WhiteoutStep ==
    ASSUME EInv, E!Whiteout
    PROVE  EInv'
<1>1. PICK p \in E!Paths :
        IF E!Escapes(p) THEN E!Fail
        ELSE /\ fstree' = E!RemoveTree(fstree, E!ResolveParent(p))
             /\ hides' = hides \cup {E!ResolveParent(p)} \cup E!Below(E!ResolveParent(p))
             /\ unusual' = (unusual \/ \E q \in {E!ResolveParent(p)} \cup E!Below(E!ResolveParent(p)) : puts[q] # E!Gone)
             /\ UNCHANGED <<layer, unpacked, written, deferred, lower, puts>>
    BY Zenon DEF E!Whiteout
<1> DEFINE r == E!ResolveParent(p)
           Cut == {r} \cup E!Below(r)
<1>2. r \in E!Paths
    BY Zenon, Resolved
<1> HIDE DEF r
<1>3. CASE E!Escapes(p)
    BY Zenon, <1>1, <1>3, ExtractFailStep
<1>4. CASE ~E!Escapes(p)
    <2>1. /\ hides' = hides \cup Cut /\ unusual' = (unusual \/ \E q \in Cut : puts[q] # E!Gone)
          /\ fstree' = [q \in E!Paths |-> IF q \in Cut THEN E!Gone ELSE fstree[q]]
          /\ UNCHANGED <<unpacked, deferred, lower, puts>>
        <3>1. /\ fstree' = E!RemoveTree(fstree, r) /\ hides' = hides \cup {r} \cup E!Below(r)
              /\ unusual' = (unusual \/ \E q \in {r} \cup E!Below(r) : puts[q] # E!Gone)
              /\ UNCHANGED <<unpacked, deferred, lower, puts>>
            BY Zenon, <1>1, <1>4 DEF r
        <3>2. E!RemoveTree(fstree, r) = [q \in E!Paths |-> IF q \in Cut THEN E!Gone ELSE fstree[q]]
            BY Zenon DEF E!RemoveTree
        <3>3. hides \cup {r} \cup E!Below(r) = hides \cup Cut
            BY Zenon
        <3> QED BY Zenon, <3>1, <3>2, <3>3
    <2>2. \A q \in Inner : Par(q) \in Cut => q \in Cut
        <3> SUFFICES ASSUME NEW q \in Inner, Par(q) \in Cut PROVE q \in Cut
            BY Zenon
        <3>1. Par(q) \in Top /\ q \in E!Paths
            BY Zenon, Shape
        <3>2. Par(q) \notin E!Below(r)
            <4>1. E!Below(r) \subseteq Inner
                BY Zenon, <1>2, Shape
            <4> QED BY Zenon, <3>1, <4>1, Shape
        <3>3. Par(q) = r
            BY Zenon, <3>2
        <3>4. E!Below(r) = {c \in Inner : Par(c) = r}
            BY Zenon, <3>1, <3>3, Shape
        <3>5. q \in E!Below(r)
            BY Zenon, <3>3, <3>4
        <3> QED BY Zenon, <3>5
    <2>3. Inner \subseteq E!Paths /\ (\A q \in Inner : Par(q) \in E!Paths /\ q \notin Top) /\ \A q \in E!Paths : q \in Top \/ q \in Inner
        BY Zenon, Shape
    <2> HIDE DEF Cut
    <2>4. Formed(fstree')
        BY Zenon, <2>1, <2>2, <2>3, Kinds DEF EInv, Formed, IsNode
    <2>5. ASSUME ~unusual', NEW q \in E!Paths PROVE fstree'[q] = Mean(puts', hides', lower', q)
        <3>1. ~unusual /\ \A c \in Cut : puts[c] = E!Gone
            BY Zenon, <2>1, <2>5
        <3>2. fstree[q] = Mean(puts, hides, lower, q) /\ puts' = puts /\ lower' = lower
            BY Zenon, <2>1, <3>1 DEF EInv
        <3>3. CASE q \in Cut
            <4>1. fstree'[q] = E!Gone /\ q \in hides' /\ puts'[q] = E!Gone /\ \A c \in Inner : Par(c) = q => puts'[c] = E!Gone
                BY Zenon, <2>1, <2>2, <3>1, <3>3
            <4> QED BY Zenon, <4>1 DEF Mean
        <3>4. CASE q \notin Cut
            <4>1. fstree'[q] = fstree[q] /\ (q \in hides' <=> q \in hides)
                BY Zenon, <2>1, <3>4
            <4> QED BY Zenon, <3>2, <4>1 DEF Mean
        <3> QED BY Zenon, <3>3, <3>4
    <2>6. ~unusual' => ~unusual
        BY Zenon, <2>1
    <2> QED BY Zenon, <2>1, <2>4, <2>5, <2>6 DEF EInv, Unpacked
<1> QED BY Zenon, <1>3, <1>4

\* An opaque marker hides what lower layers put in a directory and spares what this one put.
LEMMA OpaqueStep ==
    ASSUME EInv, E!Opaque
    PROVE  EInv'
<1>1. PICK d \in E!Dirs :
        IF d # <<>> /\ E!Type(d) = "reg" THEN E!Fail
        ELSE /\ fstree' = E!ClearDir(d)
             /\ hides' = hides \cup E!Below(d)
             /\ UNCHANGED <<layer, unpacked, written, deferred, lower, puts, unusual>>
    BY Zenon DEF E!Opaque
<1>2. CASE E!Fail
    BY Zenon, <1>2, ExtractFailStep
<1>3. CASE ~E!Fail
    <2> DEFINE Cut == E!Below(d)
    <2>1. /\ fstree' = [q \in E!Paths |-> IF q \in Cut /\ q \notin unpacked THEN E!Gone ELSE fstree[q]]
          /\ hides' = hides \cup Cut /\ UNCHANGED <<unpacked, deferred, lower, puts, unusual>>
        BY Zenon, <1>1, <1>3 DEF E!ClearDir
    <2>2. Inner \subseteq E!Paths /\ (\A q \in Inner : Par(q) \in E!Paths /\ Par(q) \in Top /\ q \notin Top)
            /\ \A q \in E!Paths : q \in Top \/ q \in Inner
        BY Zenon, Shape
    <2>3. \A q \in Inner : Par(q) \in Cut => q \in Cut
        <3>1. CASE d = <<>>
            BY Zenon, <2>2, <3>1, Shape
        <3>2. CASE d = <<"a">>
            <4>1. d \in Top
                BY Zenon, <3>2 DEF Top
            <4> QED BY Zenon, <2>2, <4>1, Shape
        <3> QED BY Zenon, <3>1, <3>2 DEF E!Dirs
    <2> HIDE DEF Cut
    <2>4. \A q \in Inner : q \in unpacked => Par(q) \in unpacked
        <3> SUFFICES ASSUME NEW q \in Inner, q \in unpacked PROVE Par(q) \in unpacked
            BY Zenon
        <3>1. puts[q] # E!Gone
            <4>1. \A c \in Inner : Par(c) # q
                BY Zenon, <2>2
            <4> QED BY Zenon, <2>2, <4>1 DEF EInv, Unpacked
        <3> QED BY Zenon, <2>2, <3>1 DEF EInv, Unpacked
    <2>5. Formed(fstree')
        <3>1. \A q \in E!Paths : IsNode(fstree'[q])
            BY Zenon, <2>1 DEF EInv, Formed, IsNode
        <3>2. \A q \in Inner : fstree'[q] # E!Dir /\ (fstree'[q] # E!Gone => fstree'[Par(q)] = E!Dir)
            BY Zenon, <2>1, <2>2, <2>3, <2>4, Kinds DEF EInv, Formed
        <3> QED BY Zenon, <2>1, <3>1, <3>2 DEF Formed
    <2>6. ASSUME ~unusual', NEW q \in E!Paths PROVE fstree'[q] = Mean(puts', hides', lower', q)
        <3>1. fstree[q] = Mean(puts, hides, lower, q) /\ puts' = puts /\ lower' = lower
            BY Zenon, <2>1, <2>6 DEF EInv
        <3>2. q \in unpacked <=> puts[q] # E!Gone \/ \E c \in Inner : Par(c) = q /\ puts[c] # E!Gone
            BY Zenon DEF EInv, Unpacked
        <3>3. CASE q \notin Cut
            <4>1. fstree'[q] = fstree[q] /\ (q \in hides' <=> q \in hides)
                BY Zenon, <2>1, <3>3
            <4> QED BY Zenon, <3>1, <4>1 DEF Mean
        <3>4. CASE q \in Cut /\ q \notin unpacked
            <4>1. fstree'[q] = E!Gone /\ q \in hides'
                BY Zenon, <2>1, <3>4
            <4> QED BY Zenon, <3>1, <3>2, <3>4, <4>1 DEF Mean
        <3>5. CASE q \in Cut /\ q \in unpacked
            <4>1. fstree'[q] = fstree[q]
                BY Zenon, <2>1, <3>5
            <4>2. puts[q] # E!Gone \/ (q \in Top /\ \E c \in Inner : Par(c) = q /\ puts[c] # E!Gone)
                BY Zenon, <2>2, <3>2, <3>5
            <4> QED BY Zenon, <3>1, <4>1, <4>2 DEF Mean
        <3> QED BY Zenon, <3>3, <3>4, <3>5
    <2> QED BY Zenon, <2>1, <2>5, <2>6 DEF EInv, Unpacked
<1> QED BY Zenon, <1>2, <1>3

\* The end of the stream, a skipped member, the next layer, and no step at all.
LEMMA ExtractRest ==
    ASSUME EInv, E!SkipMember \/ E!EndOfStream \/ E!NextLayer \/ UNCHANGED E!evars
    PROVE  EInv'
<1>1. CASE UNCHANGED <<fstree, unpacked, deferred, lower, puts, hides, unusual>>
    BY Zenon, <1>1 DEF EInv, Unpacked
<1>2. CASE E!NextLayer
    <2>1. /\ fstree' = fstree /\ lower' = fstree /\ puts' = [p \in E!Paths |-> E!Gone] /\ hides' = {} /\ unpacked' = {}
          /\ deferred' = deferred
        BY Zenon, <1>2 DEF E!NextLayer
    <2>2. Inner \subseteq E!Paths /\ (\A q \in Inner : Par(q) \in E!Paths) /\ \A q \in E!Paths : q \in Top \/ q \in Inner
        BY Zenon, Shape
    <2>3. puts' = [p \in E!Paths |-> puts'[p]] /\ (\A p \in E!Paths : puts'[p] = E!Gone) /\ E!Gone # E!Dir
        BY Zenon, <2>1, Kinds
    <2>4. Unpacked'
        BY Zenon, <2>1, <2>2, <2>3 DEF Unpacked
    <2>5. \A p \in E!Paths : fstree'[p] = Mean(puts', hides', lower', p)
        BY Zenon, <2>1, <2>2, <2>3 DEF Mean
    <2>6. \A p \in Inner : puts'[p] # E!Gone => puts'[Par(p)] \in {E!Gone, E!Dir}
        BY Zenon, <2>2, <2>3
    <2> QED BY Zenon, <2>1, <2>3, <2>4, <2>5, <2>6 DEF EInv
<1> QED BY Zenon, <1>1, <1>2 DEF E!SkipMember, E!EndOfStream, E!evars

\* EInv holds at first: the root is empty.
LEMMA EInvInit == E!Init => EInv
<1> SUFFICES ASSUME E!Init PROVE EInv
    BY Zenon
<1>1. /\ fstree = [p \in E!Paths |-> E!Gone] /\ lower = fstree /\ puts = fstree /\ hides = {} /\ unpacked = {} /\ deferred = <<>>
    BY Zenon DEF E!Init
<1>2. Inner \subseteq E!Paths /\ (\A q \in Inner : Par(q) \in E!Paths) /\ \A q \in E!Paths : q \in Top \/ q \in Inner
    BY Zenon, Shape
<1>3. Formed(fstree) /\ puts = [p \in E!Paths |-> puts[p]] /\ \A p \in E!Paths : puts[p] = E!Gone
    BY Zenon, <1>1, <1>2, Kinds DEF Formed, IsNode
<1>4. deferred \in Seq(E!HardLinks)
    BY <1>1
<1>5. Unpacked
    BY Zenon, <1>1, <1>2, <1>3 DEF Unpacked
<1>6. \A p \in E!Paths : fstree[p] = Mean(puts, hides, lower, p)
    BY Zenon, <1>1, <1>2, <1>3, Kinds DEF Mean
<1> QED BY Zenon, <1>1, <1>2, <1>3, <1>4, <1>5, <1>6 DEF EInv

\* When a layer has been read the rootfs is what its members mean, wherever its opaque markers
\* stood and whichever way symlinks led, for any number of layers and members, unless the layer
\* contradicts itself (bux-oci extract.rs).
THEOREM LayersMeanTheirMembers == E!Spec => []LayerMeaning
<1>1. EInv /\ [E!Next]_(E!evars) => EInv'
    BY Zenon, MembersPut, LinksPut, WhiteoutStep, OpaqueStep, ExtractRest DEF E!Next
<1>2. EInv => LayerMeaning
    BY Zenon, MeaningIsMean DEF EInv, LayerMeaning, E!LayerMeaning
<1> QED BY EInvInit, <1>1, <1>2, PTL DEF E!Spec
=============================================================================
