------------------------------- MODULE Qcow2 --------------------------------
(***************************************************************************)
(* crates/bux-qcow2: the reader of a backing chain, the overlay writer and *)
(* flatten, which merges a chain into one standalone image.  clone and     *)
(* restore of the runtime rest on it: the new VM must see exactly the disk *)
(* the old one saw.                                                        *)
(*                                                                         *)
(* The geometry is the code's, with a small ClusterSize: a cluster holds   *)
(* ClusterSize/8 table entries and ClusterSize/2 refcounts.  The contents  *)
(* of a cluster are a number, 0 for all zero bytes.  An L2 entry is a      *)
(* content, None (unallocated) or ZeroFlag: bit 0 set and no offset, which *)
(* in version 3 means that the cluster reads as zeros.                     *)
(***************************************************************************)
EXTENDS Integers, Sequences, FiniteSets, FiniteSetsExt

CONSTANTS ClusterSize,   \* bytes per cluster; a multiple of 8
          MaxClusters    \* largest virtual disk, in clusters

VARIABLES chain,    \* open layers, top first
          qpc, vc,  \* progress of flatten and the next virtual cluster
          next,     \* next_data: the next free cluster of the output
          image     \* the output: L2 entries, data, tables and refcounts

qvars == <<chain, qpc, vc, next, image>>

DivCeil(a, b) == (a + b - 1) \div b
TableEntries == ClusterSize \div 8      \* l2_entries
RcEntries == ClusterSize \div 2         \* rc_entries_per_block
Disk == 0 .. MaxClusters - 1

None == -2
ZeroFlag == -1
Layer(kind, size, table) == [kind |-> kind, size |-> size, table |-> table]
\* An overlay the guest wrote to, over a raw base that may be shorter.
Chains ==
  UNION {{<<Layer("qcow2", MaxClusters, top), Layer("raw", m, [c \in 0 .. m - 1 |-> c % 2])>> :
            top \in [Disk -> {None, ZeroFlag, 0, 2}]} :
         m \in {0, MaxClusters - 2, MaxClusters}}

Blank == [l2 |-> <<>>, data |-> <<>>, l1 |-> <<>>, rctable |-> 0, blocks |-> 0, used |-> {}]

Init == chain = <<>> /\ qpc = "idle" /\ vc = 0 /\ next = 0 /\ image = Blank

-----------------------------------------------------------------------------
(* Reading a layer. *)

\* Mutation: a cluster of zeros is taken for an unallocated one.
ReadThroughZero(layer, c) ==
  IF c >= layer.size \/ layer.table[c] <= 0 THEN None ELSE layer.table[c]
\* read_cluster: None is "not on this layer".
ReadCluster(layer, c) ==
  IF c >= layer.size \/ layer.table[c] < 0 THEN None ELSE layer.table[c]

\* The first layer that has the cluster wins; nobody has it: zeros.
ReadChain(layers, c) ==
  LET having == {i \in DOMAIN layers : ReadCluster(layers[i], c) # None}
  IN  IF having = {} THEN 0 ELSE ReadCluster(layers[Min(having)], c)

-----------------------------------------------------------------------------
(* flatten *)

VirtualSize == Head(chain).size
NumL1 == DivCeil(VirtualSize, TableEntries)
L1Clusters == DivCeil(NumL1 * 8, ClusterSize)
L2Start == 1 + L1Clusters
DataStart == L2Start + NumL1

\* open_chain
OpenChain ==
  /\ qpc = "idle"
  /\ \E c \in Chains : chain' = c
  /\ qpc' = "copy" /\ vc' = 0
  /\ next' = DataStart'
  /\ image' = Blank

\* No qcow2 on top, a layer that is missing or too short, a backing name that is
\* no UTF-8; later a compressed cluster, which leaves a part of the output.
RefuseChain ==
  /\ qpc \in {"idle", "copy"} /\ qpc' = "refused"
  /\ UNCHANGED <<chain, vc, next, image>>

\* One turn of the copy loop; a cluster of zeros is elided.
CopyCluster ==
  /\ qpc = "copy" /\ vc < VirtualSize
  /\ LET d == ReadChain(chain, vc) IN
       IF d = 0
       THEN UNCHANGED <<next, image>>
       ELSE /\ next' = next + 1
            /\ image' = [image EXCEPT
                 !.l2 = [c \in DOMAIN @ \cup {vc} |-> IF c = vc THEN next ELSE @[c]],
                 !.data = [c \in DOMAIN @ \cup {next} |-> IF c = next THEN d ELSE @[c]]]
  /\ vc' = vc + 1
  /\ UNCHANGED <<chain, qpc>>

\* Mutation: the refcount blocks are not counted.
RcBlocksOnce(start) == DivCeil(start, RcEntries)
\* The refcount blocks count themselves: the least number that covers all.
RcBlocks(start) ==
  CHOOSE b \in 1 .. start :
    /\ DivCeil(start + b, RcEntries) <= b
    /\ \A k \in 1 .. b - 1 : DivCeil(start + k, RcEntries) > k

\* The L1 table, the L2 tables that have an entry, refcounts and header.
WriteTables ==
  /\ qpc = "copy" /\ vc = VirtualSize
  /\ LET filled == {i \in 0 .. NumL1 - 1 :
                      \E c \in DOMAIN image.l2 : c \div TableEntries = i}
         blocks == RcBlocks(next + 1)
     IN image' = [image EXCEPT
          !.l1 = [i \in 0 .. NumL1 - 1 |-> IF i \in filled THEN L2Start + i ELSE 0],
          !.rctable = next,
          !.blocks = blocks,
          !.used = {0} \cup (1 .. L1Clusters) \cup {L2Start + i : i \in filled}
                     \cup (DataStart .. next - 1) \cup {next}
                     \cup (next + 1 .. next + blocks)]
  /\ qpc' = "done"
  /\ UNCHANGED <<chain, vc, next>>

\* The size in the header of a qcow2 base, or the length of a raw one.
BaseSizes == 1 .. MaxClusters

\* create_overlay: four clusters (header, L1 table, refcount table, refcount
\* block) for a disk of any size; no L2 table yet.
CreateOverlay ==
  /\ qpc = "idle"
  /\ \E n \in BaseSizes :
       /\ DivCeil(n, TableEntries) <= TableEntries   \* the L1 table fits a cluster
       /\ image' = [Blank EXCEPT !.l1 = [i \in 0 .. DivCeil(n, TableEntries) - 1 |-> 0],
                                 !.rctable = 2, !.blocks = 1, !.used = 0 .. 3]
  /\ qpc' = "overlay"
  /\ UNCHANGED <<chain, vc, next>>

Close ==
  /\ qpc \in {"done", "overlay", "refused"}
  /\ chain' = <<>> /\ qpc' = "idle" /\ vc' = 0 /\ next' = 0 /\ image' = Blank

Next == OpenChain \/ RefuseChain \/ CopyCluster \/ WriteTables \/ CreateOverlay \/ Close
Spec == Init /\ [][Next]_qvars

-----------------------------------------------------------------------------
(* What the guest of the clone sees, and what it saw before. *)

FlatRead(c) ==
  IF image.l1[c \div TableEntries] = 0 \/ c \notin DOMAIN image.l2 THEN 0
  ELSE image.data[image.l2[c]]

GuestRead(layers, c) ==
  LET having == {i \in DOMAIN layers : c < layers[i].size /\ layers[i].table[c] # None}
  IN  IF having = {} THEN 0 ELSE Max({0, layers[Min(having)].table[c]})

\* A clone or a restored snapshot reads every cluster as its source did.  The
\* clusters with the zero flag are excepted: read_cluster takes them for
\* unallocated and returns what the base has there.
FlattenPreserves ==
  qpc = "done" =>
    \A c \in 0 .. VirtualSize - 1 :
      Head(chain).table[c] # ZeroFlag => FlatRead(c) = GuestRead(chain, c)

\* Exactly the clusters an image refers to are counted, none for two purposes,
\* and the refcount blocks reach to the end of the file: what a writer that
\* allocates by refcount would otherwise overwrite.  For a flattened image and
\* for a fresh overlay whose L1 table fits the one cluster it is given.
RefcountsExact ==
  qpc \in {"done", "overlay"} =>
    LET l1clusters == DivCeil(Cardinality(DOMAIN image.l1) * 8, ClusterSize)
        l2s == {image.l1[i] : i \in DOMAIN image.l1} \ {0}
        data == {image.l2[c] : c \in DOMAIN image.l2}
        parts == <<{0}, 1 .. l1clusters, l2s, data, {image.rctable},
                   image.rctable + 1 .. image.rctable + image.blocks>>
    IN /\ image.used = UNION {parts[i] : i \in DOMAIN parts}
       /\ \A i, j \in DOMAIN parts : i # j => parts[i] \cap parts[j] = {}
       /\ Cardinality(data) = Cardinality(DOMAIN image.l2)
       /\ \A c \in image.used : c < image.blocks * RcEntries
=============================================================================
