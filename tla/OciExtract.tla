----------------------------- MODULE OciExtract -----------------------------
(***************************************************************************)
(* LayerExtractor of crates/bux-oci: the layers of an image are tar        *)
(* streams, applied in order to one rootfs.  Members are resolved by       *)
(* SafeRoot (symlinks followed inside the root), replace what is there,    *)
(* or are whiteouts of what lower layers put.  A tree is a function on a   *)
(* small set of paths; a directory's content is what is below its path.    *)
(***************************************************************************)
EXTENDS Naturals, Sequences

CONSTANTS MaxLayers, MaxMembers   \* bounds on an image

VARIABLES fstree,      \* the rootfs
          layer, members,          \* layer being read, members read of it
          unpacked, written,       \* HashSets of extract_reader
          deferred,    \* hard links whose target was not there yet
          lower,       \* history: the rootfs when this layer began
          puts, hides, \* history: what this layer put and hid
          unusual      \* history: the layer contradicts itself, or failed
evars == <<fstree, layer, members, unpacked, written, deferred, lower, puts, hides, unusual>>

Paths == {<<"a">>, <<"b">>, <<"a", "a">>, <<"a", "b">>, <<"b", "a">>}
Dirs == {<<>>, <<"a">>}
Node(t, v) == [type |-> t, v |-> v]
Gone == Node("none", 0)
Dir == Node("dir", 0)

Init ==
  /\ fstree = [p \in Paths |-> Gone] /\ lower = fstree
  /\ layer = 1 /\ members = 0
  /\ unpacked = {} /\ written = {} /\ deferred = <<>>
  /\ puts = fstree /\ hides = {} /\ unusual = FALSE

Below(p) == {q \in Paths : Len(q) > Len(p) /\ SubSeq(q, 1, Len(p)) = p}
Above(p) == {q \in Paths : p \in Below(q)}
Type(p) == fstree[p].type

\* SafeRoot::resolve_or_root of the parent.  The one symlink there can be,
\* /b, points to a or to /a; both are re-anchored at the root.
ResolveParent(p) ==
  IF Len(p) = 2 /\ Type(SubSeq(p, 1, 1)) = "sym" THEN <<"a", p[2]>> ELSE p

\* whiteout_parent_escapes: a whiteout does not follow an absolute link.
Escapes(p) == Len(p) = 2 /\ fstree[SubSeq(p, 1, 1)] = Node("sym", 1)

\* remove_nofollow
RemoveTree(t, p) == [q \in Paths |-> IF q = p \/ q \in Below(p) THEN Gone ELSE t[q]]
\* ensure_dir replaces a file that is in the way.
EnsureDir(t, p) ==
  IF Len(p) = 1 \/ t[SubSeq(p, 1, 1)].type = "dir" THEN t
  ELSE [RemoveTree(t, SubSeq(p, 1, 1)) EXCEPT ![SubSeq(p, 1, 1)] = Dir]
PlaceLeaf(p, keepDir) ==
  LET t == EnsureDir(fstree, p)
  IN  IF keepDir /\ t[p].type = "dir" THEN t ELSE RemoveTree(t, p)

\* The layer names a path twice, or puts something below what is no directory.
Contradicts(p, n) ==
  \/ puts[p] # Gone
  \/ \E q \in Above(p) : puts[q] \notin {Gone, Dir}
  \/ n # Dir /\ \E q \in Below(p) : puts[q] # Gone
Put(names, p, n) ==
  /\ fstree' = [PlaceLeaf(p, n = Dir) EXCEPT ![p] = n]
  /\ written' = names
  /\ unpacked' = unpacked \cup {p} \cup Above(p)
  /\ puts' = [puts EXCEPT ![p] = n]
  /\ unusual' = (unusual \/ Contradicts(p, n))

NextMember == layer <= MaxLayers /\ members < MaxMembers /\ members' = members + 1
Fail ==
  /\ layer' = MaxLayers + 1 /\ unusual' = TRUE
  /\ UNCHANGED <<fstree, unpacked, written, deferred, lower, puts, hides>>

CreateDirectory ==
  /\ NextMember
  /\ \E p \in {<<"a">>, <<"b">>} : Put(written \cup {p}, p, Dir)
  /\ UNCHANGED <<layer, deferred, lower, hides>>

WriteRegular ==
  /\ NextMember
  /\ \E p \in Paths : Put(written \cup {p}, ResolveParent(p), Node("reg", layer))
  /\ UNCHANGED <<layer, deferred, lower, hides>>

\* /b is the only symlink.
CreateSymlink ==
  /\ NextMember
  /\ \E abs \in {0, 1} : Put(written \cup {<<"b">>}, <<"b">>, Node("sym", abs))
  /\ UNCHANGED <<layer, deferred, lower, hides>>

\* skip_member: devices, FIFOs and names that leave the root.
SkipMember ==
  /\ NextMember
  /\ UNCHANGED <<fstree, layer, unpacked, written, deferred, lower, puts, hides, unusual>>

\* place_leaf, then link(2): its target must still be there and no directory.
LinkTo(name, target, rest, names) ==
  LET p == ResolveParent(name)
      n == PlaceLeaf(p, FALSE)[target]
  IN  \/ /\ n.type \notin {"none", "dir"}
         /\ Put(names, p, n)
         /\ deferred' = rest
         /\ UNCHANGED <<layer, lower, hides>>
      \/ n.type \in {"none", "dir"} /\ Fail
HardLinks == {<< <<"b">>, <<"a", "a">> >>, << <<"a", "b">>, <<"b">> >>}
\* A target that is not there yet may come later in the layer.
ApplyHardlink ==
  /\ NextMember
  /\ \E h \in HardLinks :
       IF Type(h[2]) # "none" THEN LinkTo(h[1], h[2], deferred, written \cup {h[1]})
       ELSE /\ deferred' = Append(deferred, h)
            /\ UNCHANGED <<fstree, layer, unpacked, written, lower, puts, hides, unusual>>
FlushHardlink ==
  /\ deferred # <<>> /\ layer <= MaxLayers
  /\ members = MaxMembers /\ UNCHANGED members
  /\ LET h == Head(deferred) IN
       IF h[1] \notin written THEN LinkTo(h[1], h[2], Tail(deferred), written)
       ELSE /\ deferred' = Tail(deferred)
            /\ UNCHANGED <<fstree, layer, unpacked, written, lower, puts, hides, unusual>>

\* `.wh.<name>` removes the name, whoever put it.
Whiteout ==
  /\ NextMember
  /\ \E p \in Paths :
       LET r == ResolveParent(p) IN
       IF Escapes(p) THEN Fail
       ELSE /\ fstree' = RemoveTree(fstree, r)
            /\ hides' = hides \cup {r} \cup Below(r)
            /\ unusual' = (unusual \/ \E q \in {r} \cup Below(r) : puts[q] # Gone)
            /\ UNCHANGED <<layer, unpacked, written, deferred, lower, puts>>

\* Mutation: an opaque marker clears what its own layer put.
ClearAll(d) == [q \in Paths |-> IF q \in Below(d) THEN Gone ELSE fstree[q]]
\* `.wh..wh..opq`: clear_dir keeps what this layer has unpacked.
ClearDir(d) == [q \in Paths |-> IF q \in Below(d) /\ q \notin unpacked THEN Gone ELSE fstree[q]]
Opaque ==
  /\ NextMember
  /\ \E d \in Dirs :
       IF d # <<>> /\ Type(d) = "reg" THEN Fail
       ELSE /\ fstree' = ClearDir(d)
            /\ hides' = hides \cup Below(d)
            /\ UNCHANGED <<layer, unpacked, written, deferred, lower, puts, unusual>>

\* The tar stream ends: flush_hardlinks, then the next layer's extract_reader.
EndOfStream ==
  /\ layer <= MaxLayers /\ members < MaxMembers /\ members' = MaxMembers
  /\ UNCHANGED <<fstree, layer, unpacked, written, deferred, lower, puts, hides, unusual>>
NextLayer ==
  /\ layer <= MaxLayers /\ members = MaxMembers /\ deferred = <<>>
  /\ layer' = layer + 1 /\ members' = 0
  /\ unpacked' = {} /\ written' = {}
  /\ lower' = fstree /\ puts' = [p \in Paths |-> Gone] /\ hides' = {} /\ unusual' = FALSE
  /\ UNCHANGED <<fstree, deferred>>

Next ==
  \/ CreateDirectory \/ WriteRegular \/ CreateSymlink \/ SkipMember
  \/ ApplyHardlink \/ FlushHardlink \/ Whiteout \/ Opaque
  \/ EndOfStream \/ NextLayer
Spec == Init /\ [][Next]_evars

-----------------------------------------------------------------------------
\* What a layer means, read as a set of members without their order.
Meaning(p) ==
  IF puts[p] # Gone THEN puts[p]
  ELSE IF \E q \in Below(p) : puts[q] # Gone THEN Dir
  ELSE IF p \in hides \/ \E q \in Above(p) : puts[q] \notin {Gone, Dir} THEN Gone
  ELSE IF \E q \in Above(p) : puts[q] = Dir /\ lower[q].type # "dir" THEN Gone
  ELSE lower[p]

\* When a layer has been read, the rootfs is what its members mean, wherever
\* an opaque marker stood among them and whichever way symlinks led: what the
\* layer put is there, what it hid of the layers below is not, the rest is
\* untouched.  Layers that contradict themselves are left out, and so is a
\* whiteout that follows a member of the same name in one layer: `.wh.x`
\* removes it too.
LayerMeaning ==
  members = MaxMembers /\ deferred = <<>> /\ ~unusual =>
    \A p \in Paths : fstree[p] = Meaning(p)
=============================================================================
