---------------------------- MODULE ReachProofs -----------------------------
(* What a guest reaches.  Theorems about its mounts: a guest that serves   *)
(* finds at each path the directory and the mode asked for.  And about its *)
(* network: it reaches what allow_net names and nothing else, its secrets  *)
(* go to the hosts they are for, and the names it resolves are listed.     *)
(* Each component has an inductive invariant.                              *)
EXTENDS VmMounts, Proxy, WellFoundedInduction, TLAPS

-----------------------------------------------------------------------------
(* The mounts of a VM (volumes.rs, bux-jail, guest mounts.rs).              *)

\* The components of paths: strings, the ones the model spells out among them.
Words ==
    STRING \cup {"", "/", "tmp", "dev", "shm", "home", "u", "bux", "bux-shim", "socks", "vm.json", "volumes", "disks", "vms",
                 "vm.qcow2", "bases", "b.raw", "rootfs"}

\* Paths.
Names == Seq(Words)

\* The elements of short sequences.
LEMMA ShortSequences ==
    ASSUME NEW Any, NEW a \in Any, NEW b \in Any, NEW c \in Any
    PROVE  /\ <<a>> \in Seq(Any) /\ Len(<<a>>) = 1 /\ <<a>>[1] = a
           /\ <<a, b>> \in Seq(Any) /\ Len(<<a, b>>) = 2 /\ <<a, b>>[1] = a
           /\ <<a, b, c>> \in Seq(Any) /\ Len(<<a, b, c>>) = 3 /\ <<a, b, c>>[1] = a
OBVIOUS

\* The paths the model names.
LEMMA ShortPaths ==
    /\ <<"/">> \in Names /\ <<"/", "tmp">> \in Names /\ <<"/", "dev", "shm">> \in Names
    /\ <<"socks">> \in Names /\ <<"vm.json">> \in Names /\ <<"socks", "vm.json">> \in Names
    /\ <<"disks", "vms", "vm.qcow2">> \in Names /\ <<"disks", "bases", "b.raw">> \in Names /\ <<"rootfs">> \in Names
    /\ <<"volumes">> \in Names /\ \A n \in STRING : <<"volumes", n>> \in Names
BY Zenon, ShortSequences DEF Names, Words

\* A sequence of strings is one of words.
LEMMA StringsAreWords == Seq(STRING) \subseteq Names
<1>1. ASSUME NEW X, NEW Y, X \subseteq Y PROVE Seq(X) \subseteq Seq(Y)
    BY <1>1
<1> QED BY Zenon, <1>1 DEF Names, Words

\* A path is under another that it begins with.
LEMMA UnderMeans ==
    ASSUME NEW p \in Names, NEW q \in Names
    PROVE  M!IsOrUnder(p, q) <=> Len(q) <= Len(p) /\ \A i \in 1 .. Len(q) : p[i] = q[i]
<1>1. Len(p) \in Nat /\ Len(q) \in Nat
    BY DEF Names
<1>2. ASSUME Len(q) <= Len(p), SubSeq(p, 1, Len(q)) = q PROVE \A i \in 1 .. Len(q) : p[i] = q[i]
    <2> SUFFICES ASSUME NEW i \in 1 .. Len(q) PROVE p[i] = q[i]
        BY Zenon
    <2>1. SubSeq(p, 1, Len(q))[i] = p[i]
        BY <1>1, <1>2 DEF Names
    <2> QED BY Zenon, <1>2, <2>1
<1>3. ASSUME Len(q) <= Len(p), \A i \in 1 .. Len(q) : p[i] = q[i] PROVE SubSeq(p, 1, Len(q)) = q
    <2>1. q = [i \in 1 .. Len(q) |-> q[i]]
        BY <1>1 DEF Names
    <2>2. SubSeq(p, 1, Len(q)) = [i \in 1 .. Len(q) |-> p[i]]
        BY <1>1, <1>3 DEF Names
    <2>3. [i \in 1 .. Len(q) |-> q[i]] = [i \in 1 .. Len(q) |-> p[i]]
        BY Zenon, <1>3
    <2> QED BY Zenon, <2>1, <2>2, <2>3
<1>4. ASSUME p = q PROVE Len(q) <= Len(p) /\ \A i \in 1 .. Len(q) : p[i] = q[i]
    BY <1>1, <1>4
<1> QED BY Zenon, <1>2, <1>3, <1>4 DEF M!IsOrUnder

\* A path is under itself.
LEMMA Itself == \A p : M!IsOrUnder(p, p)
BY Zenon DEF M!IsOrUnder

\* A path joined from two.
LEMMA JoinedPath ==
    ASSUME NEW d \in Names, NEW e \in Names
    PROVE  /\ d \o e \in Names /\ Len(d \o e) = Len(d) + Len(e)
           /\ \A i \in 1 .. Len(d) : (d \o e)[i] = d[i]
           /\ \A i \in 1 .. Len(e) : (d \o e)[Len(d) + i] = e[i]
BY DEF Names

\* A set of numbers has a least one.
LEMMA LeastNumber ==
    ASSUME NEW T, T \subseteq Nat, T # {}
    PROVE  \E x \in T : \A y \in T : x <= y
<1> DEFINE Less == OpToRel(<, Nat)
<1>1. \E x \in T : \A y \in T : ~ (<<y, x>> \in Less)
    BY NatLessThanWellFounded, WFMin, Zenon
<1>2. \A x, y \in Nat : y < x => <<y, x>> \in Less
    <2> SUFFICES ASSUME NEW x \in Nat, NEW y \in Nat, y < x PROVE <<y, x>> \in {ss \in Nat \X Nat : ss[1] < ss[2]}
        BY Zenon DEF OpToRel
    <2> QED OBVIOUS
<1> HIDE DEF Less
<1>3. PICK x \in T : \A y \in T : ~ (<<y, x>> \in Less)
    BY Zenon, <1>1
<1>4. x \in Nat /\ \A y \in T : y \in Nat /\ ~ (y < x)
    BY Zenon, <1>2, <1>3
<1>5. \A y \in T : x <= y
    BY <1>4
<1> QED BY Zenon, <1>5

\* A set of numbers with a bound has a greatest one.
LEMMA GreatestNumber ==
    ASSUME NEW T, NEW n \in Nat, T \subseteq 1 .. n, T # {}
    PROVE  \E x \in T : \A y \in T : y <= x
<1> DEFINE Rest == {x \in 0 .. n : n - x \in T}
<1>1. Rest \subseteq Nat
    OBVIOUS
<1>2. Rest # {}
    <2>1. PICK y \in T : y \in 1 .. n
        BY Zenon
    <2>2. n - y \in 0 .. n /\ n - (n - y) = y
        BY <2>1
    <2> QED BY Zenon, <2>1, <2>2
<1>3. PICK x \in Rest : \A y \in Rest : x <= y
    <2> HIDE DEF Rest
    <2> QED BY Zenon, <1>1, <1>2, LeastNumber
<1>4. n - x \in T
    BY Zenon, <1>3
<1>5. ASSUME NEW y \in T PROVE y <= n - x
    <2>1. y \in 1 .. n /\ n - y \in 0 .. n /\ n - (n - y) = y
        OBVIOUS
    <2>2. n - y \in Rest
        BY Zenon, <2>1
    <2>3. x <= n - y /\ x \in 0 .. n
        BY Zenon, <1>3, <2>2
    <2> QED BY <2>1, <2>3
<1> HIDE DEF Rest
<1> QED BY Zenon, <1>4, <1>5

\* The last mount over a path, when there is one.
LEMMA LastOverIs ==
    ASSUME NEW p, NEW f, NEW n \in Nat, DOMAIN f = 1 .. n, NEW j \in 1 .. n, M!IsOrUnder(p, f[j].at)
    PROVE  /\ M!LastOver(p, f) \in 1 .. n /\ M!IsOrUnder(p, f[M!LastOver(p, f)].at)
           /\ \A k \in 1 .. n : M!IsOrUnder(p, f[k].at) => k <= M!LastOver(p, f)
<1> DEFINE over == {i \in 1 .. n : M!IsOrUnder(p, f[i].at)}
<1>1. over \subseteq 1 .. n /\ over # {}
    BY Zenon
<1>2. \E x \in over : \A y \in over : y <= x
    <2> HIDE DEF over
    <2> QED BY Zenon, <1>1, GreatestNumber
<1>3. \E i \in DOMAIN f : M!IsOrUnder(p, f[i].at) /\ \A k \in DOMAIN f : M!IsOrUnder(p, f[k].at) => k <= i
    BY Zenon, <1>2
<1> QED BY Zenon, <1>3 DEF M!LastOver

\* What lies beside the sockets is not under the configuration file among them.
LEMMA Elsewhere ==
    ASSUME NEW d \in Names, NEW e \in Names, e # <<>>, e[1] # "socks"
    PROVE  ~M!IsOrUnder(d \o e, d \o <<"socks", "vm.json">>)
<1> DEFINE file == d \o <<"socks", "vm.json">>
<1>0. <<"socks", "vm.json">> \in Names
    BY Zenon, ShortPaths
<1>1. <<"socks", "vm.json">> \in Names /\ Len(<<"socks", "vm.json">>) = 2 /\ <<"socks", "vm.json">>[1] = "socks"
    BY <1>0
<1>2. d \o e \in Names /\ file \in Names /\ Len(file) = Len(d) + 2 /\ file[Len(d) + 1] = "socks"
    BY <1>1, JoinedPath
<1>3. Len(d) \in Nat /\ Len(e) \in Nat /\ 1 \in 1 .. Len(e)
    BY DEF Names
<1>4. (d \o e)[Len(d) + 1] = e[1]
    BY Zenon, <1>3, JoinedPath
<1>5. Len(d) + 1 \in 1 .. Len(file)
    BY <1>2, <1>3
<1> HIDE DEF file
<1>6. ~M!IsOrUnder(d \o e, file)
    BY Zenon, <1>2, <1>4, <1>5, UnderMeans
<1> QED BY Zenon, <1>6 DEF file

\* The directory of the sockets is not under the configuration file in it.
LEMMA SocksAbove == 
    ASSUME NEW d \in Names
    PROVE  ~M!IsOrUnder(d \o <<"socks">>, d \o <<"socks">> \o <<"vm.json">>)
<1>1. d \o <<"socks">> \in Names /\ <<"vm.json">> \in Names
    BY Zenon, ShortPaths, JoinedPath
<1>2. d \o <<"socks">> \o <<"vm.json">> \in Names /\ Len(d \o <<"socks">> \o <<"vm.json">>) = Len(d \o <<"socks">>) + 1 /\ Len(d \o <<"socks">>) \in Nat
    BY <1>1, JoinedPath DEF Names
<1>3. ~ (Len(d \o <<"socks">> \o <<"vm.json">>) <= Len(d \o <<"socks">>))
    BY <1>2
<1> QED BY Zenon, <1>1, <1>2, <1>3, UnderMeans

\* Two ways to name that file.
LEMMA SameFile ==
    ASSUME NEW d \in Names
    PROVE  d \o <<"socks">> \o <<"vm.json">> = d \o <<"socks", "vm.json">>
BY SMTT(20) DEF Names

\* Where bubblewrap mounts an empty tmpfs.
Shadowed == {<<"/", "tmp">>, <<"/", "dev", "shm">>}

\* What is in a directory of an absolute path that no tmpfs hides is not hidden either.
LEMMA Unshadowed ==
    ASSUME NEW d \in Names, d # <<>>, d[1] = "/", NEW e \in Names, e # <<>>, e[1] \notin {"tmp", "dev", "shm"},
           NEW t \in Shadowed, ~M!IsOrUnder(d, t)
    PROVE  ~M!IsOrUnder(d \o e, t)
<1> SUFFICES ASSUME M!IsOrUnder(d \o e, t) PROVE FALSE
    BY Zenon
<1>1. d \o e \in Names /\ Len(d) \in Nat /\ Len(e) \in Nat /\ Len(d) >= 1 /\ Len(e) >= 1
    BY JoinedPath DEF Names
<1>2. t \in Names
    BY Zenon, ShortPaths DEF Shadowed
<1>3. \A i \in 1 .. Len(t) : (d \o e)[i] = t[i]
    BY Zenon, <1>1, <1>2, UnderMeans
<1>4. (d \o e)[Len(d) + 1] = e[1]
    BY <1>1, JoinedPath
<1>5. Len(t) \in {2, 3} /\ t[1] = "/" /\ \A i \in 2 .. Len(t) : t[i] \in {"tmp", "dev", "shm"}
    BY DEF Shadowed
<1>6. CASE Len(d) < Len(t)
    <2>1. Len(d) + 1 \in 2 .. Len(t) /\ Len(d) + 1 \in 1 .. Len(t)
        BY <1>1, <1>5, <1>6
    <2> QED BY Zenon, <1>3, <1>4, <1>5, <2>1
<1>7. CASE Len(t) <= Len(d)
    <2>1. \A i \in 1 .. Len(t) : i \in 1 .. Len(d)
        BY <1>1, <1>5, <1>7
    <2>2. \A i \in 1 .. Len(t) : d[i] = t[i]
        BY Zenon, <1>3, <2>1, JoinedPath
    <2> QED BY Zenon, <1>2, <1>7, <2>2, UnderMeans
<1>8. Len(d) < Len(t) \/ Len(t) <= Len(d)
    BY <1>1, <1>5
<1> QED BY Zenon, <1>6, <1>7, <1>8

\* The shim's program: under the root and its directory, in no tmpfs.
LEMMA ShimPlace ==
    /\ M!ShimPath \in Names /\ M!IsOrUnder(M!ShimPath, M!Root) /\ M!IsOrUnder(M!ShimPath, M!Parent(M!ShimPath))
    /\ \A t \in Shadowed : ~M!IsOrUnder(M!ShimPath, t)
<1>1. M!ShimPath \in Names /\ M!Root \in Names /\ Len(M!ShimPath) = 5 /\ Len(M!Root) = 1
    <2>1. ASSUME NEW Any, NEW a \in Any, NEW b \in Any, NEW c \in Any, NEW d \in Any, NEW e \in Any
          PROVE  <<a, b, c, d, e>> \in Seq(Any)
        OBVIOUS
    <2>2. M!ShimPath \in Names
        BY Zenon, <2>1 DEF M!ShimPath, Names, Words
    <2>3. Len(M!ShimPath) = 5 /\ Len(M!Root) = 1
        BY DEF M!ShimPath, M!Root
    <2> QED BY Zenon, <2>2, <2>3, ShortPaths DEF M!Root
<1>2. M!ShimPath[1] = "/" /\ M!Root[1] = "/" /\ M!ShimPath[2] = "home"
    BY DEF M!ShimPath, M!Root
<1>3. M!IsOrUnder(M!ShimPath, M!Root)
    <2>1. Len(M!Root) <= Len(M!ShimPath) /\ \A i \in 1 .. Len(M!Root) : M!ShimPath[i] = M!Root[i]
        BY <1>1, <1>2
    <2> QED BY Zenon, <1>1, <2>1, UnderMeans
<1>4. M!IsOrUnder(M!ShimPath, M!Parent(M!ShimPath))
    <2>1. M!Parent(M!ShimPath) = SubSeq(M!ShimPath, 1, 4)
        BY <1>1 DEF M!Parent
    <2>2. SubSeq(M!ShimPath, 1, 4) \in Names /\ Len(SubSeq(M!ShimPath, 1, 4)) = 4 /\ \A i \in 1 .. 4 : SubSeq(M!ShimPath, 1, 4)[i] = M!ShimPath[i]
        <3>1. ASSUME NEW Any, NEW q \in Seq(Any), Len(q) = 5
              PROVE  /\ SubSeq(q, 1, 4) \in Seq(Any) /\ Len(SubSeq(q, 1, 4)) = 4
                     /\ \A i \in 1 .. 4 : SubSeq(q, 1, 4)[i] = q[i]
            BY <3>1
        <3> QED BY Zenon, <1>1, <3>1 DEF Names
    <2>3. Len(M!Parent(M!ShimPath)) <= Len(M!ShimPath) /\ \A i \in 1 .. Len(M!Parent(M!ShimPath)) : M!ShimPath[i] = M!Parent(M!ShimPath)[i]
        BY <1>1, <2>1, <2>2
    <2> QED BY Zenon, <1>1, <2>1, <2>2, <2>3, UnderMeans
<1>5. ASSUME NEW t \in Shadowed PROVE ~M!IsOrUnder(M!ShimPath, t)
    <2>1. t \in Names
        BY Zenon, ShortPaths DEF Shadowed
    <2>2. 2 \in 1 .. Len(t) /\ t[2] # "home"
        BY DEF Shadowed
    <2> QED BY Zenon, <1>1, <1>2, <2>1, <2>2, UnderMeans
<1> QED BY Zenon, <1>1, <1>3, <1>4, <1>5

\* The tags there can be.
Tags == {M!BindTag(i) : i \in Nat} \cup {M!NamedTag(n) : n \in DOMAIN Spelling}

\* The mount points.
Places == {M!MountPoint(g) : g \in GuestPaths}

\* A ResolvedVolume.
Volumes == [source : {"bind", "named"}, name : Words, at : Places, ro : BOOLEAN, dir : Names, tag : Tags]

\* The data directory is absolute, and the mounts are a sequence of volumes.
Shaped ==
    /\ host.data \in Names /\ host.data # <<>> /\ host.data[1] = "/"
    /\ resolved \in Seq(Volumes)

\* The paths of a VM are paths.
LEMMA PathsOfVm ==
    ASSUME Shaped
    PROVE  /\ M!RootPath \in Names /\ M!SocksDir \in Names /\ M!ConfigPath \in Names /\ M!Disk \in Names /\ M!Rootfs \in Names
           /\ \A b \in M!BackingChain : b \in Names
           /\ \A n \in STRING : M!VolumePath(n) \in Names
<1>1. host.data \in Names
    BY Zenon DEF Shaped
<1>2. M!Disk \in Names /\ M!Rootfs \in Names /\ M!SocksDir \in Names
    BY Zenon, <1>1, ShortPaths, JoinedPath DEF M!Disk, M!Rootfs, M!SocksDir
<1>3. \A b \in M!BackingChain : b \in Names
    <2>1. <<"disks", "bases", "b.raw">> \in Names
        BY Zenon, ShortPaths
    <2>2. host.data \o <<"disks", "bases", "b.raw">> \in Names
        BY Zenon, <1>1, <2>1, JoinedPath
    <2> QED BY Zenon, <2>2 DEF M!BackingChain
<1>4. M!ConfigPath \in Names
    <2>1. <<"vm.json">> \in Names
        BY Zenon, ShortPaths
    <2> QED BY Zenon, <1>2, <2>1, JoinedPath DEF M!ConfigPath
<1>5. \A n \in STRING : M!VolumePath(n) \in Names
    <2>1. <<"volumes">> \in Names /\ \A n \in STRING : <<"volumes", n>> \in Names
        BY Zenon, ShortPaths
    <2> QED BY Zenon, <1>1, <2>1, JoinedPath DEF M!VolumePath
<1> QED BY Zenon, <1>2, <1>3, <1>4, <1>5 DEF M!RootPath

\* A mount of bubblewrap.
BwrapEntry(k, p) == [kind |-> k, at |-> p]

\* Bubblewrap's mounts, one position after the other.
InOrder ==
    LET n == Len(resolved) IN
    /\ Len(M!BwrapMounts) = n + 6 /\ DOMAIN M!BwrapMounts = 1 .. n + 6
    /\ M!BwrapMounts[1] = BwrapEntry("ro", M!Root)
    /\ M!BwrapMounts[2] = BwrapEntry("tmpfs", <<"/", "tmp">>) /\ M!BwrapMounts[3] = BwrapEntry("tmpfs", <<"/", "dev", "shm">>)
    /\ M!BwrapMounts[4] = BwrapEntry("rw", M!RootPath) /\ M!BwrapMounts[5] = BwrapEntry("rw", M!SocksDir)
    /\ \A i \in 1 .. n : M!BwrapMounts[i + 5] = BwrapEntry("rw", resolved[i].dir)
    /\ M!BwrapMounts[n + 6] = BwrapEntry("ro", M!ConfigPath)

\* A function on 1 .. n is a sequence.
LEMMA SequenceIs ==
    ASSUME NEW Any, NEW n \in Nat, NEW f \in [1 .. n -> Any]
    PROVE  f \in Seq(Any) /\ Len(f) = n
OBVIOUS

\* The domain and the elements of a sequence.
LEMMA SequenceHas ==
    ASSUME NEW Any, NEW f \in Seq(Any)
    PROVE  Len(f) \in Nat /\ DOMAIN f = 1 .. Len(f) /\ \A i \in 1 .. Len(f) : f[i] \in Any
OBVIOUS

\* One mount of a kind for each path.
IsBinds(r, k, ps) ==
    /\ r \in Seq([kind : {k}, at : Names]) /\ Len(r) = Len(ps)
    /\ \A i \in 1 .. Len(ps) : r[i] = BwrapEntry(k, ps[i])

\* Binds makes one mount of a kind for each path.
LEMMA BindsAre ==
    ASSUME NEW k, NEW ps \in Seq(Names)
    PROVE  IsBinds(M!Binds(k, ps), k, ps)
<1>1. Len(ps) \in Nat /\ DOMAIN ps = 1 .. Len(ps) /\ \A i \in 1 .. Len(ps) : ps[i] \in Names
    BY Zenon, SequenceHas
<1>2. M!Binds(k, ps) = [i \in 1 .. Len(ps) |-> BwrapEntry(k, ps[i])]
    BY Zenon, <1>1 DEF M!Binds, BwrapEntry
<1>3. \A p \in Names : BwrapEntry(k, p) \in [kind : {k}, at : Names]
    BY DEF BwrapEntry
<1>4. M!Binds(k, ps) \in [1 .. Len(ps) -> [kind : {k}, at : Names]]
    BY Zenon, <1>1, <1>2, <1>3
<1> QED BY Zenon, <1>1, <1>2, <1>4, SequenceIs DEF IsBinds

\* The elements of two sequences joined.
IsJoin(r, a, b, Any) ==
    /\ r \in Seq(Any) /\ Len(r) = Len(a) + Len(b)
    /\ \A i \in 1 .. Len(a) : r[i] = a[i]
    /\ \A i \in 1 .. Len(b) : r[i + Len(a)] = b[i]

\* A concatenation joins two sequences.
LEMMA JoinedTwo ==
    ASSUME NEW Any, NEW a \in Seq(Any), NEW b \in Seq(Any)
    PROVE  IsJoin(a \o b, a, b, Any)
BY DEF IsJoin

\* A sequence over a set is one over any larger set.
LEMMA WiderSequence ==
    ASSUME NEW X, NEW Y, X \subseteq Y
    PROVE  Seq(X) \subseteq Seq(Y)
OBVIOUS

\* wrap mounts the root, the tmpfs, what the shim writes to and the configuration, in this
\* order.
LEMMA BwrapList == Shaped => InOrder
<1> SUFFICES ASSUME Shaped PROVE InOrder
    BY Zenon
<1> DEFINE n == Len(resolved)
           AnyEntry == [kind : {"ro", "tmpfs", "rw"}, at : Names]
           a == M!Binds("ro", <<M!Root>>)
           b == M!Binds("tmpfs", <<<<"/", "tmp">>, <<"/", "dev", "shm">>>>)
           top == <<M!RootPath, M!SocksDir>>
           paths == top \o M!VirtiofsPaths
           c == M!Binds("rw", paths)
           f == M!Binds("ro", <<M!ConfigPath>>)
<1>1. n \in Nat /\ DOMAIN resolved = 1 .. n /\ \A i \in 1 .. n : resolved[i].dir \in Names
    <2>1. resolved \in Seq(Volumes)
        BY Zenon DEF Shaped
    <2>2. \A v \in Volumes : v.dir \in Names
        BY DEF Volumes
    <2> QED BY Zenon, <2>1, <2>2, SequenceHas
<1>2. M!VirtiofsPaths \in Seq(Names) /\ Len(M!VirtiofsPaths) = n /\ \A i \in 1 .. n : M!VirtiofsPaths[i] = resolved[i].dir
    <2>1. M!VirtiofsPaths = [i \in 1 .. n |-> resolved[i].dir]
        BY Zenon, <1>1 DEF M!VirtiofsPaths
    <2>2. M!VirtiofsPaths \in [1 .. n -> Names]
        BY Zenon, <1>1, <2>1
    <2> HIDE DEF n
    <2> QED BY Zenon, <1>1, <2>1, <2>2, SequenceIs
<1>3. top \in Seq(Names) /\ Len(top) = 2 /\ top[1] = M!RootPath /\ top[2] = M!SocksDir
    <2>1. M!RootPath \in Names /\ M!SocksDir \in Names
        BY Zenon, PathsOfVm
    <2> QED BY <2>1
<1>4. /\ paths \in Seq(Names) /\ Len(paths) = n + 2
      /\ paths[1] = M!RootPath /\ paths[2] = M!SocksDir
      /\ \A i \in 1 .. n : paths[i + 2] = resolved[i].dir
    <2> HIDE DEF top, n
    <2>0. IsJoin(paths, top, M!VirtiofsPaths, Names)
        BY Zenon, <1>2, <1>3, JoinedTwo
    <2>1. /\ paths \in Seq(Names) /\ Len(paths) = Len(top) + Len(M!VirtiofsPaths)
          /\ \A i \in 1 .. Len(top) : paths[i] = top[i]
          /\ \A i \in 1 .. Len(M!VirtiofsPaths) : paths[i + Len(top)] = M!VirtiofsPaths[i]
        BY Zenon, <2>0 DEF IsJoin
    <2> HIDE DEF paths
    <2>2. Len(paths) = n + 2 /\ 1 \in 1 .. Len(top) /\ 2 \in 1 .. Len(top)
        BY <1>1, <1>2, <1>3, <2>1
    <2> QED BY Zenon, <1>2, <1>3, <2>1, <2>2
<1>5. \A k \in {"ro", "tmpfs", "rw"} : Seq([kind : {k}, at : Names]) \subseteq Seq(AnyEntry)
    <2> SUFFICES ASSUME NEW k \in {"ro", "tmpfs", "rw"} PROVE Seq([kind : {k}, at : Names]) \subseteq Seq(AnyEntry)
        BY Zenon
    <2>1. [kind : {k}, at : Names] \subseteq AnyEntry
        OBVIOUS
    <2> HIDE DEF AnyEntry
    <2> QED BY Zenon, <2>1, WiderSequence
<1>6. a \in Seq(AnyEntry) /\ Len(a) = 1 /\ a[1] = BwrapEntry("ro", M!Root)
    <2>1. <<M!Root>> \in Seq(Names) /\ Len(<<M!Root>>) = 1 /\ <<M!Root>>[1] = M!Root
        BY Zenon, ShortPaths, ShortSequences DEF M!Root
    <2>2. 1 \in 1 .. Len(<<M!Root>>)
        BY <2>1
    <2> HIDE DEF AnyEntry
    <2>3. IsBinds(a, "ro", <<M!Root>>)
        BY Zenon, <2>1, BindsAre
    <2> QED BY Zenon, <1>5, <2>1, <2>2, <2>3 DEF IsBinds
<1>7. b \in Seq(AnyEntry) /\ Len(b) = 2 /\ b[1] = BwrapEntry("tmpfs", <<"/", "tmp">>) /\ b[2] = BwrapEntry("tmpfs", <<"/", "dev", "shm">>)
    <2> DEFINE ps == <<<<"/", "tmp">>, <<"/", "dev", "shm">>>>
    <2>1. ps \in Seq(Names) /\ Len(ps) = 2
        BY Zenon, ShortPaths, ShortSequences
    <2>2. ps[1] = <<"/", "tmp">> /\ ps[2] = <<"/", "dev", "shm">> /\ 1 \in 1 .. 2 /\ 2 \in 1 .. 2
        OBVIOUS
    <2> HIDE DEF AnyEntry, ps
    <2>3. IsBinds(M!Binds("tmpfs", ps), "tmpfs", ps)
        BY Zenon, <2>1, BindsAre
    <2>4. M!Binds("tmpfs", ps) \in Seq(AnyEntry) /\ Len(M!Binds("tmpfs", ps)) = 2
        BY Zenon, <1>5, <2>1, <2>3 DEF IsBinds
    <2>5. M!Binds("tmpfs", ps)[1] = BwrapEntry("tmpfs", ps[1]) /\ M!Binds("tmpfs", ps)[2] = BwrapEntry("tmpfs", ps[2])
        BY Zenon, <2>1, <2>2, <2>3 DEF IsBinds
    <2> QED BY Zenon, <2>2, <2>4, <2>5 DEF ps
<1>8. /\ c \in Seq(AnyEntry) /\ Len(c) = n + 2 /\ c[1] = BwrapEntry("rw", M!RootPath) /\ c[2] = BwrapEntry("rw", M!SocksDir)
      /\ \A i \in 1 .. n : c[i + 2] = BwrapEntry("rw", resolved[i].dir)
    <2>1. 1 \in 1 .. n + 2 /\ 2 \in 1 .. n + 2 /\ \A i \in 1 .. n : i + 2 \in 1 .. n + 2
        BY <1>1
    <2> HIDE DEF AnyEntry, paths, n
    <2>0. IsBinds(c, "rw", paths)
        BY Zenon, <1>4, BindsAre
    <2>2. /\ c \in Seq([kind : {"rw"}, at : Names]) /\ Len(c) = n + 2
          /\ \A i \in 1 .. n + 2 : c[i] = BwrapEntry("rw", paths[i])
        BY Zenon, <1>4, <2>0 DEF IsBinds
    <2>3. c \in Seq(AnyEntry)
        BY Zenon, <1>5, <2>2
    <2> QED BY Zenon, <1>4, <2>1, <2>2, <2>3
<1>9. f \in Seq(AnyEntry) /\ Len(f) = 1 /\ f[1] = BwrapEntry("ro", M!ConfigPath)
    <2>1. <<M!ConfigPath>> \in Seq(Names) /\ Len(<<M!ConfigPath>>) = 1 /\ <<M!ConfigPath>>[1] = M!ConfigPath
        BY Zenon, PathsOfVm, ShortSequences
    <2>2. 1 \in 1 .. Len(<<M!ConfigPath>>)
        BY <2>1
    <2> HIDE DEF AnyEntry
    <2>3. IsBinds(f, "ro", <<M!ConfigPath>>)
        BY Zenon, <2>1, BindsAre
    <2> QED BY Zenon, <1>5, <2>1, <2>2, <2>3 DEF IsBinds
<1> DEFINE ab == a \o b
           abc == ab \o c
           abcf == abc \o f
<1>10. M!BwrapMounts = abcf
    BY Zenon DEF M!BwrapMounts
<1> HIDE DEF a, b, c, f, AnyEntry, n, top, paths
<1>11. ab \in Seq(AnyEntry) /\ Len(ab) = 3 /\ ab[1] = a[1] /\ ab[2] = b[1] /\ ab[3] = b[2]
    <2>0. IsJoin(ab, a, b, AnyEntry)
        BY Zenon, <1>6, <1>7, JoinedTwo
    <2>1. /\ ab \in Seq(AnyEntry) /\ Len(ab) = Len(a) + Len(b)
          /\ \A i \in 1 .. Len(a) : ab[i] = a[i]
          /\ \A i \in 1 .. Len(b) : ab[i + Len(a)] = b[i]
        BY Zenon, <2>0 DEF IsJoin
    <2> HIDE DEF ab
    <2> QED BY <1>6, <1>7, <2>1
<1> HIDE DEF ab
<1>12. /\ abc \in Seq(AnyEntry) /\ Len(abc) = n + 5
       /\ \A i \in 1 .. 3 : abc[i] = ab[i]
       /\ \A i \in 1 .. n + 2 : abc[i + 3] = c[i]
    <2>0. IsJoin(abc, ab, c, AnyEntry)
        BY Zenon, <1>8, <1>11, JoinedTwo
    <2>1. /\ abc \in Seq(AnyEntry) /\ Len(abc) = Len(ab) + Len(c)
          /\ \A i \in 1 .. Len(ab) : abc[i] = ab[i]
          /\ \A i \in 1 .. Len(c) : abc[i + Len(ab)] = c[i]
        BY Zenon, <2>0 DEF IsJoin
    <2> HIDE DEF abc
    <2>2. Len(abc) = n + 5
        <3>1. n \in Nat /\ Len(ab) = 3 /\ Len(c) = n + 2 /\ Len(abc) = Len(ab) + Len(c)
            BY Zenon, <1>1, <1>8, <1>11, <2>1
        <3> QED BY <3>1
    <2> QED BY Zenon, <1>8, <1>11, <2>1, <2>2
<1> HIDE DEF abc
<1>13. /\ abcf \in Seq(AnyEntry) /\ Len(abcf) = n + 6
       /\ \A i \in 1 .. n + 5 : abcf[i] = abc[i]
       /\ abcf[n + 6] = f[1]
    <2>0. IsJoin(abcf, abc, f, AnyEntry)
        BY Zenon, <1>9, <1>12, JoinedTwo
    <2>1. /\ abcf \in Seq(AnyEntry) /\ Len(abcf) = Len(abc) + Len(f)
          /\ \A i \in 1 .. Len(abc) : abcf[i] = abc[i]
          /\ \A i \in 1 .. Len(f) : abcf[i + Len(abc)] = f[i]
        BY Zenon, <2>0 DEF IsJoin
    <2> HIDE DEF abcf
    <2>2. Len(abcf) = n + 6 /\ 1 \in 1 .. Len(f) /\ 1 + Len(abc) = n + 6
        <3>1. n \in Nat /\ Len(abc) = n + 5 /\ Len(f) = 1 /\ Len(abcf) = Len(abc) + Len(f)
            BY Zenon, <1>1, <1>9, <1>12, <2>1
        <3> QED BY <3>1
    <2> QED BY Zenon, <1>12, <2>1, <2>2
<1> HIDE DEF abcf
<1>14. DOMAIN abcf = 1 .. n + 6
    BY Zenon, <1>13, SequenceHas
<1>15. abcf[1] = a[1] /\ abcf[2] = b[1] /\ abcf[3] = b[2] /\ abcf[4] = c[1] /\ abcf[5] = c[2]
    <2>1. /\ 1 \in 1 .. n + 5 /\ 2 \in 1 .. n + 5 /\ 3 \in 1 .. n + 5 /\ 4 \in 1 .. n + 5 /\ 5 \in 1 .. n + 5
          /\ 1 \in 1 .. n + 2 /\ 2 \in 1 .. n + 2 /\ 1 + 3 = 4 /\ 2 + 3 = 5
        BY <1>1
    <2>2. abc[1] = ab[1] /\ abc[2] = ab[2] /\ abc[3] = ab[3]
        BY <1>12
    <2>3. abc[4] = c[1] /\ abc[5] = c[2]
        BY Zenon, <1>12, <2>1
    <2> QED BY Zenon, <1>11, <1>13, <2>1, <2>2, <2>3
<1>16. \A i \in 1 .. n : abcf[i + 5] = c[i + 2]
    <2> SUFFICES ASSUME NEW i \in 1 .. n PROVE abcf[i + 5] = c[i + 2]
        BY Zenon
    <2>1. i + 5 \in 1 .. n + 5 /\ i + 2 \in 1 .. n + 2 /\ (i + 2) + 3 = i + 5
        BY <1>1
    <2> QED BY Zenon, <1>12, <1>13, <2>1
<1> QED BY Zenon, <1>6, <1>7, <1>8, <1>9, <1>10, <1>13, <1>14, <1>15, <1>16 DEF InOrder, n

\* The last mount over a path decides.
LEMMA BwrapDecides ==
    ASSUME Shaped, NEW p, NEW j \in 1 .. Len(resolved) + 6, M!IsOrUnder(p, M!BwrapMounts[j].at)
    PROVE  \E k \in 1 .. Len(resolved) + 6 :
             /\ k >= j /\ M!IsOrUnder(p, M!BwrapMounts[k].at)
             /\ M!BwrapGrants(p, TRUE) <=> M!BwrapMounts[k].kind \in {"rw"}
             /\ M!BwrapGrants(p, FALSE) <=> M!BwrapMounts[k].kind \in {"ro", "rw"}
<1> DEFINE n == Len(resolved) + 6
           k == M!LastOver(p, M!BwrapMounts)
<1>1. n \in Nat
    BY DEF Shaped
<1>2. DOMAIN M!BwrapMounts = 1 .. n
    BY Zenon, BwrapList DEF InOrder
<1>3. k \in 1 .. n /\ M!IsOrUnder(p, M!BwrapMounts[k].at) /\ \A i \in 1 .. n : M!IsOrUnder(p, M!BwrapMounts[i].at) => i <= k
    BY Zenon, <1>1, <1>2, LastOverIs
<1>4. k >= j
    <2>1. j <= k
        BY Zenon, <1>3
    <2> HIDE DEF k, n
    <2> QED BY <1>1, <1>3, <2>1
<1>5. M!BwrapGrants(p, TRUE) <=> M!BwrapMounts[k].kind \in {"rw"}
    BY Zenon DEF M!BwrapGrants
<1>6. M!BwrapGrants(p, FALSE) <=> M!BwrapMounts[k].kind \in {"ro", "rw"}
    BY Zenon DEF M!BwrapGrants
<1> QED BY Zenon, <1>3, <1>4, <1>5, <1>6

\* A path under a mount the shim may write to, and not under its configuration, may be written.
LEMMA BwrapWrites ==
    ASSUME Shaped, NEW p, NEW j \in 4 .. Len(resolved) + 5, M!IsOrUnder(p, M!BwrapMounts[j].at), ~M!IsOrUnder(p, M!ConfigPath)
    PROVE  M!BwrapGrants(p, TRUE) /\ M!BwrapGrants(p, FALSE)
<1> DEFINE n == Len(resolved)
<1>1. n \in Nat
    BY Zenon, SequenceHas DEF Shaped
<1>2. InOrder
    BY Zenon, BwrapList
<1>3. j \in 1 .. n + 6
    BY <1>1
<1>4. PICK k \in 1 .. n + 6 :
             /\ k >= j /\ M!IsOrUnder(p, M!BwrapMounts[k].at)
             /\ M!BwrapGrants(p, TRUE) <=> M!BwrapMounts[k].kind \in {"rw"}
             /\ M!BwrapGrants(p, FALSE) <=> M!BwrapMounts[k].kind \in {"ro", "rw"}
    BY Zenon, <1>3, BwrapDecides
<1>5. k = n + 6 => M!BwrapMounts[k].at = M!ConfigPath
    BY <1>2 DEF InOrder, BwrapEntry
<1>6. k # n + 6
    BY Zenon, <1>4, <1>5
<1>7. k = 4 \/ k = 5 \/ (k - 5 \in 1 .. n /\ (k - 5) + 5 = k)
    BY <1>1, <1>4, <1>6
<1>8. M!BwrapMounts[k].kind = "rw"
    <2>1. \E q : M!BwrapMounts[k] = BwrapEntry("rw", q)
        BY Zenon, <1>2, <1>7 DEF InOrder
    <2> QED BY <2>1 DEF BwrapEntry
<1> QED BY Zenon, <1>4, <1>8

\* A path under some mount and in no tmpfs may be read.
LEMMA BwrapReads ==
    ASSUME Shaped, NEW p, M!IsOrUnder(p, M!Root), \A t \in Shadowed : ~M!IsOrUnder(p, t)
    PROVE  M!BwrapGrants(p, FALSE)
<1> DEFINE n == Len(resolved)
<1>1. n \in Nat
    BY Zenon, SequenceHas DEF Shaped
<1>2. InOrder
    BY Zenon, BwrapList
<1>3. 1 \in 1 .. n + 6 /\ M!IsOrUnder(p, M!BwrapMounts[1].at)
    <2>1. M!BwrapMounts[1].at = M!Root
        BY <1>2 DEF InOrder, BwrapEntry
    <2>2. 1 \in 1 .. n + 6
        BY <1>1
    <2> QED BY Zenon, <2>1, <2>2
<1>4. PICK k \in 1 .. n + 6 :
             /\ M!IsOrUnder(p, M!BwrapMounts[k].at)
             /\ M!BwrapGrants(p, FALSE) <=> M!BwrapMounts[k].kind \in {"ro", "rw"}
    BY Zenon, <1>3, BwrapDecides
<1>5. k # 2 /\ k # 3
    <2>1. M!BwrapMounts[2].at \in Shadowed /\ M!BwrapMounts[3].at \in Shadowed
        BY <1>2 DEF InOrder, BwrapEntry, Shadowed
    <2> QED BY Zenon, <1>4, <2>1
<1>6. k = 1 \/ k = 4 \/ k = 5 \/ (k - 5 \in 1 .. n /\ (k - 5) + 5 = k) \/ k = n + 6
    BY <1>1, <1>4, <1>5
<1>7. M!BwrapMounts[k].kind \in {"ro", "rw"}
    <2>1. \E q : M!BwrapMounts[k] = BwrapEntry("rw", q) \/ M!BwrapMounts[k] = BwrapEntry("ro", q)
        BY Zenon, <1>2, <1>6 DEF InOrder
    <2> QED BY <2>1 DEF BwrapEntry
<1> QED BY Zenon, <1>4, <1>7

\* The configuration is mounted last.
LEMMA BwrapReadsConfig ==
    ASSUME Shaped
    PROVE  M!BwrapGrants(M!ConfigPath, FALSE)
<1> DEFINE n == Len(resolved)
<1>1. n \in Nat
    BY Zenon, SequenceHas DEF Shaped
<1>2. InOrder
    BY Zenon, BwrapList
<1>3. M!BwrapMounts[n + 6].at = M!ConfigPath /\ M!BwrapMounts[n + 6].kind = "ro"
    BY <1>2 DEF InOrder, BwrapEntry
<1>4. n + 6 \in 1 .. n + 6
    BY <1>1
<1>5. PICK k \in 1 .. n + 6 :
             k >= n + 6 /\ (M!BwrapGrants(M!ConfigPath, FALSE) <=> M!BwrapMounts[k].kind \in {"ro", "rw"})
    BY Zenon, <1>3, <1>4, Itself, BwrapDecides
<1>6. k = n + 6
    BY <1>1, <1>5
<1> QED BY Zenon, <1>3, <1>5, <1>6

\* Mount i has the tag of its position or of its volume, the directory of its volume, and is not
\* under the configuration file.
Fits(i) ==
    /\ resolved[i].source = "bind" => resolved[i].tag = M!BindTag(i - 1)
    /\ resolved[i].source = "named" =>
         resolved[i].tag = M!NamedTag(resolved[i].name) /\ resolved[i].dir = M!VolumePath(resolved[i].name)
    /\ ~M!IsOrUnder(resolved[i].dir, M!ConfigPath)

\* What the agent mounted for mount i: a directory of the same tag.
Given(i) ==
    /\ guestfs[i].at = resolved[i].at
    /\ \E k \in DOMAIN resolved :
         resolved[k].tag = resolved[i].tag /\ guestfs[i].dir = resolved[k].dir /\ guestfs[i].ro = resolved[k].ro

\* A virtio-fs device.
Devices == [tag : Tags, dir : Names, ro : BOOLEAN]

\* A mount of the agent.
GuestMounts == [at : Places, dir : Names, ro : BOOLEAN]

\* The devices are those of the first mounts, and so are the agent's mounts.
Followed ==
    /\ devices \in Seq(Devices) /\ Len(devices) <= Len(resolved)
    /\ \A i \in DOMAIN devices :
         devices[i].tag = resolved[i].tag /\ devices[i].dir = resolved[i].dir /\ devices[i].ro = resolved[i].ro
    /\ guestfs \in Seq(GuestMounts) /\ Len(guestfs) <= Len(resolved)
    /\ \A i \in DOMAIN guestfs : Given(i)

\* Every named volume of the VM is in vm_volumes.
Attached == \A i \in DOMAIN resolved : resolved[i].source = "named" => resolved[i].name \in DOMAIN attached

\* The inductive invariant: each mount has the tag and directory of its request and lies apart from
\* the configuration, the devices and the agent's mounts follow the resolved ones in order, and a shim
\* is refused only when bubblewrap hides the data directory.
MInv ==
    /\ Shaped /\ (\A i \in DOMAIN resolved : Fits(i)) /\ Followed
    /\ vmstate # "none" => host.data \in DataRoots
    /\ vmstate = "none" => resolved = <<>>
    /\ vmstate \in {"none", "resolving"} => shim = "none"
    /\ shim = "serving" => Len(guestfs) = Len(resolved)
    /\ shim = "refused" => M!ShutOut
    /\ vmstate = "running" => Attached

\* The configuration file of a VM, and what is not under it.
LEMMA BesideConfig ==
    ASSUME host.data \in Names
    PROVE  /\ M!ConfigPath = host.data \o <<"socks", "vm.json">>
           /\ ~M!IsOrUnder(M!RootPath, M!ConfigPath) /\ ~M!IsOrUnder(M!SocksDir, M!ConfigPath)
           /\ \A n \in STRING : ~M!IsOrUnder(M!VolumePath(n), M!ConfigPath)
<1>1. M!ConfigPath = host.data \o <<"socks", "vm.json">>
    BY Zenon, SameFile DEF M!ConfigPath, M!SocksDir
<1>2. ~M!IsOrUnder(M!SocksDir, M!ConfigPath)
    BY Zenon, SocksAbove DEF M!ConfigPath, M!SocksDir
<1>3. <<"disks", "vms", "vm.qcow2">> \in Names /\ <<"rootfs">> \in Names /\ <<"volumes">> \in Names
      /\ \A n \in STRING : <<"volumes", n>> \in Names
    BY Zenon, ShortPaths
<1>4. /\ <<"disks", "vms", "vm.qcow2">> # <<>> /\ <<"disks", "vms", "vm.qcow2">>[1] # "socks"
      /\ <<"rootfs">> # <<>> /\ <<"rootfs">>[1] # "socks" /\ <<"volumes">> # <<>> /\ <<"volumes">>[1] # "socks"
      /\ \A n \in STRING : <<"volumes", n>> # <<>> /\ <<"volumes", n>>[1] # "socks"
    OBVIOUS
<1>5. ~M!IsOrUnder(M!Disk, M!ConfigPath)
    BY Zenon, <1>1, <1>3, <1>4, Elsewhere DEF M!Disk
<1>6. ~M!IsOrUnder(M!Rootfs, M!ConfigPath)
    BY Zenon, <1>1, <1>3, <1>4, Elsewhere DEF M!Rootfs
<1>7. \A n \in STRING : ~M!IsOrUnder(M!VolumePath(n), M!ConfigPath)
    <2>1. ~M!IsOrUnder(host.data \o <<"volumes">>, M!ConfigPath)
        BY Zenon, <1>1, <1>3, <1>4, Elsewhere
    <2>2. \A n \in STRING : ~M!IsOrUnder(host.data \o <<"volumes", n>>, M!ConfigPath)
        BY Zenon, <1>1, <1>3, <1>4, Elsewhere
    <2> QED BY Zenon, <2>1, <2>2 DEF M!VolumePath
<1> QED BY Zenon, <1>1, <1>2, <1>5, <1>6, <1>7 DEF M!RootPath

\* Landlock lets the shim reach what its configuration names.
LEMMA LandlockReaches ==
    /\ M!LandlockGrants(M!ShimPath, FALSE) /\ M!LandlockGrants(M!ConfigPath, FALSE)
    /\ M!LandlockGrants(M!RootPath, TRUE) /\ M!LandlockGrants(M!SocksDir, TRUE)
    /\ \A b \in M!BackingChain : M!LandlockGrants(b, FALSE)
    /\ \A i \in DOMAIN resolved : M!LandlockGrants(resolved[i].dir, TRUE) /\ M!LandlockGrants(resolved[i].dir, FALSE)
<1>1. M!ShimPath \in M!LandlockRead /\ M!ConfigPath \in M!LandlockRead /\ \A b \in M!BackingChain : b \in M!LandlockRead
    BY Zenon DEF M!LandlockRead, M!WithParents, M!ReadonlyPaths
<1>2. M!RootPath \in M!LandlockWrite /\ M!SocksDir \in M!LandlockWrite
    BY Zenon DEF M!LandlockWrite, M!RootPath, M!WithParents
<1>3. \A i \in DOMAIN resolved : resolved[i].dir \in M!LandlockWrite
    BY Zenon DEF M!LandlockWrite, M!VirtiofsPaths, M!Range
<1> QED BY Zenon, <1>1, <1>2, <1>3, Itself DEF M!LandlockGrants

\* Seatbelt lets the shim reach it too.
LEMMA SeatbeltReaches ==
    /\ M!SeatbeltGrants(M!ShimPath, FALSE) /\ M!SeatbeltGrants(M!ConfigPath, FALSE)
    /\ M!SeatbeltGrants(M!RootPath, TRUE) /\ M!SeatbeltGrants(M!SocksDir, TRUE)
    /\ \A b \in M!BackingChain : M!SeatbeltGrants(b, FALSE)
    /\ \A i \in DOMAIN resolved : M!SeatbeltGrants(resolved[i].dir, TRUE) /\ M!SeatbeltGrants(resolved[i].dir, FALSE)
<1>1. M!Parent(M!ShimPath) \in M!SeatbeltRead /\ M!ConfigPath \in M!SeatbeltRead /\ \A b \in M!BackingChain : b \in M!SeatbeltRead
    BY Zenon DEF M!SeatbeltRead, M!ReadonlyPaths
<1>2. M!RootPath \in M!SeatbeltWrite /\ M!SocksDir \in M!SeatbeltWrite
    BY Zenon DEF M!SeatbeltWrite
<1>3. \A i \in DOMAIN resolved : resolved[i].dir \in M!SeatbeltWrite
    BY Zenon DEF M!SeatbeltWrite, M!VirtiofsPaths, M!Range
<1> QED BY Zenon, <1>1, <1>2, <1>3, Itself, ShimPlace DEF M!SeatbeltGrants

\* So does bubblewrap, unless a tmpfs hides the data directory and with it the backing chain.
LEMMA BwrapReaches ==
    ASSUME Shaped, \A i \in DOMAIN resolved : Fits(i)
    PROVE  /\ M!BwrapGrants(M!ShimPath, FALSE) /\ M!BwrapGrants(M!ConfigPath, FALSE)
           /\ M!BwrapGrants(M!RootPath, TRUE) /\ M!BwrapGrants(M!SocksDir, TRUE)
           /\ (\A t \in Shadowed : ~M!IsOrUnder(host.data, t)) => \A b \in M!BackingChain : M!BwrapGrants(b, FALSE)
           /\ \A i \in DOMAIN resolved : M!BwrapGrants(resolved[i].dir, TRUE) /\ M!BwrapGrants(resolved[i].dir, FALSE)
<1> DEFINE n == Len(resolved)
<1>1. n \in Nat /\ DOMAIN resolved = 1 .. n
    BY Zenon, SequenceHas DEF Shaped
<1>2. InOrder /\ host.data \in Names
    BY Zenon, BwrapList DEF Shaped
<1>3. M!BwrapGrants(M!ShimPath, FALSE) /\ M!BwrapGrants(M!ConfigPath, FALSE)
    BY Zenon, BwrapReads, BwrapReadsConfig, ShimPlace
<1>4. M!BwrapGrants(M!RootPath, TRUE) /\ M!BwrapGrants(M!SocksDir, TRUE)
    <2>1. M!BwrapMounts[4].at = M!RootPath /\ M!BwrapMounts[5].at = M!SocksDir
        BY <1>2 DEF InOrder, BwrapEntry
    <2>2. 4 \in 4 .. n + 5 /\ 5 \in 4 .. n + 5
        BY <1>1
    <2>3. ~M!IsOrUnder(M!RootPath, M!ConfigPath) /\ ~M!IsOrUnder(M!SocksDir, M!ConfigPath)
        BY Zenon, <1>2, BesideConfig
    <2>4. M!IsOrUnder(M!RootPath, M!BwrapMounts[4].at) /\ M!IsOrUnder(M!SocksDir, M!BwrapMounts[5].at)
        BY Zenon, <2>1, Itself
    <2>5. M!BwrapGrants(M!RootPath, TRUE)
        BY Zenon, <2>2, <2>3, <2>4, BwrapWrites
    <2>6. M!BwrapGrants(M!SocksDir, TRUE)
        BY Zenon, <2>2, <2>3, <2>4, BwrapWrites
    <2> QED BY Zenon, <2>5, <2>6
<1>5. ASSUME NEW i \in DOMAIN resolved PROVE M!BwrapGrants(resolved[i].dir, TRUE) /\ M!BwrapGrants(resolved[i].dir, FALSE)
    <2>1. i \in 1 .. n /\ i + 5 \in 4 .. n + 5
        BY <1>1, <1>5
    <2>2. M!BwrapMounts[i + 5] = BwrapEntry("rw", resolved[i].dir)
        BY Zenon, <1>2, <2>1 DEF InOrder
    <2>3. M!BwrapMounts[i + 5].at = resolved[i].dir
        BY <2>2 DEF BwrapEntry
    <2>4. ~M!IsOrUnder(resolved[i].dir, M!ConfigPath)
        BY Zenon, <1>5 DEF Fits
    <2> QED BY Zenon, <2>1, <2>3, <2>4, Itself, BwrapWrites
<1>6. ASSUME \A t \in Shadowed : ~M!IsOrUnder(host.data, t), NEW b \in M!BackingChain PROVE M!BwrapGrants(b, FALSE)
    <2> DEFINE e == <<"disks", "bases", "b.raw">>
    <2>1. b = host.data \o e
        BY Zenon, <1>6 DEF M!BackingChain
    <2>2. e \in Names
        BY Zenon, ShortPaths
    <2>3. e # <<>> /\ e[1] \notin {"tmp", "dev", "shm"}
        OBVIOUS
    <2>4. host.data # <<>> /\ host.data[1] = "/"
        BY Zenon DEF Shaped
    <2> HIDE DEF e
    <2>5. \A t \in Shadowed : ~M!IsOrUnder(b, t)
        BY Zenon, <1>2, <1>6, <2>1, <2>2, <2>3, <2>4, Unshadowed
    <2>6. M!IsOrUnder(b, M!Root)
        <3>1. host.data \o e \in Names /\ Len(host.data) \in Nat /\ Len(e) \in Nat /\ Len(host.data) >= 1
              /\ Len(host.data \o e) = Len(host.data) + Len(e) /\ \A i \in 1 .. Len(host.data) : (host.data \o e)[i] = host.data[i]
            BY <1>2, <2>2, <2>4, JoinedPath DEF Names
        <3>2. M!Root \in Names
            BY Zenon, ShortPaths DEF M!Root
        <3>3. Len(M!Root) = 1 /\ M!Root[1] = "/"
            BY DEF M!Root
        <3>4. Len(M!Root) <= Len(b) /\ \A i \in 1 .. Len(M!Root) : b[i] = M!Root[i]
            BY <2>1, <2>4, <3>1, <3>3
        <3> QED BY Zenon, <2>1, <3>1, <3>2, <3>4, UnderMeans
    <2> QED BY Zenon, <2>5, <2>6, BwrapReads
<1> QED BY Zenon, <1>3, <1>4, <1>5, <1>6

\* No jail keeps the shim from what its configuration names.
LEMMA JailReaches ==
    ASSUME Shaped, \A i \in DOMAIN resolved : Fits(i), ~M!ShutOut
    PROVE  /\ M!Grants(M!ShimPath, FALSE) /\ M!Grants(M!ConfigPath, FALSE) /\ M!Grants(M!RootPath, TRUE) /\ M!Grants(M!SocksDir, TRUE)
           /\ \A b \in M!BackingChain : M!Grants(b, FALSE)
           /\ \A i \in DOMAIN resolved : M!Grants(resolved[i].dir, TRUE) /\ M!Grants(resolved[i].dir, FALSE)
<1>1. host.jail.sandbox = "bwrap" => \A t \in Shadowed : ~M!IsOrUnder(host.data, t)
    BY Zenon DEF M!ShutOut, M!Hidden, Shadowed
<1> QED BY Zenon, <1>1, LandlockReaches, SeatbeltReaches, BwrapReaches DEF M!Grants

\* Steps that leave the host and the resolved mounts as they are.
LEMMA HostKept ==
    ASSUME Shaped, \A i \in DOMAIN resolved : Fits(i), host' = host, resolved' = resolved
    PROVE  Shaped' /\ (\A i \in DOMAIN resolved' : Fits(i)') /\ (M!ShutOut' <=> M!ShutOut)
<1>1. Shaped'
    BY Zenon DEF Shaped
<1>2. M!ShutOut' <=> M!ShutOut
    BY Zenon DEF M!ShutOut, M!Hidden, M!Stacked
<1>3. M!ConfigPath' = M!ConfigPath /\ \A n : M!VolumePath(n)' = M!VolumePath(n)
    BY Zenon DEF M!ConfigPath, M!SocksDir, M!VolumePath
<1>4. ASSUME NEW i \in DOMAIN resolved PROVE Fits(i)'
    BY Zenon, <1>3, <1>4 DEF Fits
<1> QED BY Zenon, <1>1, <1>2, <1>4

\* What the agent mounted stays what it was given.
LEMMA GivenKept ==
    ASSUME NEW i, Given(i), guestfs'[i] = guestfs[i], resolved' = resolved
    PROVE  Given(i)'
BY Zenon DEF Given

\* A VM is asked for: the data directory and the jail are fixed.
LEMMA MRequestStep == MInv /\ M!Request => MInv'
<1> SUFFICES ASSUME MInv, M!Request PROVE MInv'
    BY Zenon
<1>1. resolved = <<>> /\ resolved' = <<>> /\ shim = "none" /\ shim' = "none" /\ vmstate' = "resolving"
      /\ devices' = devices /\ guestfs' = guestfs /\ Followed
    BY Zenon DEF MInv, M!Request
<1>2. PICK d \in DataRoots, r \in {"disk", "dir"}, j \in M!Jails : host' = [data |-> d, root |-> r, jail |-> j]
    BY Zenon DEF M!Request
<1>3. host'.data = d
    BY <1>2
<1>4. d \in Names /\ d # <<>> /\ d[1] = "/"
    BY Zenon, <1>2, MountsAssumption, StringsAreWords
<1>5. Shaped'
    <2>1. <<>> \in Seq(Volumes)
        OBVIOUS
    <2> QED BY Zenon, <1>1, <1>3, <1>4, <2>1 DEF Shaped
<1>6. \A i \in DOMAIN resolved' : Fits(i)'
    <2>1. DOMAIN <<>> = {}
        OBVIOUS
    <2> QED BY Zenon, <1>1, <2>1
<1>7. Followed'
    BY Zenon, <1>1, GivenKept DEF Followed, Given
<1>8. vmstate' # "none" /\ shim' \notin {"serving", "refused"} /\ vmstate' # "running"
    BY <1>1
<1> QED BY Zenon, <1>1, <1>2, <1>3, <1>5, <1>6, <1>7, <1>8 DEF MInv

\* A request that is accepted.
LEMMA ResolvedFits ==
    ASSUME Shaped, host.data \in DataRoots, NEW m \in M!Requests, M!Acceptable(m), NEW idx \in Nat
    PROVE  /\ M!ResolveOne(idx, m) \in Volumes
           /\ M!ResolveOne(idx, m).source = "bind" => M!ResolveOne(idx, m).tag = M!BindTag(idx)
           /\ M!ResolveOne(idx, m).source = "named" =>
                /\ M!ResolveOne(idx, m).tag = M!NamedTag(M!ResolveOne(idx, m).name)
                /\ M!ResolveOne(idx, m).dir = M!VolumePath(M!ResolveOne(idx, m).name)
           /\ ~M!IsOrUnder(M!ResolveOne(idx, m).dir, M!ConfigPath)
<1> DEFINE v == M!ResolveOne(idx, m)
<1>1. /\ v.source = m.source /\ v.name = (IF m.source = "named" THEN m.path ELSE "")
      /\ v.at = M!MountPoint(m.at) /\ v.ro = M!ReadOnlyOpts(m.opts)
      /\ v.dir = (IF m.source = "bind" THEN HostTree[m.path] ELSE M!VolumePath(m.path))
      /\ v.tag = (IF m.source = "bind" THEN M!BindTag(idx) ELSE M!NamedTag(m.path))
    BY DEF M!ResolveOne
<1>2. /\ m.at \in GuestPaths
      /\ m.source = "bind" \/ (m.source = "named" /\ m.path \in DOMAIN Spelling)
    BY Zenon DEF M!Requests
<1>3. host.data \in Names
    BY Zenon DEF Shaped
<1> DEFINE Good ==
        /\ v.source \in {"bind", "named"} /\ v.name \in Words /\ v.tag \in Tags /\ v.dir \in Names
        /\ v.source = "bind" => v.tag = M!BindTag(idx)
        /\ v.source = "named" => v.tag = M!NamedTag(v.name) /\ v.dir = M!VolumePath(v.name)
        /\ ~M!IsOrUnder(v.dir, M!ConfigPath)
<1>4. ASSUME m.source = "bind" PROVE Good
    <2>1. m.path \in DOMAIN HostTree
        BY Zenon, <1>4 DEF M!Acceptable, M!ValidBindPath
    <2>2. v.name = "" /\ v.source = "bind" /\ v.tag = M!BindTag(idx) /\ v.dir = HostTree[m.path] /\ v.source # "named"
        BY <1>1, <1>4
    <2> HIDE DEF v
    <2>3. v.dir \in Names /\ ~M!IsOrUnder(v.dir, M!ConfigPath)
        BY Zenon, <1>3, <2>1, <2>2, MountsAssumption, StringsAreWords, BesideConfig
    <2>4. v.name \in Words /\ v.tag \in Tags
        BY Zenon, <2>2 DEF Words, Tags
    <2> QED BY Zenon, <2>2, <2>3, <2>4
<1>5. ASSUME m.source = "named" PROVE Good
    <2>1. m.path \in DOMAIN Spelling /\ m.path \in STRING
        BY <1>2, <1>5, MountsAssumption
    <2>2. v.dir = M!VolumePath(m.path) /\ v.name = m.path /\ v.tag = M!NamedTag(m.path) /\ v.source = "named" /\ v.source # "bind"
        BY <1>1, <1>5
    <2> HIDE DEF v
    <2>3. v.dir \in Names /\ ~M!IsOrUnder(v.dir, M!ConfigPath)
        BY Zenon, <1>3, <2>1, <2>2, PathsOfVm, BesideConfig
    <2>4. v.name \in Words /\ v.tag \in Tags
        BY Zenon, <2>1, <2>2 DEF Words, Tags
    <2> QED BY Zenon, <2>2, <2>3, <2>4
<1>6. Good
    BY Zenon, <1>2, <1>4, <1>5
<1>7. v.at \in Places /\ v.ro \in BOOLEAN
    BY Zenon, <1>1, <1>2 DEF Places, M!ReadOnlyOpts
<1>8. v = [source |-> v.source, name |-> v.name, at |-> v.at, ro |-> v.ro, dir |-> v.dir, tag |-> v.tag]
    BY DEF M!ResolveOne
<1> HIDE DEF v
<1>9. v \in Volumes
    BY <1>6, <1>7, <1>8 DEF Volumes
<1> QED BY Zenon, <1>6, <1>9 DEF v

\* The elements of a sequence with one more.
IsAppended(r, f, x, Any) ==
    /\ r \in Seq(Any) /\ Len(r) = Len(f) + 1 /\ Len(f) \in Nat
    /\ DOMAIN r = DOMAIN f \cup {Len(f) + 1} /\ Len(f) + 1 \notin DOMAIN f
    /\ \A i \in DOMAIN f : r[i] = f[i]
    /\ r[Len(f) + 1] = x

\* Append adds one element.
LEMMA Appended ==
    ASSUME NEW Any, NEW f \in Seq(Any), NEW x \in Any
    PROVE  IsAppended(Append(f, x), f, x, Any)
<1>1. /\ Append(f, x) \in Seq(Any) /\ Len(Append(f, x)) = Len(f) + 1 /\ Len(f) \in Nat
      /\ DOMAIN f = 1 .. Len(f) /\ DOMAIN Append(f, x) = 1 .. Len(f) + 1
    OBVIOUS
<1>2. DOMAIN Append(f, x) = DOMAIN f \cup {Len(f) + 1} /\ Len(f) + 1 \notin DOMAIN f
    BY <1>1
<1>3. (\A i \in DOMAIN f : Append(f, x)[i] = f[i]) /\ Append(f, x)[Len(f) + 1] = x
    OBVIOUS
<1> QED BY Zenon, <1>1, <1>2, <1>3 DEF IsAppended

\* resolve_mounts takes one more mount, or refuses the request.
LEMMA MResolveStep == MInv /\ M!Resolve => MInv'
<1> SUFFICES ASSUME MInv, M!Resolve PROVE MInv'
    BY Zenon
<1>1. vmstate = "resolving" /\ shim = "none" /\ host' = host /\ shim' = shim /\ devices' = devices /\ guestfs' = guestfs
      /\ attached' = attached /\ host.data \in DataRoots /\ Shaped /\ Followed /\ \A i \in DOMAIN resolved : Fits(i)
    <2>1. vmstate = "resolving" /\ vmstate # "none"
        BY DEF M!Resolve
    <2> QED BY Zenon, <2>1 DEF MInv, M!Resolve
<1>2. PICK m \in M!Requests :
        \/ M!Acceptable(m) /\ resolved' = Append(resolved, M!ResolveOne(Len(resolved), m)) /\ vmstate' = vmstate
        \/ vmstate' = "failed" /\ resolved' = resolved
    BY Zenon DEF M!Resolve
<1>3. CASE M!Acceptable(m) /\ resolved' = Append(resolved, M!ResolveOne(Len(resolved), m)) /\ vmstate' = vmstate
    <2> DEFINE n == Len(resolved)
               v == M!ResolveOne(n, m)
    <2>1. n \in Nat /\ resolved \in Seq(Volumes)
        BY Zenon, <1>1, SequenceHas DEF Shaped
    <2>2. /\ v \in Volumes
          /\ v.source = "bind" => v.tag = M!BindTag(n)
          /\ v.source = "named" => v.tag = M!NamedTag(v.name) /\ v.dir = M!VolumePath(v.name)
          /\ ~M!IsOrUnder(v.dir, M!ConfigPath)
        BY Zenon, <1>1, <1>3, <2>1, ResolvedFits
    <2> HIDE DEF v
    <2>3. /\ resolved' \in Seq(Volumes) /\ Len(resolved') = n + 1
          /\ DOMAIN resolved' = DOMAIN resolved \cup {n + 1}
          /\ \A i \in DOMAIN resolved : resolved'[i] = resolved[i]
          /\ resolved'[n + 1] = v
        <3>1. IsAppended(resolved', resolved, v, Volumes)
            BY Zenon, <1>3, <2>1, <2>2, Appended DEF v
        <3> QED BY Zenon, <3>1 DEF IsAppended
    <2>4. Shaped'
        BY Zenon, <1>1, <2>3 DEF Shaped
    <2>5. M!ConfigPath' = M!ConfigPath /\ \A q : M!VolumePath(q)' = M!VolumePath(q)
        BY Zenon, <1>1 DEF M!ConfigPath, M!SocksDir, M!VolumePath
    <2>6. \A i \in DOMAIN resolved : Fits(i)'
        BY Zenon, <1>1, <2>3, <2>5 DEF Fits
    <2>a. PICK k \in Nat : k = n + 1
        BY <2>1
    <2>7. Fits(k)'
        <3>1. k - 1 = n
            BY <2>1, <2>a
        <3>2. resolved'[k] = v
            BY Zenon, <2>3, <2>a
        <3> QED BY Zenon, <2>2, <2>5, <3>1, <3>2 DEF Fits
    <2>8. \A i \in DOMAIN resolved' : Fits(i)'
        BY Zenon, <2>3, <2>6, <2>7, <2>a
    <2>9. Len(devices) \in Nat /\ Len(guestfs) \in Nat /\ DOMAIN devices = 1 .. Len(devices) /\ DOMAIN guestfs = 1 .. Len(guestfs)
          /\ DOMAIN resolved = 1 .. n
        BY Zenon, <1>1, <2>1, SequenceHas DEF Followed
    <2>10. Len(devices) <= n /\ Len(guestfs) <= n
        BY Zenon, <1>1 DEF Followed
    <2>11. Len(devices) <= n + 1 /\ Len(guestfs) <= n + 1 /\ DOMAIN devices \subseteq DOMAIN resolved /\ DOMAIN guestfs \subseteq DOMAIN resolved
        BY <2>1, <2>9, <2>10
    <2>12. \A i \in DOMAIN guestfs : Given(i)'
        <3> SUFFICES ASSUME NEW i \in DOMAIN guestfs PROVE Given(i)'
            BY Zenon
        <3>1. Given(i)
            BY Zenon, <1>1 DEF Followed
        <3> QED BY Zenon, <1>1, <2>3, <2>11, <3>1 DEF Given
    <2>13. Followed'
        BY Zenon, <1>1, <2>3, <2>11, <2>12 DEF Followed
    <2>14. vmstate' = "resolving" /\ shim' = "none" /\ vmstate' # "none" /\ shim' \notin {"serving", "refused"} /\ vmstate' # "running"
        BY <1>1, <1>3
    <2> QED BY Zenon, <1>1, <2>4, <2>8, <2>13, <2>14 DEF MInv
<1>4. CASE vmstate' = "failed" /\ resolved' = resolved
    <2>1. Shaped' /\ \A i \in DOMAIN resolved' : Fits(i)'
        BY Zenon, <1>1, <1>4, HostKept
    <2>2. Followed'
        BY Zenon, <1>1, <1>4, GivenKept DEF Followed
    <2>3. vmstate' \notin {"none", "resolving", "running"} /\ vmstate' # "none" /\ vmstate' # "running" /\ shim' \notin {"serving", "refused"}
        BY <1>1, <1>4
    <2> QED BY Zenon, <1>1, <2>1, <2>2, <2>3 DEF MInv
<1> QED BY Zenon, <1>2, <1>3, <1>4

\* Steps of the host after the mounts are resolved.
LEMMA MHostStep == MInv /\ (M!Spawn \/ M!LinkVm \/ M!Restart \/ M!UnlinkVm) => MInv'
<1> SUFFICES ASSUME MInv, M!Spawn \/ M!LinkVm \/ M!Restart \/ M!UnlinkVm PROVE MInv'
    BY Zenon
<1>1. host' = host /\ resolved' = resolved /\ devices' = devices /\ guestfs' = guestfs
    BY Zenon DEF M!Spawn, M!LinkVm, M!Restart, M!UnlinkVm
<1>2. Shaped' /\ (\A i \in DOMAIN resolved' : Fits(i)') /\ (M!ShutOut' <=> M!ShutOut)
    BY Zenon, <1>1, HostKept DEF MInv
<1>3. Followed'
    BY Zenon, <1>1, GivenKept DEF MInv, Followed
<1>4. vmstate # "none" /\ vmstate' \notin {"none", "resolving"} /\ vmstate' # "none"
    BY DEF M!Spawn, M!LinkVm, M!Restart, M!UnlinkVm
<1>5. shim' = shim \/ shim' = "starting"
    BY Zenon DEF M!Spawn, M!LinkVm, M!Restart, M!UnlinkVm
<1>6. "starting" \notin {"serving", "refused"}
    OBVIOUS
<1>7. vmstate' = "running" => Attached'
    <2>1. CASE M!LinkVm
        BY Zenon, <1>1, <2>1 DEF M!LinkVm, Attached
    <2>2. CASE M!Restart
        BY Zenon, <1>1, <2>2 DEF M!Restart, Attached, MInv
    <2>3. CASE M!Spawn \/ M!UnlinkVm
        BY <2>3 DEF M!Spawn, M!UnlinkVm
    <2> QED BY Zenon, <2>1, <2>2, <2>3
<1> QED BY Zenon, <1>1, <1>2, <1>3, <1>4, <1>5, <1>6, <1>7 DEF MInv

\* The shim ends, and with it the devices and the guest's mounts.
LEMMA MStopStep == MInv /\ M!Stop => MInv'
<1> SUFFICES ASSUME MInv, M!Stop PROVE MInv'
    BY Zenon
<1>1. host' = host /\ resolved' = resolved /\ devices' = <<>> /\ guestfs' = <<>> /\ vmstate' = vmstate /\ attached' = attached /\ shim' = "none"
    BY Zenon DEF M!Stop
<1>2. Shaped' /\ (\A i \in DOMAIN resolved' : Fits(i)') /\ (M!ShutOut' <=> M!ShutOut)
    BY Zenon, <1>1, HostKept DEF MInv
<1>3. <<>> \in Seq(Devices) /\ <<>> \in Seq(GuestMounts) /\ DOMAIN <<>> = {} /\ Len(<<>>) <= Len(resolved)
    <2>1. Len(resolved) \in Nat
        BY Zenon, SequenceHas DEF MInv, Shaped
    <2> QED BY <2>1
<1>4. Followed'
    BY Zenon, <1>1, <1>3 DEF Followed
<1>5. "none" \notin {"serving", "refused"}
    OBVIOUS
<1> QED BY Zenon, <1>1, <1>2, <1>4, <1>5 DEF MInv, Attached

\* Steps of the shim that add nothing: it is refused only when its jail keeps something from it.
LEMMA MShimStep == MInv /\ (M!ShimStart \/ M!StartEnter \/ M!Serve) => MInv'
<1> SUFFICES ASSUME MInv, M!ShimStart \/ M!StartEnter \/ M!Serve PROVE MInv'
    BY Zenon
<1>1. host' = host /\ resolved' = resolved /\ devices' = devices /\ guestfs' = guestfs /\ vmstate' = vmstate /\ attached' = attached
    BY Zenon DEF M!ShimStart, M!StartEnter, M!Serve
<1>2. Shaped /\ (\A i \in DOMAIN resolved : Fits(i)) /\ Followed
    BY Zenon DEF MInv
<1>3. Shaped' /\ (\A i \in DOMAIN resolved' : Fits(i)') /\ (M!ShutOut' <=> M!ShutOut)
    BY Zenon, <1>1, <1>2, HostKept
<1>4. Followed'
    BY Zenon, <1>1, GivenKept DEF MInv, Followed
<1>5. shim # "none"
    BY Zenon DEF M!ShimStart, M!StartEnter, M!Serve
<1>6. shim' = "serving" => Len(guestfs) = Len(resolved)
    BY DEF M!ShimStart, M!StartEnter, M!Serve
<1>7. shim' = "refused" => M!ShutOut
    <2> SUFFICES ASSUME shim' = "refused", ~M!ShutOut PROVE FALSE
        BY Zenon
    <2>1. /\ M!Grants(M!ShimPath, FALSE) /\ M!Grants(M!ConfigPath, FALSE) /\ M!Grants(M!RootPath, TRUE) /\ M!Grants(M!SocksDir, TRUE)
          /\ \A b \in M!BackingChain : M!Grants(b, FALSE)
          /\ \A i \in DOMAIN resolved : M!Grants(resolved[i].dir, TRUE) /\ M!Grants(resolved[i].dir, FALSE)
        BY Zenon, <1>2, JailReaches
    <2>2. CASE M!ShimStart
        <3>1. shim' = "applying"
            BY Zenon, <2>1, <2>2 DEF M!ShimStart, M!ShutOut
        <3> QED BY <3>1
    <2>3. CASE M!StartEnter
        <3>1. Len(devices) = Len(resolved)
            BY Zenon, <2>3 DEF M!StartEnter
        <3>2. DOMAIN devices = 1 .. Len(devices) /\ DOMAIN resolved = 1 .. Len(resolved)
            BY Zenon, <1>2, SequenceHas DEF Followed, Shaped
        <3>3. ASSUME NEW i \in DOMAIN devices PROVE M!Grants(devices[i].dir, ~devices[i].ro)
            <4>1. i \in DOMAIN resolved /\ devices[i].dir = resolved[i].dir
                BY Zenon, <1>2, <3>1, <3>2 DEF Followed
            <4>2. (~devices[i].ro) \in {TRUE, FALSE}
                BY Zenon
            <4>3. \A w \in {TRUE, FALSE} : M!Grants(resolved[i].dir, w)
                BY Zenon, <2>1, <4>1
            <4> QED BY Zenon, <4>1, <4>2, <4>3
        <3>4. shim' = "booting"
            BY Zenon, <2>1, <2>3, <3>3 DEF M!StartEnter
        <3> QED BY <3>4
    <2>4. CASE M!Serve
        BY <2>4 DEF M!Serve
    <2> QED BY Zenon, <2>2, <2>3, <2>4
<1> QED BY Zenon, <1>1, <1>3, <1>4, <1>5, <1>6, <1>7 DEF MInv, Attached

\* add_virtiofs_share adds the device of the next mount.
LEMMA MAddShareStep == MInv /\ M!AddVirtiofsShare => MInv'
<1> SUFFICES ASSUME MInv, M!AddVirtiofsShare PROVE MInv'
    BY Zenon
<1> DEFINE n == Len(devices)
<1>1. host' = host /\ resolved' = resolved /\ guestfs' = guestfs /\ vmstate' = vmstate /\ attached' = attached /\ shim' = shim
      /\ n + 1 \in DOMAIN resolved /\ devices' = Append(devices, [tag |-> resolved[n + 1].tag, dir |-> resolved[n + 1].dir, ro |-> resolved[n + 1].ro])
    BY Zenon DEF M!AddVirtiofsShare
<1>2. Shaped /\ (\A i \in DOMAIN resolved : Fits(i)) /\ Followed
    BY Zenon DEF MInv
<1>3. Shaped' /\ (\A i \in DOMAIN resolved' : Fits(i)') /\ (M!ShutOut' <=> M!ShutOut)
    BY Zenon, <1>1, <1>2, HostKept
<1>4. PICK k \in DOMAIN resolved : k = n + 1
    BY Zenon, <1>1
<1> DEFINE x == [tag |-> resolved[k].tag, dir |-> resolved[k].dir, ro |-> resolved[k].ro]
<1>5. resolved \in Seq(Volumes) /\ devices \in Seq(Devices) /\ DOMAIN resolved = 1 .. Len(resolved) /\ Len(resolved) \in Nat
    BY Zenon, <1>2, SequenceHas DEF Shaped, Followed
<1>6. x \in Devices /\ x.tag = resolved[k].tag /\ x.dir = resolved[k].dir /\ x.ro = resolved[k].ro
    <2>1. resolved[k] \in Volumes
        BY Zenon, <1>5, SequenceHas
    <2> QED BY <2>1 DEF Volumes, Devices
<1>7. IsAppended(devices', devices, x, Devices)
    BY Zenon, <1>1, <1>4, <1>5, <1>6, Appended
<1> HIDE DEF x
<1>8. /\ devices' \in Seq(Devices) /\ Len(devices') = k /\ DOMAIN devices' = DOMAIN devices \cup {k}
      /\ (\A i \in DOMAIN devices : devices'[i] = devices[i]) /\ devices'[k] = x
    BY Zenon, <1>4, <1>7 DEF IsAppended
<1>9. Len(devices') <= Len(resolved)
    BY <1>5, <1>8
<1>10. \A i \in DOMAIN devices' :
         devices'[i].tag = resolved[i].tag /\ devices'[i].dir = resolved[i].dir /\ devices'[i].ro = resolved[i].ro
    BY Zenon, <1>2, <1>6, <1>8 DEF Followed
<1>11. Followed'
    BY Zenon, <1>1, <1>2, <1>8, <1>9, <1>10, GivenKept DEF Followed
<1> QED BY Zenon, <1>1, <1>3, <1>11 DEF MInv, Attached

\* The agent mounts by tag: the kernel gives it some device with the tag.
LEMMA MMountStep == MInv /\ M!MountVirtiofsVolume => MInv'
<1> SUFFICES ASSUME MInv, M!MountVirtiofsVolume PROVE MInv'
    BY Zenon
<1> DEFINE n == Len(guestfs)
<1>1. host' = host /\ resolved' = resolved /\ devices' = devices /\ vmstate' = vmstate /\ attached' = attached /\ shim' = shim
      /\ n + 1 \in DOMAIN resolved /\ shim = "booting"
    BY Zenon DEF M!MountVirtiofsVolume
<1>2. Shaped /\ (\A i \in DOMAIN resolved : Fits(i)) /\ Followed
    BY Zenon DEF MInv
<1>3. Shaped' /\ (\A i \in DOMAIN resolved' : Fits(i)') /\ (M!ShutOut' <=> M!ShutOut)
    BY Zenon, <1>1, <1>2, HostKept
<1>4. PICK k \in DOMAIN resolved : k = n + 1
    BY Zenon, <1>1
<1>5. PICK j \in DOMAIN devices :
        devices[j].tag = resolved[k].tag /\ guestfs' = Append(guestfs, [at |-> resolved[k].at, dir |-> devices[j].dir, ro |-> devices[j].ro])
    BY Zenon, <1>4 DEF M!MountVirtiofsVolume, M!Range
<1> DEFINE x == [at |-> resolved[k].at, dir |-> devices[j].dir, ro |-> devices[j].ro]
<1>6. /\ resolved \in Seq(Volumes) /\ devices \in Seq(Devices) /\ DOMAIN resolved = 1 .. Len(resolved) /\ Len(resolved) \in Nat
      /\ DOMAIN devices = 1 .. Len(devices) /\ Len(devices) \in Nat /\ Len(devices) <= Len(resolved) /\ guestfs \in Seq(GuestMounts)
    BY Zenon, <1>2, SequenceHas DEF Shaped, Followed
<1>7. x \in GuestMounts /\ x.at = resolved[k].at /\ x.dir = devices[j].dir /\ x.ro = devices[j].ro
    <2>1. resolved[k] \in Volumes /\ devices[j] \in Devices
        BY Zenon, <1>6, SequenceHas
    <2> QED BY <2>1 DEF Volumes, Devices, GuestMounts
<1>8. IsAppended(guestfs', guestfs, x, GuestMounts)
    BY Zenon, <1>5, <1>6, <1>7, Appended
<1> HIDE DEF x
<1>9. /\ guestfs' \in Seq(GuestMounts) /\ Len(guestfs') = k /\ DOMAIN guestfs' = DOMAIN guestfs \cup {k}
      /\ (\A i \in DOMAIN guestfs : guestfs'[i] = guestfs[i]) /\ guestfs'[k] = x
    BY Zenon, <1>4, <1>8 DEF IsAppended
<1>10. Len(guestfs') <= Len(resolved) /\ j \in DOMAIN resolved
    BY <1>6, <1>9
<1>11. devices[j].tag = resolved[j].tag /\ devices[j].dir = resolved[j].dir /\ devices[j].ro = resolved[j].ro
    BY Zenon, <1>2 DEF Followed
<1>12. Given(k)'
    BY Zenon, <1>1, <1>5, <1>7, <1>9, <1>10, <1>11 DEF Given
<1>13. \A i \in DOMAIN guestfs : Given(i)'
    BY Zenon, <1>1, <1>2, <1>9, GivenKept DEF Followed
<1>14. Followed'
    BY Zenon, <1>1, <1>2, <1>9, <1>10, <1>12, <1>13 DEF Followed
<1>15. shim' # "serving" /\ shim' # "refused"
    BY <1>1
<1> QED BY Zenon, <1>1, <1>3, <1>14, <1>15 DEF MInv, Attached

\* MInv holds at first: there is no VM.
LEMMA MInvInit == M!Init => MInv
<1> SUFFICES ASSUME M!Init PROVE MInv
    BY Zenon
<1>1. resolved = <<>> /\ devices = <<>> /\ guestfs = <<>> /\ vmstate = "none" /\ shim = "none"
    BY Zenon DEF M!Init
<1>2. host.data = M!Root
    BY DEF M!Init
<1>3. M!Root \in Names
    BY Zenon, ShortPaths DEF M!Root
<1>4. M!Root # <<>> /\ M!Root[1] = "/"
    BY DEF M!Root
<1>5. <<>> \in Seq(Volumes) /\ <<>> \in Seq(Devices) /\ <<>> \in Seq(GuestMounts) /\ DOMAIN <<>> = {} /\ Len(<<>>) <= Len(<<>>)
    OBVIOUS
<1>6. "none" \notin {"serving", "refused"} /\ "none" # "running"
    OBVIOUS
<1> QED BY Zenon, <1>1, <1>2, <1>3, <1>4, <1>5, <1>6 DEF MInv, Shaped, Followed

\* Every step keeps MInv.
LEMMA MInvNext == MInv /\ [M!Next]_(M!mountVars) => MInv'
<1> SUFFICES ASSUME MInv, [M!Next]_(M!mountVars) PROVE MInv'
    BY Zenon
<1>1. CASE UNCHANGED M!mountVars
    <2>1. host' = host /\ resolved' = resolved /\ devices' = devices /\ guestfs' = guestfs /\ vmstate' = vmstate /\ attached' = attached /\ shim' = shim
        BY Zenon, <1>1 DEF M!mountVars
    <2>2. Shaped' /\ (\A i \in DOMAIN resolved' : Fits(i)') /\ (M!ShutOut' <=> M!ShutOut)
        BY Zenon, <2>1, HostKept DEF MInv
    <2>3. Followed'
        BY Zenon, <2>1, GivenKept DEF MInv, Followed
    <2> QED BY Zenon, <2>1, <2>2, <2>3 DEF MInv, Attached
<1> QED BY Zenon, <1>1, MRequestStep, MResolveStep, MHostStep, MStopStep, MShimStep, MAddShareStep, MMountStep DEF M!Next

\* Two mounts with one tag show one directory in one mode.
LEMMA SameTag ==
    ASSUME MInv, NEW i \in DOMAIN resolved, NEW k \in DOMAIN resolved, ~M!Confused(i), resolved[k].tag = resolved[i].tag
    PROVE  resolved[k].dir = resolved[i].dir /\ resolved[k].ro = resolved[i].ro
<1>1. resolved \in Seq(Volumes) /\ Fits(i) /\ Fits(k) /\ DOMAIN resolved = 1 .. Len(resolved) /\ Len(resolved) \in Nat
    BY Zenon, SequenceHas DEF MInv, Shaped
<1>2. resolved[i].source \in {"bind", "named"} /\ resolved[k].source \in {"bind", "named"}
    <2>1. resolved[i] \in Volumes /\ resolved[k] \in Volumes
        BY Zenon, <1>1, SequenceHas
    <2> QED BY <2>1 DEF Volumes
<1>3. \A n, m : M!BindTag(n) # M!NamedTag(m)
    BY DEF M!BindTag, M!NamedTag
<1>4. \A n, m : M!BindTag(n) = M!BindTag(m) => n = m
    BY DEF M!BindTag
<1>5. \A n, m : M!NamedTag(n) = M!NamedTag(m) => M!SanitizeTag(n) = M!SanitizeTag(m)
    BY DEF M!NamedTag
<1>6. CASE resolved[i].source = "bind"
    <2>1. resolved[k].source = "bind"
        BY Zenon, <1>1, <1>2, <1>3, <1>6 DEF Fits
    <2>2. i - 1 = k - 1
        BY Zenon, <1>1, <1>4, <1>6, <2>1 DEF Fits
    <2>3. i = k
        BY <1>1, <2>2
    <2> QED BY Zenon, <2>3
<1>7. CASE resolved[i].source = "named"
    <2>1. resolved[k].source = "named"
        BY Zenon, <1>1, <1>2, <1>3, <1>7 DEF Fits
    <2>2. M!SanitizeTag(resolved[i].name) = M!SanitizeTag(resolved[k].name)
        BY Zenon, <1>1, <1>5, <1>7, <2>1 DEF Fits
    <2>3. CASE i # k
        <3>1. resolved[i].name = resolved[k].name /\ resolved[i].ro = resolved[k].ro
            BY Zenon, <1>7, <2>1, <2>2, <2>3 DEF M!Confused
        <3> QED BY Zenon, <1>1, <1>7, <2>1, <3>1 DEF Fits
    <2> QED BY Zenon, <2>3
<1> QED BY Zenon, <1>2, <1>6, <1>7

\* MInv implies what is promised: of the mounts over a path that no later one covers the last is its
\* own, and its tag gives its directory.
LEMMA MInvImplies == MInv => M!MountsAsRequested
<1> SUFFICES ASSUME MInv PROVE M!MountsAsRequested
    BY Zenon
<1>1. ASSUME shim = "serving", NEW i \in DOMAIN resolved, ~M!Covered(i), ~M!Confused(i)
      PROVE  M!Seen(resolved[i].at).dir = resolved[i].dir /\ M!Seen(resolved[i].at).ro = resolved[i].ro
    <2> DEFINE n == Len(resolved)
               l == M!LastOver(resolved[i].at, guestfs)
    <2>1. Followed /\ Len(guestfs) = n
        BY Zenon, <1>1 DEF MInv
    <2>2. n \in Nat /\ DOMAIN resolved = 1 .. n /\ DOMAIN guestfs = 1 .. n
        BY Zenon, <2>1, SequenceHas DEF MInv, Shaped, Followed
    <2>3. \A k \in 1 .. n : Given(k)
        BY Zenon, <2>1, <2>2 DEF Followed
    <2>4. \A k \in 1 .. n : guestfs[k].at = resolved[k].at
        BY Zenon, <2>3 DEF Given
    <2>5. i \in 1 .. n /\ M!IsOrUnder(resolved[i].at, guestfs[i].at)
        BY Zenon, <1>1, <2>2, <2>4, Itself
    <2>6. /\ l \in 1 .. n /\ M!IsOrUnder(resolved[i].at, guestfs[l].at) /\ i <= l
        <3> HIDE DEF n
        <3> QED BY Zenon, <2>2, <2>5, LastOverIs
    <2>7. M!IsOrUnder(resolved[i].at, resolved[l].at)
        BY Zenon, <2>4, <2>6
    <2> HIDE DEF l
    <2>8. l \notin i + 1 .. n
        BY Zenon, <1>1, <2>7 DEF M!Covered
    <2>9. l = i
        BY <2>2, <2>5, <2>6, <2>8
    <2>10. M!Seen(resolved[i].at) = guestfs[i]
        BY Zenon, <2>9 DEF M!Seen, l
    <2>11. PICK k \in DOMAIN resolved : resolved[k].tag = resolved[i].tag /\ guestfs[i].dir = resolved[k].dir /\ guestfs[i].ro = resolved[k].ro
        BY Zenon, <2>3, <2>5 DEF Given
    <2> QED BY Zenon, <1>1, <2>10, <2>11, SameTag
<1>2. shim = "refused" => M!ShutOut
    BY Zenon DEF MInv
<1>3. vmstate = "running" => \A i \in DOMAIN resolved : resolved[i].source = "named" => resolved[i].name \in DOMAIN attached
    BY Zenon DEF MInv, Attached
<1> QED BY Zenon, <1>1, <1>2, <1>3 DEF M!MountsAsRequested

\* A guest that serves finds at each requested path the directory and mode asked for, no jail keeps
\* the shim from what its configuration names, and the named volumes of a VM stay attached to it, for
\* any mounts, host directories and jail, unless a later mount covers the path, two volumes share a
\* tag, or bubblewrap hides the data directory or is stacked on Landlock (volumes.rs,
\* landlock_setup.rs, bwrap.rs, seatbelt.rs, guest mounts.rs).
THEOREM MountedAsRequested == M!Spec => []MountsAsRequested
<1>1. MInv => MountsAsRequested
    BY Zenon, MInvImplies DEF MountsAsRequested
<1> QED BY <1>1, MInvInit, MInvNext, PTL DEF M!Spec

-----------------------------------------------------------------------------
(* The network proxy (forked_tcp.go, tcp_filter.go, dns_filter.go).        *)

\* Names are sequences of labels; the values of a connection's record.
Hosts == Seq(STRING)
Patterns == [wild : BOOLEAN, name : Hosts]
Stages == {"none", "closed", "dial", "accept", "peek", "hostdial", "cert", "served", "relay"}
Addresses == {"gateway", "guest", "linklocal", "listed", "other", "loopback"}
Serves == {"none", "h2", "http1", "returned", "accepting"}
Ports == {0, 22, 80, 443}
Secrets == UNION SecretSets
Flags == BOOLEAN
ConnRecs == [st : Stages, ip : Addresses, port : Ports, host : Hosts,
             subst : SUBSET Secrets, guest : Flags, up : Flags, serve : Serves]

\* Connections are records; the secrets and the rules are those of a configuration.
ProxyTypes ==
    /\ cx \in [Conns -> ConnRecs]
    /\ pcfg.secrets \subseteq Secrets
    /\ pcfg.allow # NoList => pcfg.allow.hosts \subseteq Patterns

\* The secrets of a host, as the property has them.
Named(asked) == {s \in pcfg.secrets : \E p \in s :
                   \/ ~p.wild /\ p.name = asked
                   \/ p.wild /\ asked # <<>> /\ Tail(asked) = p.name}

\* The allow list lets the connection leave.
Listed(n) == pcfg.allow # NoList => MatchesIP(n.ip) \/ (n.port # 22 /\ MatchesHostname(n.host))

\* What the stage of a connection says of where it leads.
Routed(n) ==
    /\ n.st \in {"accept", "peek"} => n.port \in {80, 443}
    /\ handler # "kept" /\ n.st = "dial" => ~(pcfg.secrets # {} /\ n.port = 443)
    /\ handler # "kept" /\ n.st \in {"dial", "hostdial", "relay"} => Listed(n) /\ (n.port = 443 => Named(n.host) = {})
    /\ n.st \in {"cert", "served"} => n.port = 443 /\ n.subst = Named(n.host)
    /\ n.st = "none" => n.serve = "none"

\* A host a list names; a zone that has records only of those.
Matched(asked, hosts) == \E p \in hosts : IF p.wild THEN Under(asked, p.name) ELSE asked = p.name
Answers(zone, hosts) ==
    \A asked \in Hosts : Under(asked, zone.name) /\ HasRecord(zone, asked) => Matched(asked, hosts)

\* The zones have records only of the list's hosts.
ZonesFit ==
    pcfg.allow # NoList => \A i \in DOMAIN pcfg.zones : Answers(pcfg.zones[i], pcfg.allow.hosts)

\* The last answer is a record only for a host of the list.
Answered == pcfg.allow # NoList /\ answer # <<>> /\ answer[2] = "record" => MatchesHostname(answer[1])

\* The filter is in place, or has failed to be, before the guest has a link, and nothing happens
\* before there is an instance.
Filtered ==
    /\ link = "up" => inst = "running"
    /\ inst \in {"none", "starting", "made"} => handler = "default"
    /\ inst = "running" =>
          handler \in IF pcfg.allow # NoList \/ pcfg.secrets # {} THEN {"filter", "kept"} ELSE {"default"}
    /\ inst = "none" => answer = <<>> /\ \A c \in Conns : cx[c].st = "none"

\* The inductive invariant.
NInv == ProxyTypes /\ ZonesFit /\ Answered /\ Filtered /\ \A c \in Conns : Routed(cx[c])

\* A host is one level below a name just when the name is what follows its first label: the
\* substitution's wildcard, matchesWildcard.
LEMMA OneMore ==
    ASSUME NEW h \in Hosts, NEW n \in Hosts
    PROVE  Under(h, n) /\ Len(h) = Len(n) + 1 <=> h # <<>> /\ Tail(h) = n
<1>1. Len(h) \in Nat /\ Len(n) \in Nat
    BY DEF Hosts
<1>2. ASSUME h # <<>> PROVE Tail(h) = SubSeq(h, 2, Len(h)) /\ Len(Tail(h)) = Len(h) - 1
    BY <1>2 DEF Hosts
<1>3. ASSUME NEW a \in Nat, NEW b \in Nat PROVE a = b + 1 <=> a > b /\ a - b + 1 = 2
    OBVIOUS
<1>4. ASSUME Len(h) = Len(n) + 1 PROVE h # <<>> /\ (Under(h, n) <=> SubSeq(h, 2, Len(h)) = n)
    <2>1. Len(h) > Len(n) /\ Len(h) - Len(n) + 1 = 2
        BY Zenon, <1>1, <1>3, <1>4
    <2>2. h # <<>>
        BY <1>1, <1>4
    <2> QED BY Zenon, <2>1, <2>2 DEF Under
<1>5. ASSUME h # <<>>, Tail(h) = n PROVE Len(h) = Len(n) + 1
    <2>1. Len(n) = Len(h) - 1
        BY Zenon, <1>2, <1>5
    <2> QED BY <1>1, <2>1
<1> QED BY Zenon, <1>2, <1>4, <1>5

\* SecretsForHost gives the secrets of the host.
LEMMA SecretsNamed ==
    ASSUME ProxyTypes, NEW h \in Hosts PROVE SecretsForHost(h) = Named(h)
<1>1. ASSUME NEW s \in pcfg.secrets, NEW p \in s
      PROVE  MatchesSecret(h, p) <=> (~p.wild /\ p.name = h) \/ (p.wild /\ h # <<>> /\ Tail(h) = p.name)
    <2>1. p.name \in Hosts /\ p.wild \in BOOLEAN
        BY ProxyAssumption DEF ProxyTypes, Hosts, Secrets
    <2> QED BY Zenon, <2>1, OneMore DEF MatchesSecret
<1> QED BY Zenon, <1>1 DEF SecretsForHost, Named

\* A connection that names no host has no secret.
LEMMA NamelessHasNone == ASSUME ProxyTypes PROVE Named(<<>>) = {}
<1>1. \A s \in pcfg.secrets : \A p \in s : p.name # <<>>
    BY ProxyAssumption DEF ProxyTypes, Secrets
<1> QED BY Zenon, <1>1 DEF Named

\* What joining two names gives.
LEMMA Joined ==
    ASSUME NEW a \in Seq(STRING), NEW b \in Seq(STRING)
    PROVE  /\ a \o b \in Seq(STRING) /\ Len(a \o b) = Len(a) + Len(b)
           /\ \A i \in 1 .. Len(a) + Len(b) : (a \o b)[i] = IF i <= Len(a) THEN a[i] ELSE b[i - Len(a)]
<1>1. a \o b \in Seq(STRING) /\ Len(a \o b) = Len(a) + Len(b)
    OBVIOUS
<1>2. \A i \in 1 .. Len(a) + Len(b) : (a \o b)[i] = IF i <= Len(a) THEN a[i] ELSE b[i - Len(a)]
    OBVIOUS
<1> QED BY Zenon, <1>1, <1>2

\* A name of several labels has not one.
LEMMA NotOne == ASSUME NEW h \in Hosts, Len(h) > 1 PROVE Len(h) # 1
<1>1. Len(h) \in Nat
    BY DEF Hosts
<1>2. \A k \in Nat : k > 1 => k # 1
    OBVIOUS
<1> QED BY Zenon, <1>1, <1>2

\* A name is its first label before the rest.
LEMMA HeadAndTail ==
    ASSUME NEW h \in Hosts, Len(h) > 1 PROVE <<Head(h)>> \o Tail(h) = h
<1>1. /\ Head(h) \in STRING /\ Tail(h) \in Seq(STRING) /\ Len(Tail(h)) = Len(h) - 1 /\ Head(h) = h[1]
      /\ \A i \in 1 .. Len(Tail(h)) : Tail(h)[i] = h[i + 1]
    BY DEF Hosts
<1> DEFINE a == <<Head(h)>>
           b == Tail(h)
           w == a \o b
<1>2. a \in Seq(STRING) /\ Len(a) = 1 /\ a[1] = h[1]
    BY <1>1
<1>3. b \in Seq(STRING) /\ Len(b) = Len(h) - 1 /\ \A i \in 1 .. Len(h) - 1 : b[i] = h[i + 1]
    BY Zenon, <1>1
<1> HIDE DEF a, b
<1>4. w \in Seq(STRING) /\ Len(w) = Len(h) /\ \A i \in 1 .. Len(h) : w[i] = IF i <= 1 THEN a[i] ELSE b[i - 1]
    <2>1. /\ w \in Seq(STRING) /\ Len(w) = Len(a) + Len(b)
          /\ \A i \in 1 .. Len(a) + Len(b) : w[i] = IF i <= Len(a) THEN a[i] ELSE b[i - Len(a)]
        BY Zenon, <1>2, <1>3, Joined
    <2>2. Len(a) + Len(b) = Len(h) /\ Len(a) = 1
        BY <1>2, <1>3 DEF Hosts
    <2> QED BY Zenon, <2>1, <2>2
<1> HIDE DEF w
<1>5. ASSUME NEW i \in 1 .. Len(h) PROVE w[i] = h[i]
    <2>1. CASE i = 1
        BY <1>2, <1>4, <2>1
    <2>2. CASE i # 1
        <3>1. i - 1 \in 1 .. Len(h) - 1 /\ (i - 1) + 1 = i /\ ~(i <= 1)
            BY <2>2 DEF Hosts
        <3> QED BY Zenon, <1>3, <1>4, <3>1
    <2> QED BY Zenon, <2>1, <2>2
<1>6. w = h
    BY <1>4, <1>5 DEF Hosts
<1> QED BY Zenon, <1>6 DEF w, a, b

\* The zones of a list answer only for its hosts, in whatever order they came and whichever of the
\* hosts resolved: a zone's labels lead back to the exact hosts they were cut from.
LEMMA ZonesAnswer ==
    ASSUME NEW hosts, hosts \subseteq Patterns, NEW found \in SUBSET hosts,
           NEW zones \in Zones(hosts, found)
    PROVE  \A i \in DOMAIN zones : Answers(zones[i], hosts)
<1> DEFINE made == {p \in hosts : p.wild \/ p \in found}
           Z == {Zone(ZoneName(p), hosts, found) : p \in made}
<1>1. zones \in [1 .. Cardinality(Z) -> Z]
    BY Zenon DEF Zones, Bijection, Injection
<1>2. \A i \in DOMAIN zones : zones[i] \in Z
    BY Zenon, <1>1
<1>3. ASSUME NEW p \in made PROVE Answers(Zone(ZoneName(p), hosts, found), hosts)
    <2> DEFINE n == ZoneName(p)
               z == Zone(n, hosts, found)
    <2>1. /\ z.name = n /\ z.all = ([wild |-> TRUE, name |-> n] \in hosts)
          /\ \A l \in z.labels : \E q \in hosts :
                ~q.wild /\ Len(q.name) > 1 /\ ZoneName(q) = n /\ l = Head(q.name)
        BY Zenon DEF Zone
    <2> HIDE DEF z, n
    <2>2. ASSUME NEW asked \in Hosts, Under(asked, n), z.all PROVE Matched(asked, hosts)
        BY Zenon, <2>1, <2>2 DEF Matched
    <2>3. ASSUME NEW asked \in Hosts, NEW l \in z.labels, asked = <<l>> \o n PROVE Matched(asked, hosts)
        <3>1. PICK q \in hosts : ~q.wild /\ Len(q.name) > 1 /\ ZoneName(q) = n /\ l = Head(q.name)
            BY Zenon, <2>1
        <3>2. q.name \in Hosts
            BY Zenon DEF Patterns
        <3>3. Len(q.name) # 1
            BY Zenon, <3>1, <3>2, NotOne
        <3>4. n = Tail(q.name)
            BY Zenon, <3>1, <3>3 DEF ZoneName
        <3>5. asked = q.name
            BY Zenon, <2>3, <3>1, <3>2, <3>4, HeadAndTail
        <3> QED BY Zenon, <3>1, <3>5 DEF Matched
    <2>4. Answers(z, hosts)
        BY Zenon, <2>1, <2>2, <2>3 DEF Answers, HasRecord
    <2> QED BY Zenon, <2>4 DEF z, n
<1> QED BY Zenon, <1>2, <1>3

\* What is assumed of a list.
LEMMA ListTyped ==
    ASSUME NEW a \in AllowLists, a # NoList PROVE a.hosts \subseteq Patterns
BY Zenon, ProxyAssumption DEF Patterns, Hosts

\* A connection not made yet.
LEMMA UnusedRecord ==
    Unused \in ConnRecs /\ Unused.st = "none" /\ Unused.serve = "none" /\ Unused.host = <<>>
BY DEF Unused, ConnRecs, Hosts, Stages, Addresses, Serves, Ports, Flags

\* NInv holds at first: no instance.
LEMMA NInit == Init => NInv
<1> SUFFICES ASSUME Init PROVE NInv
    BY Zenon
<1>1. pcfg.allow = NoList /\ pcfg.secrets = {} /\ cx = [c \in Conns |-> Unused] /\ inst = "none"
      /\ link = "none" /\ answer = <<>> /\ handler = "default"
    BY Zenon DEF Init, Off
<1>2. Unused \in ConnRecs /\ Unused.st = "none" /\ Unused.serve = "none"
    BY Zenon, UnusedRecord
<1> HIDE DEF Init
<1>3. ProxyTypes
    BY Zenon, <1>1, <1>2 DEF ProxyTypes
<1>4. ZonesFit /\ Answered /\ Filtered
    BY Zenon, <1>1, <1>2 DEF ZonesFit, Answered, Filtered
<1>5. \A c \in Conns : Routed(cx[c])
    BY <1>1, <1>2 DEF Routed
<1> QED BY Zenon, <1>3, <1>4, <1>5 DEF NInv

\* A step that changes neither the configuration nor what the guest has.
LEMMA InstanceStep ==
    ASSUME NInv, UNCHANGED <<pcfg, cx, answer>>, handler = "kept" => handler' = "kept", Filtered'
    PROVE  NInv'
<1>1. ProxyTypes' /\ ZonesFit' /\ Answered'
    BY Zenon DEF NInv, ProxyTypes, ZonesFit, Answered, MatchesHostname
<1>2. \A c \in Conns : Routed(cx[c])'
    BY DEF NInv, Routed, Listed, Named, MatchesIP, MatchesHostname
<1> QED BY Zenon, <1>1, <1>2 DEF NInv

\* gvproxy_create takes a configuration while there is no guest to be served by another.
LEMMA CreateStep == ASSUME NInv, Create PROVE NInv'
<1>1. inst = "none" /\ inst' = "starting" /\ UNCHANGED <<link, handler, cx, answer>>
    BY Zenon DEF Create
<1>2. PICK allow \in AllowLists, secrets \in SecretSets :
          LET hosts == IF allow = NoList THEN {} ELSE allow.hosts
          IN  \E found \in SUBSET hosts : \E zones \in Zones(hosts, found) :
                 pcfg' = [allow |-> allow, secrets |-> secrets, zones |-> zones]
    BY Zenon DEF Create
<1> DEFINE hosts == IF allow = NoList THEN {} ELSE allow.hosts
<1>2a. PICK found \in SUBSET hosts : \E zones \in Zones(hosts, found) :
          pcfg' = [allow |-> allow, secrets |-> secrets, zones |-> zones]
    BY Zenon, <1>2
<1>3. PICK zones \in Zones(hosts, found) :
          pcfg' = [allow |-> allow, secrets |-> secrets, zones |-> zones]
    BY Zenon, <1>2a
<1>4. pcfg'.allow = allow /\ pcfg'.secrets = secrets /\ pcfg'.zones = zones
    BY Zenon, <1>3
<1>5. answer = <<>> /\ link # "up" /\ (\A c \in Conns : cx[c].st = "none") /\ cx \in [Conns -> ConnRecs]
    BY Zenon, <1>1 DEF NInv, Filtered, ProxyTypes
<1>5a. \A c \in Conns : cx[c].serve = "none"
    BY ZenonT(30), <1>5 DEF NInv, Routed
<1>6. ProxyTypes'
    <2>1. pcfg'.secrets \subseteq Secrets
        BY Zenon, <1>4 DEF Secrets
    <2> QED BY Zenon, <1>1, <1>4, <1>5, <2>1, ListTyped DEF ProxyTypes
<1>7. ZonesFit'
    <2>1. ASSUME allow # NoList PROVE \A i \in DOMAIN zones : Answers(zones[i], allow.hosts)
        <3>1. hosts = allow.hosts
            BY Zenon, <2>1
        <3>2. hosts \subseteq Patterns
            BY Zenon, <2>1, <3>1, ListTyped
        <3> HIDE DEF hosts
        <3> QED BY Zenon, <1>3, <3>1, <3>2, ZonesAnswer
    <2> QED BY Zenon, <1>4, <2>1 DEF ZonesFit
<1>8. Answered'
    BY Zenon, <1>1, <1>5 DEF Answered
<1>9. Filtered'
    BY Zenon, <1>1, <1>5 DEF NInv, Filtered
<1>10. \A c \in Conns : Routed(cx[c])'
    BY <1>1, <1>5, <1>5a DEF Routed
<1> QED BY Zenon, <1>6, <1>7, <1>8, <1>9, <1>10 DEF NInv

\* The filter is put in place.
LEMMA OverrideStep == ASSUME NInv, Override PROVE NInv'
<1>1. UNCHANGED <<pcfg, cx, answer, link>> /\ inst' = "running" /\ handler # "kept"
      /\ handler' \in IF pcfg.allow # NoList \/ pcfg.secrets # {} THEN {"filter", "kept"} ELSE {"default"}
    BY DEF Override, NInv, Filtered
<1>2. Filtered'
    BY Zenon, <1>1 DEF Filtered
<1> QED BY Zenon, <1>1, <1>2, InstanceStep

\* The other steps of the instance leave the handler alone.
LEMMA OtherInstanceStep ==
    ASSUME NInv, CreateFails \/ NewNetwork \/ VmConnects \/ Accept \/ Destroy \/ Cleanup PROVE NInv'
<1>1. UNCHANGED <<pcfg, cx, answer, handler>> /\ Filtered
    BY Zenon DEF NInv, CreateFails, NewNetwork, VmConnects, Accept, Destroy, Cleanup
<1>2. /\ link' = "up" => inst' = "running"
      /\ inst' = "running" => inst = "running"
      /\ inst' = "none" => inst = "none"
      /\ inst' \in {"none", "starting", "made"} => inst \in {"none", "starting", "made"}
    BY Zenon, <1>1 DEF Filtered, CreateFails, NewNetwork, VmConnects, Accept, Destroy, Cleanup
<1>3. Filtered'
    BY Zenon, <1>1, <1>2 DEF Filtered
<1> QED BY Zenon, <1>1, <1>3, InstanceStep

\* A zone answers a lookup.
LEMMA LookupStep == ASSUME NInv, NEW asked \in HostNames, Lookup(asked) PROVE NInv'
<1>1. UNCHANGED <<pcfg, inst, link, handler, cx>> /\ link = "up" /\ answer' = <<asked, Resolve(asked)>>
    BY Zenon DEF Lookup
<1>2. inst # "none" /\ asked \in Hosts
    BY Zenon, <1>1, ProxyAssumption DEF NInv, Filtered, Hosts
<1>3. ASSUME pcfg.allow # NoList, Resolve(asked) = "record" PROVE MatchesHostname(asked)
    <2>1. PICK i \in DOMAIN pcfg.zones : FirstZone(asked, i) /\ HasRecord(pcfg.zones[i], asked)
        BY Zenon, <1>3 DEF Resolve
    <2>2. Answers(pcfg.zones[i], pcfg.allow.hosts)
        BY Zenon, <1>3 DEF NInv, ZonesFit
    <2>3. Matched(asked, pcfg.allow.hosts)
        BY Zenon, <1>2, <2>1, <2>2 DEF Answers, FirstZone
    <2> QED BY Zenon, <2>3 DEF Matched, MatchesHostname
<1>4. Answered'
    BY Zenon, <1>1, <1>3 DEF Answered, MatchesHostname
<1>5. ProxyTypes' /\ ZonesFit' /\ Filtered'
    BY Zenon, <1>1, <1>2 DEF NInv, ProxyTypes, ZonesFit, Filtered
<1>6. \A c \in Conns : Routed(cx[c])'
    BY <1>1 DEF NInv, Routed, Listed, Named, MatchesIP, MatchesHostname
<1> QED BY Zenon, <1>4, <1>5, <1>6 DEF NInv

-----------------------------------------------------------------------------
(* Connections.                                                            *)

\* What NInv says of one connection.
LEMMA ConnFacts ==
    ASSUME NInv, NEW c \in Conns
    PROVE  /\ cx[c] \in ConnRecs /\ Routed(cx[c]) /\ ProxyTypes /\ Filtered /\ cx \in [Conns -> ConnRecs]
           /\ cx[c].st # "none" => inst # "none"
BY Zenon DEF NInv, ProxyTypes, Filtered

\* A step of one connection to a record that leads where it may.
LEMMA ConnStep ==
    ASSUME NInv, NEW c \in Conns, NEW r \in ConnRecs, Set(c, r), Routed(r), inst # "none"
    PROVE  NInv'
<1>1. /\ UNCHANGED <<pcfg, inst, link, handler, answer>> /\ cx' = [cx EXCEPT ![c] = r]
      /\ cx \in [Conns -> ConnRecs]
    BY Zenon, ConnFacts DEF Set
<1>2. cx' \in [Conns -> ConnRecs] /\ cx'[c] = r /\ \A d \in Conns \ {c} : cx'[d] = cx[d]
    BY Zenon, <1>1
<1>3. ProxyTypes' /\ ZonesFit' /\ Answered' /\ Filtered'
    BY Zenon, <1>1, <1>2 DEF NInv, ProxyTypes, ZonesFit, Answered, MatchesHostname, Filtered
<1>4. ASSUME NEW x, Routed(x), NEW d \in Conns, cx'[d] = x PROVE Routed(cx[d])'
    BY <1>1, <1>4 DEF Routed, Listed, Named, MatchesIP, MatchesHostname
<1>5. ASSUME NEW d \in Conns PROVE Routed(cx[d])'
    <2>1. CASE d = c
        BY Zenon, <1>2, <1>4, <2>1
    <2>2. CASE d # c
        <3>1. Routed(cx[d]) /\ cx'[d] = cx[d]
            BY Zenon, <1>2, <2>2 DEF NInv
        <3> QED BY Zenon, <1>4, <3>1
    <2> QED BY Zenon, <2>1, <2>2
<1> QED BY Zenon, <1>3, <1>5 DEF NInv

\* A record at another stage, with the same address, port, host and secrets.
SameRoute(r, n) == r.ip = n.ip /\ r.port = n.port /\ r.host = n.host /\ r.subst = n.subst
Stage(r, n, st) == r \in ConnRecs /\ r.st = st /\ SameRoute(r, n)

\* The records the stages make.
LEMMA ConnRecord ==
    ASSUME NEW n \in ConnRecs, NEW st \in Stages, NEW b \in Flags, NEW serve \in Serves
    PROVE  /\ Stage([n EXCEPT !.st = st, !.guest = b, !.up = b], n, st)
           /\ Stage([n EXCEPT !.st = st, !.guest = b], n, st)
           /\ Stage([n EXCEPT !.st = st, !.up = b], n, st)
           /\ Stage([n EXCEPT !.st = st, !.serve = serve], n, st)
           /\ Stage([n EXCEPT !.up = b], n, n.st) /\ Stage([n EXCEPT !.serve = serve], n, n.st)
<1>1. [n EXCEPT !.st = st, !.guest = b, !.up = b] \in ConnRecs
    BY ZenonT(30) DEF ConnRecs
<1>2. [n EXCEPT !.st = st, !.guest = b] \in ConnRecs
    BY ZenonT(30) DEF ConnRecs
<1>3. [n EXCEPT !.st = st, !.up = b] \in ConnRecs
    BY ZenonT(30) DEF ConnRecs
<1>4. [n EXCEPT !.st = st, !.serve = serve] \in ConnRecs
    BY ZenonT(30) DEF ConnRecs
<1>5. [n EXCEPT !.up = b] \in ConnRecs /\ [n EXCEPT !.serve = serve] \in ConnRecs
    BY Zenon DEF ConnRecs
<1>6. /\ SameRoute([n EXCEPT !.st = st, !.guest = b, !.up = b], n) /\ SameRoute([n EXCEPT !.st = st, !.guest = b], n)
      /\ SameRoute([n EXCEPT !.st = st, !.up = b], n) /\ SameRoute([n EXCEPT !.st = st, !.serve = serve], n)
      /\ SameRoute([n EXCEPT !.up = b], n) /\ SameRoute([n EXCEPT !.serve = serve], n)
    BY Zenon DEF ConnRecs, SameRoute
<1>7. /\ [n EXCEPT !.st = st, !.guest = b, !.up = b].st = st /\ [n EXCEPT !.st = st, !.guest = b].st = st
      /\ [n EXCEPT !.st = st, !.up = b].st = st /\ [n EXCEPT !.st = st, !.serve = serve].st = st
      /\ [n EXCEPT !.up = b].st = n.st /\ [n EXCEPT !.serve = serve].st = n.st
    BY Zenon DEF ConnRecs
<1> QED BY ZenonT(30), <1>1, <1>2, <1>3, <1>4, <1>5, <1>6, <1>7 DEF Stage

\* A closed connection leads nowhere.
LEMMA ShutStep == ASSUME NInv, NEW c \in Conns, cx[c].st # "none", Shut(c) PROVE NInv'
<1> DEFINE r == [cx[c] EXCEPT !.st = "closed", !.guest = FALSE, !.up = FALSE]
<1>1. cx[c] \in ConnRecs /\ "closed" \in Stages /\ FALSE \in Flags /\ "none" \in Serves
    BY Zenon, ConnFacts DEF Stages, Serves, Flags
<1>2. r \in ConnRecs /\ r.st = "closed"
    <2>1. \A b \in Flags : LET q == [cx[c] EXCEPT !.st = "closed", !.guest = b, !.up = b]
                           IN  Stage(q, cx[c], "closed")
        BY Zenon, <1>1, ConnRecord
    <2> QED BY Zenon, <1>1, <2>1 DEF Stage
<1>3. Set(c, r)
    BY Zenon DEF Shut
<1> HIDE DEF r
<1>4. Routed(r)
    BY ZenonT(40), <1>2 DEF Routed
<1> QED BY Zenon, <1>2, <1>3, <1>4, ConnFacts, ConnStep

\* The stages a connection moves between once its host is known or not asked for.
Advances(n, r) ==
    /\ SameRoute(r, n) /\ n.st # "none"
    /\ \/ r.st \in {n.st, "closed"}
       \/ n.st \in {"dial", "hostdial"} /\ r.st = "relay"
       \/ n.st = "accept" /\ r.st = "peek"
       \/ n.st = "cert" /\ r.st = "served"

\* Such a move keeps NInv.
LEMMA AdvanceStep ==
    ASSUME NInv, NEW c \in Conns, NEW r \in ConnRecs, Set(c, r), Advances(cx[c], r) PROVE NInv'
<1>1. Routed(r)
    BY ConnFacts DEF Routed, Listed, Advances, SameRoute
<1>2. cx[c].st # "none"
    BY Zenon DEF Advances
<1> QED BY Zenon, <1>1, <1>2, ConnFacts, ConnStep

\* Dial, accept, relay, handshake, request and the end of each.
LEMMA StageStep ==
    ASSUME NInv, NEW c \in Conns,
           \/ StandardForward(c) \/ AcceptGuest(c) \/ HostDial(c) \/ RelayEnds(c)
           \/ Handshake(c) \/ Request(c) \/ ServedEnds(c) \/ ServeStep(c)
    PROVE  NInv'
<1> DEFINE n == cx[c]
<1>0. n \in ConnRecs /\ "relay" \in Stages /\ "peek" \in Stages /\ "served" \in Stages /\ TRUE \in Flags
      /\ "none" \in Serves /\ {"h2", "http1", "returned", "accepting"} \subseteq Serves
    BY Zenon, ConnFacts DEF Stages, Serves, Flags
<1>1. ASSUME n.st # "none", Shut(c) PROVE NInv'
    BY Zenon, <1>1, ShutStep
<1>2. ASSUME NEW r, Set(c, r), r \in ConnRecs, Advances(n, r) PROVE NInv'
    BY Zenon, <1>2, AdvanceStep
<1>3. CASE StandardForward(c)
    <2> DEFINE r == [n EXCEPT !.st = "relay", !.guest = TRUE, !.up = TRUE]
    <2>1. n.st = "dial" /\ (Shut(c) \/ Set(c, r))
        BY Zenon, <1>3 DEF StandardForward
    <2>2. Stage(r, n, "relay")
        BY Zenon, <1>0, ConnRecord
    <2> HIDE DEF r, n
    <2>3. Advances(n, r) /\ n.st # "none" /\ r \in ConnRecs
        BY Zenon, <2>1, <2>2 DEF Advances, Stage
    <2> QED BY Zenon, <1>1, <1>2, <2>1, <2>2, <2>3
<1>4. CASE AcceptGuest(c)
    <2> DEFINE r == [n EXCEPT !.st = "peek", !.guest = TRUE]
    <2>1. n.st = "accept" /\ (Shut(c) \/ Set(c, r))
        BY Zenon, <1>4 DEF AcceptGuest
    <2>2. Stage(r, n, "peek")
        BY Zenon, <1>0, ConnRecord
    <2> HIDE DEF r, n
    <2>3. Advances(n, r) /\ n.st # "none" /\ r \in ConnRecs
        BY Zenon, <2>1, <2>2 DEF Advances, Stage
    <2> QED BY Zenon, <1>1, <1>2, <2>1, <2>2, <2>3
<1>5. CASE HostDial(c)
    <2> DEFINE r == [n EXCEPT !.st = "relay", !.up = TRUE]
    <2>1. n.st = "hostdial" /\ (Shut(c) \/ Set(c, r))
        BY Zenon, <1>5 DEF HostDial
    <2>2. Stage(r, n, "relay")
        BY Zenon, <1>0, ConnRecord
    <2> HIDE DEF r, n
    <2>3. Advances(n, r) /\ n.st # "none" /\ r \in ConnRecs
        BY Zenon, <2>1, <2>2 DEF Advances, Stage
    <2> QED BY Zenon, <1>1, <1>2, <2>1, <2>2, <2>3
<1>6. CASE Handshake(c)
    <2>0. n.st = "cert" /\ (Shut(c) \/ \E serve \in {"h2", "http1"} : Set(c, [n EXCEPT !.st = "served", !.serve = serve]))
        BY Zenon, <1>6 DEF Handshake
    <2>1. ASSUME NEW serve \in {"h2", "http1"}, Set(c, [n EXCEPT !.st = "served", !.serve = serve]) PROVE NInv'
        <3> DEFINE r == [n EXCEPT !.st = "served", !.serve = serve]
        <3>1. serve \in Serves
            BY Zenon, <1>0
        <3>2. Stage(r, n, "served")
            BY Zenon, <1>0, <3>1, ConnRecord
        <3>3. Set(c, r)
            BY Zenon, <2>1
        <3> HIDE DEF r, n
        <3>4. Advances(n, r) /\ r \in ConnRecs
            BY Zenon, <2>0, <3>2 DEF Advances, Stage
        <3> QED BY Zenon, <1>2, <3>2, <3>3, <3>4
    <2>2. n.st # "none"
        BY Zenon, <2>0
    <2> QED BY Zenon, <1>1, <2>0, <2>1, <2>2
<1>7. CASE Request(c)
    <2>1. PICK up \in Flags : Set(c, [n EXCEPT !.up = up])
        BY Zenon, <1>7 DEF Request, Flags
    <2> DEFINE r == [n EXCEPT !.up = up]
    <2>2. Stage(r, n, n.st)
        BY Zenon, <1>0, ConnRecord
    <2>3. Set(c, r) /\ n.st = "served"
        BY Zenon, <1>7, <2>1 DEF Request
    <2> HIDE DEF r, n
    <2>4. Advances(n, r) /\ r \in ConnRecs
        BY Zenon, <2>2, <2>3 DEF Advances, Stage
    <2> QED BY Zenon, <1>2, <2>2, <2>3, <2>4
<1>8. CASE ServeStep(c)
    <2>1. PICK serve \in {"returned", "accepting"} : Set(c, [n EXCEPT !.serve = serve])
        BY Zenon, <1>8 DEF ServeStep
    <2> DEFINE r == [n EXCEPT !.serve = serve]
    <2>2. serve \in Serves
        BY Zenon, <1>0
    <2>3. Stage(r, n, n.st)
        BY Zenon, <1>0, <2>2, ConnRecord
    <2>4. Set(c, r)
        BY Zenon, <2>1
    <2>5. n.st # "none"
        BY Zenon, <1>0, <1>8, ConnFacts DEF ServeStep, Routed
    <2> HIDE DEF r, n
    <2>6. Advances(n, r) /\ r \in ConnRecs
        BY Zenon, <2>3, <2>5 DEF Advances, Stage
    <2> QED BY Zenon, <1>2, <2>3, <2>4, <2>6
<1>9. CASE RelayEnds(c) \/ ServedEnds(c)
    <2>1. n.st # "none" /\ Shut(c)
        BY Zenon, <1>9 DEF RelayEnds, ServedEnds
    <2> QED BY Zenon, <1>1, <2>1
<1> QED BY Zenon, <1>3, <1>4, <1>5, <1>6, <1>7, <1>8, <1>9

\* The record of a new connection.
Fresh(ip, port, st) == [[Unused EXCEPT !.ip = ip, !.port = port] EXCEPT !.st = st]
IsFresh(r, ip, port, st) ==
    r \in ConnRecs /\ r.st = st /\ r.ip = ip /\ r.port = port /\ r.host = <<>> /\ r.serve = "none"

\* Its fields.
LEMMA FreshRecord ==
    ASSUME NEW ip \in Addresses, NEW port \in Ports, NEW st \in Stages
    PROVE  IsFresh(Fresh(ip, port, st), ip, port, st)
<1> DEFINE m == [Unused EXCEPT !.ip = ip, !.port = port]
<1>1. m \in ConnRecs
    BY ZenonT(30), UnusedRecord DEF ConnRecs
<1>2. m.ip = ip /\ m.port = port /\ m.host = <<>> /\ m.serve = "none"
    BY Zenon, UnusedRecord DEF ConnRecs
<1> HIDE DEF m
<1>3. [m EXCEPT !.st = st] \in ConnRecs
    BY ZenonT(30), <1>1 DEF ConnRecs
<1>4. LET r == [m EXCEPT !.st = st]
      IN  r.st = st /\ r.ip = m.ip /\ r.port = m.port /\ r.host = m.host /\ r.serve = m.serve
    BY Zenon, <1>1 DEF ConnRecs
<1>5. Fresh(ip, port, st) = [m EXCEPT !.st = st]
    BY Zenon DEF Fresh, m
<1> QED BY Zenon, <1>2, <1>3, <1>4, <1>5 DEF IsFresh

\* decideTCPRoute: what is forwarded at once is listed and no secret can be meant by it.
LEMMA SynStep ==
    ASSUME NInv, NEW c \in Conns, NEW ip \in {"gateway", "guest", "linklocal", "listed", "other"},
           NEW port \in {22, 80, 443}, Syn(c, ip, port)
    PROVE  NInv'
<1> DEFINE to == Translated(ip)
           route == DecideTCPRoute(to, port)
<1>1. PICK st \in {"closed", "dial", "accept"} :
          /\ Set(c, Fresh(to, port, st))
          /\ st = "dial" => route = "forward"
          /\ st = "accept" => route \notin {"forward", "block"}
    BY Zenon DEF Syn, Fresh
<1>2. inst = "running" /\ Filtered /\ ProxyTypes
    BY Zenon DEF Syn, NInv, Filtered
<1>3. to \in Addresses /\ port \in Ports /\ st \in Stages
    BY DEF Translated, Addresses, Ports, Stages
<1>4. handler \in IF pcfg.allow # NoList \/ pcfg.secrets # {} THEN {"filter", "kept"} ELSE {"default"}
    BY Zenon, <1>2 DEF Filtered
<1>5. ASSUME route = "forward", handler # "kept"
      PROVE  ~(pcfg.secrets # {} /\ port = 443) /\ (pcfg.allow # NoList => MatchesIP(to))
    BY Zenon, <1>4, <1>5 DEF DecideTCPRoute
<1>6. ASSUME route \notin {"forward", "block"} PROVE port \in {80, 443}
    BY Zenon, <1>6 DEF DecideTCPRoute
<1> HIDE DEF to, route
<1> DEFINE r == Fresh(to, port, st)
<1>7. /\ r \in ConnRecs /\ r.st = st /\ r.ip = to /\ r.port = port /\ r.host = <<>> /\ r.serve = "none"
      /\ Set(c, r)
    <2>1. IsFresh(r, to, port, st)
        BY Zenon, <1>3, FreshRecord
    <2>2. Set(c, r)
        BY Zenon, <1>1
    <2> QED BY Zenon, <2>1, <2>2 DEF IsFresh
<1> HIDE DEF r
<1>8. Named(r.host) = {}
    BY ZenonT(30), <1>2, <1>7, NamelessHasNone
<1>9. Routed(r)
    <2>1. CASE st = "closed"
        BY Zenon, <1>7, <2>1 DEF Routed
    <2>2. CASE st = "dial"
        <3>1. handler # "kept" => ~(pcfg.secrets # {} /\ port = 443) /\ Listed(r)
            BY Zenon, <1>1, <1>5, <1>7, <2>2 DEF Listed
        <3> QED BY Zenon, <1>7, <1>8, <2>2, <3>1 DEF Routed
    <2>3. CASE st = "accept"
        BY Zenon, <1>1, <1>6, <1>7, <2>3 DEF Routed
    <2> QED BY Zenon, <2>1, <2>2, <2>3
<1>10. inst # "none"
    BY Zenon, <1>2
<1> QED BY Zenon, <1>7, <1>9, <1>10, ConnStep

\* The record of a connection whose host has been read.
IsKnown(r, n, asked, st) ==
    r \in ConnRecs /\ r.st = st /\ r.ip = n.ip /\ r.port = n.port /\ r.host = asked
Carries(r, secrets) == r.subst = secrets

\* Its fields.
LEMMA HostRecord ==
    ASSUME NEW n \in ConnRecs, NEW asked \in Hosts, NEW st \in Stages, NEW secrets \in SUBSET Secrets, NEW b \in Flags
    PROVE  /\ IsKnown([[n EXCEPT !.host = asked] EXCEPT !.st = st, !.subst = secrets], n, asked, st)
           /\ Carries([[n EXCEPT !.host = asked] EXCEPT !.st = st, !.subst = secrets], secrets)
           /\ IsKnown([[n EXCEPT !.host = asked] EXCEPT !.st = st, !.guest = b], n, asked, st)
           /\ IsKnown([[n EXCEPT !.host = asked] EXCEPT !.st = st], n, asked, st)
<1> DEFINE m == [n EXCEPT !.host = asked]
<1>1. m \in ConnRecs /\ m.ip = n.ip /\ m.port = n.port /\ m.host = asked
    BY Zenon DEF ConnRecs
<1> HIDE DEF m
<1>2. /\ [m EXCEPT !.st = st, !.subst = secrets] \in ConnRecs
      /\ [m EXCEPT !.st = st, !.guest = b] \in ConnRecs
      /\ [m EXCEPT !.st = st] \in ConnRecs
    BY ZenonT(30), <1>1 DEF ConnRecs
<1>3. LET r == [m EXCEPT !.st = st, !.subst = secrets]
      IN  r.st = st /\ r.ip = m.ip /\ r.port = m.port /\ r.host = m.host /\ r.subst = secrets
    BY Zenon, <1>1 DEF ConnRecs
<1>4. LET r == [m EXCEPT !.st = st, !.guest = b]
      IN  r.st = st /\ r.ip = m.ip /\ r.port = m.port /\ r.host = m.host
    BY Zenon, <1>1 DEF ConnRecs
<1>5. LET r == [m EXCEPT !.st = st]
      IN  r.st = st /\ r.ip = m.ip /\ r.port = m.port /\ r.host = m.host
    BY Zenon, <1>1 DEF ConnRecs
<1>6. /\ IsKnown([m EXCEPT !.st = st, !.subst = secrets], n, asked, st)
      /\ Carries([m EXCEPT !.st = st, !.subst = secrets], secrets)
      /\ IsKnown([m EXCEPT !.st = st, !.guest = b], n, asked, st) /\ IsKnown([m EXCEPT !.st = st], n, asked, st)
    BY Zenon, <1>1, <1>2, <1>3, <1>4, <1>5 DEF IsKnown, Carries
<1> QED BY Zenon, <1>6 DEF m

\* inspectAndForward: a secret's host is opened for substitution, another goes on if it is listed.
LEMMA PeekStep ==
    ASSUME NInv, NEW c \in Conns, NEW asked \in HostNames \cup {<<>>}, Peek(c, asked) PROVE NInv'
<1> DEFINE n == cx[c]
           secrets == IF n.port = 443 /\ asked # <<>> THEN SecretsForHost(asked) ELSE {}
           named == [n EXCEPT !.host = asked]
<1>1. n \in ConnRecs /\ Routed(n) /\ ProxyTypes /\ n.st = "peek"
    BY Zenon, ConnFacts DEF Peek
<1>2. asked \in Hosts
    <2>1. HostNames \subseteq Hosts
        BY Zenon, ProxyAssumption DEF Hosts
    <2>2. <<>> \in Hosts
        BY SMTT(20) DEF Hosts
    <2> QED BY Zenon, <2>1, <2>2
<1>3. n.port \in {80, 443} /\ inst # "none"
    BY <1>1, ConnFacts DEF Routed
<1>4. secrets \in SUBSET Secrets /\ (n.port = 443 => secrets = Named(asked))
    <2>1. SecretsForHost(asked) = Named(asked) /\ Named(<<>>) = {}
        BY Zenon, <1>1, <1>2, SecretsNamed, NamelessHasNone
    <2>2. SecretsForHost(asked) \subseteq Secrets
        BY Zenon, <1>1 DEF SecretsForHost, ProxyTypes
    <2> QED BY Zenon, <2>1, <2>2
<1>5. \/ secrets # {} /\ Set(c, [named EXCEPT !.st = "cert", !.subst = secrets])
      \/ Set(c, [named EXCEPT !.st = "closed", !.guest = FALSE])
      \/ /\ secrets = {} /\ (pcfg.allow # NoList => MatchesHostname(asked))
         /\ Set(c, [named EXCEPT !.st = "hostdial"])
    BY Zenon DEF Peek
<1>6. secrets # {} => n.port = 443
    BY Zenon
<1>7. "cert" \in Stages /\ "closed" \in Stages /\ "hostdial" \in Stages /\ FALSE \in Flags
    BY Zenon DEF Stages, Flags
<1> HIDE DEF n, secrets
<1>8. ASSUME secrets # {}, Set(c, [named EXCEPT !.st = "cert", !.subst = secrets]) PROVE NInv'
    <2> DEFINE r == [named EXCEPT !.st = "cert", !.subst = secrets]
    <2>1. r \in ConnRecs /\ r.st = "cert" /\ r.port = n.port /\ r.host = asked /\ r.subst = secrets
        <3>1. IsKnown(r, n, asked, "cert")
            BY Zenon, <1>1, <1>2, <1>4, <1>7, HostRecord
        <3>2. Carries(r, secrets)
            BY Zenon, <1>1, <1>2, <1>4, <1>7, HostRecord
        <3> QED BY Zenon, <3>1, <3>2 DEF IsKnown, Carries
    <2>2. Set(c, r)
        BY Zenon, <1>8
    <2> HIDE DEF r
    <2>3. Routed(r)
        BY <1>4, <1>6, <1>8, <2>1 DEF Routed
    <2> QED BY Zenon, <1>3, <2>1, <2>2, <2>3, ConnStep
<1>9. ASSUME Set(c, [named EXCEPT !.st = "closed", !.guest = FALSE]) PROVE NInv'
    <2> DEFINE r == [named EXCEPT !.st = "closed", !.guest = FALSE]
    <2>1. r \in ConnRecs /\ r.st = "closed"
        <3>1. \A b \in Flags : IsKnown([named EXCEPT !.st = "closed", !.guest = b], n, asked, "closed")
            BY ZenonT(30), <1>1, <1>2, <1>4, <1>7, HostRecord
        <3>2. IsKnown(r, n, asked, "closed")
            BY Zenon, <1>7, <3>1
        <3> QED BY Zenon, <3>2 DEF IsKnown
    <2>2. Set(c, r)
        BY Zenon, <1>9
    <2> HIDE DEF r
    <2>3. Routed(r)
        BY Zenon, <2>1 DEF Routed
    <2>4. inst # "none" /\ r \in ConnRecs
        BY Zenon, <1>3, <2>1
    <2> QED BY Zenon, <2>2, <2>3, <2>4, ConnStep
<1>10. ASSUME secrets = {}, pcfg.allow # NoList => MatchesHostname(asked), Set(c, [named EXCEPT !.st = "hostdial"])
       PROVE  NInv'
    <2> DEFINE r == [named EXCEPT !.st = "hostdial"]
    <2>1. r \in ConnRecs /\ r.st = "hostdial" /\ r.port = n.port /\ r.host = asked
        <3>1. IsKnown(r, n, asked, "hostdial")
            BY Zenon, <1>1, <1>2, <1>4, <1>7, HostRecord
        <3> QED BY Zenon, <3>1 DEF IsKnown
    <2>2. Set(c, r)
        BY Zenon, <1>10
    <2> HIDE DEF r
    <2>3. Listed(r) /\ (r.port = 443 => Named(r.host) = {})
        BY <1>3, <1>4, <1>10, <2>1 DEF Listed
    <2>4. Routed(r)
        BY Zenon, <2>1, <2>3 DEF Routed
    <2> QED BY Zenon, <1>3, <2>1, <2>2, <2>4, ConnStep
<1> QED BY Zenon, <1>5, <1>8, <1>9, <1>10

\* NInv has what the proxy promises.
LEMMA NInvSays == NInv => NetAsConfigured
<1> SUFFICES ASSUME NInv PROVE NetAsConfigured
    BY Zenon
<1>1. ASSUME NEW c \in Conns
      PROVE  /\ handler # "kept" /\ cx[c].st \in {"dial", "hostdial", "relay"} =>
                  /\ cx[c].port = 443 => Named(cx[c].host) = {}
                  /\ pcfg.secrets # {} /\ cx[c].port = 443 => cx[c].st # "dial"
                  /\ pcfg.allow # NoList => MatchesIP(cx[c].ip) \/ (cx[c].port # 22 /\ MatchesHostname(cx[c].host))
             /\ cx[c].st \in {"cert", "served"} => cx[c].port = 443 /\ cx[c].subst = Named(cx[c].host)
    BY ConnFacts DEF Routed, Listed
<1>2. Answered
    BY Zenon DEF NInv
<1> QED BY Zenon, <1>1, <1>2 DEF NetAsConfigured, Answered, Named

\* Unless OverrideTCPHandler failed, with an allow list a TCP connection of the guest reaches only
\* addresses and hosts of it, or a secret's host with the substitution, and HTTPS to a secret's host
\* is never relayed without it; in any case what is substituted is the secrets of that host, and a
\* name outside the list resolves to nothing, for any rules, secrets, number of connections and
\* order of the zones (forked_tcp.go, tcp_filter.go, mitm.go, dns_filter.go).
THEOREM NetworksAsConfigured == Spec => []NetAsConfigured
<1>1. NInv /\ [Next]_proxyVars => NInv'
    <2> SUFFICES ASSUME NInv, [Next]_proxyVars PROVE NInv'
        BY Zenon
    <2>1. ASSUME NEW c \in Conns, ConnNext(c) PROVE NInv'
        <3>1. CASE \E ip \in {"gateway", "guest", "linklocal", "listed", "other"},
                      port \in {22, 80, 443} : Syn(c, ip, port)
            <4>1. PICK ip \in {"gateway", "guest", "linklocal", "listed", "other"},
                       port \in {22, 80, 443} : Syn(c, ip, port)
                BY Zenon, <3>1
            <4> QED BY SMTT(20), <4>1, SynStep
        <3>2. CASE \E asked \in HostNames \cup {<<>>} : Peek(c, asked)
            BY Zenon, <3>2, PeekStep
        <3>3. CASE \/ StandardForward(c) \/ AcceptGuest(c) \/ HostDial(c) \/ RelayEnds(c)
                   \/ Handshake(c) \/ Request(c) \/ ServedEnds(c) \/ ServeStep(c)
            BY Zenon, <3>3, StageStep
        <3> QED BY Zenon, <2>1, <3>1, <3>2, <3>3 DEF ConnNext
    <2>2. CASE UNCHANGED proxyVars
        <3>1. UNCHANGED <<pcfg, cx, answer, inst, link, handler>> /\ Filtered
            BY Zenon, <2>2 DEF proxyVars, NInv
        <3>2. Filtered'
            BY Zenon, <3>1 DEF Filtered
        <3> QED BY Zenon, <3>1, <3>2, InstanceStep
    <2>3. CASE Create \/ Override \/ CreateFails \/ NewNetwork \/ VmConnects \/ Accept \/ Destroy \/ Cleanup
        BY Zenon, <2>3, CreateStep, OverrideStep, OtherInstanceStep
    <2> QED BY Zenon, <2>1, <2>2, <2>3, LookupStep DEF Next
<1> QED BY <1>1, NInit, NInvSays, PTL DEF Spec

=============================================================================
