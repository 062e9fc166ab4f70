-------------------------- MODULE DataPartsProofs ---------------------------
(***************************************************************************)
(* A flattened disk reads as its chain, disk images count their clusters   *)
(* exactly, and a filter lets through what its list names, with an         *)
(* inductive invariant for each of the two components.                     *)
(***************************************************************************)
EXTENDS DataParts, FiniteSetTheorems, WellFoundedInduction, TLAPS

-----------------------------------------------------------------------------
(* Disk images (bux-qcow2).                                                *)

\* The quotient of a division, rounded down.
LEMMA Quotient ==
    ASSUME NEW a \in Nat, NEW b \in Nat \ {0}
    PROVE  a \div b \in Nat /\ b * (a \div b) <= a /\ a < b * (a \div b) + b
OBVIOUS

\* Multiplication keeps an order.
LEMMA Growing ==
    ASSUME NEW a \in Nat, NEW b \in Nat, NEW c \in Nat, a <= b
    PROVE  c * a <= c * b
OBVIOUS

\* div_ceil is the quotient rounded up.
LEMMA Ceiling ==
    ASSUME NEW a \in Nat, NEW b \in Nat \ {0}
    PROVE  Q!DivCeil(a, b) \in Nat /\ a <= b * Q!DivCeil(a, b) /\ b * Q!DivCeil(a, b) < a + b
<1>1. a + b - 1 \in Nat
    OBVIOUS
<1> DEFINE q == (a + b - 1) \div b
<1>2. q \in Nat /\ b * q <= a + b - 1 /\ a + b - 1 < b * q + b
    BY <1>1, Quotient
<1> HIDE DEF q
<1>3. b * q \in Nat
    BY <1>2
<1>4. a <= b * q /\ b * q < a + b
    BY <1>2, <1>3
<1> QED BY Zenon, <1>2, <1>4 DEF Q!DivCeil, q

\* It is the least such number.
LEMMA CeilingLeast ==
    ASSUME NEW a \in Nat, NEW b \in Nat \ {0}, NEW k \in Nat, a <= b * k
    PROVE  Q!DivCeil(a, b) <= k
<1> DEFINE q == Q!DivCeil(a, b)
<1>1. q \in Nat /\ b * q < a + b
    BY Zenon, Ceiling
<1> HIDE DEF q
<1>2. SUFFICES ASSUME k + 1 <= q PROVE FALSE
    BY <1>1 DEF q
<1>3. b * (k + 1) <= b * q
    BY <1>1, <1>2, Growing
<1>4. b * (k + 1) = b * k + b
    OBVIOUS
<1>5. b * k \in Nat /\ b * q \in Nat
    BY <1>1
<1> QED BY <1>1, <1>3, <1>4, <1>5

\* A cluster of the disk has an entry in one of the div_ceil(a, b) tables.
LEMMA QuotientBelow ==
    ASSUME NEW a \in Nat, NEW b \in Nat \ {0}, NEW c \in Nat, c < a
    PROVE  c \div b \in 0 .. Q!DivCeil(a, b) - 1
<1> DEFINE q == c \div b
           d == Q!DivCeil(a, b)
<1>1. q \in Nat /\ b * q <= c /\ d \in Nat /\ a <= b * d
    BY Zenon, Quotient, Ceiling
<1> HIDE DEF q, d
<1>2. SUFFICES ASSUME d <= q PROVE FALSE
    BY <1>1 DEF q, d
<1>3. b * d <= b * q
    BY <1>1, <1>2, Growing
<1>4. b * d \in Nat /\ b * q \in Nat
    BY <1>1
<1> QED BY <1>1, <1>3, <1>4

\* A cluster holds at least one table entry and four refcounts.
LEMMA Entries == Q!TableEntries \in Nat \ {0} /\ Q!RcEntries \in Nat /\ Q!RcEntries >= 4 /\ Q!TableEntries * 8 <= ClusterSize
BY Qcow2Assumption DEF Q!TableEntries, Q!RcEntries

\* The number of elements, as Qcow2 counts them.
LEMMA SameCount == \A s : Q!Cardinality(s) = Cardinality(s)
BY Zenon DEF Cardinality, IsFiniteSet, Q!Cardinality, Q!IsFiniteSet

\* A set of numbers has a least one.
LEMMA LeastNumber ==
    ASSUME NEW T, T \subseteq Nat, T # {}
    PROVE  \E x \in T : \A y \in T : x <= y
<1> DEFINE Less == OpToRel(<, Nat)
<1>1. \E x \in T : \A y \in T : ~ (<<y, x>> \in Less)
    BY NatLessThanWellFounded, WFMin, Zenon
<1>2. \A x, y \in Nat : y < x => <<y, x>> \in Less
    <2> SUFFICES ASSUME NEW x \in Nat, NEW y \in Nat, y < x PROVE <<y, x>> \in {ss \in Nat \X Nat : ss[1] < ss[2]}
        BY Zenon DEF OpToRel
    <2> QED OBVIOUS
<1> HIDE DEF Less
<1>3. PICK x \in T : \A y \in T : ~ (<<y, x>> \in Less)
    BY Zenon, <1>1
<1>4. x \in Nat /\ \A y \in T : y \in Nat /\ ~ (y < x)
    BY Zenon, <1>2, <1>3
<1>5. \A y \in T : x <= y
    BY <1>4
<1> QED BY Zenon, <1>5

\* The refcount blocks that flatten settles on count everything before them and themselves.
LEMMA RcBlocksCover ==
    ASSUME NEW start \in Nat \ {0}
    PROVE  Q!RcBlocks(start) \in 1 .. start /\ start + Q!RcBlocks(start) <= Q!RcBlocks(start) * Q!RcEntries
<1> DEFINE Enough(b) == Q!DivCeil(start + b, Q!RcEntries) <= b
           T == {b \in 1 .. start : Enough(b)}
<1>1. Q!RcEntries \in Nat \ {0} /\ Q!RcEntries >= 4
    BY Entries
<1>2. start \in T
    <2>1. start + start <= Q!RcEntries * start
        <3>1. 4 * start <= Q!RcEntries * start
            BY <1>1
        <3>2. Q!RcEntries * start \in Nat
            BY <1>1
        <3> QED BY <3>1, <3>2
    <2>2. Enough(start)
        BY <1>1, <2>1, CeilingLeast
    <2> QED BY <2>2
<1>3. T \subseteq Nat
    OBVIOUS
<1>4. PICK b \in T : \A y \in T : b <= y
    <2> HIDE DEF T
    <2> QED BY Zenon, <1>2, <1>3, LeastNumber
<1>5. \A k \in 1 .. b - 1 : Q!DivCeil(start + k, Q!RcEntries) > k
    <2> SUFFICES ASSUME NEW k \in 1 .. b - 1 PROVE Q!DivCeil(start + k, Q!RcEntries) > k
        OBVIOUS
    <2>1. k \in 1 .. start /\ k \in Nat /\ start + k \in Nat /\ ~ (b <= k)
        BY <1>4
    <2>2. Q!DivCeil(start + k, Q!RcEntries) \in Nat
        BY Zenon, <1>1, <2>1, Ceiling
    <2>3. ~ (Q!DivCeil(start + k, Q!RcEntries) <= k)
        BY Zenon, <1>4, <2>1
    <2> QED BY <2>1, <2>2, <2>3
<1> DEFINE r == Q!RcBlocks(start)
<1>6. r \in 1 .. start /\ Q!DivCeil(start + r, Q!RcEntries) <= r
    BY Zenon, <1>4, <1>5 DEF Q!RcBlocks
<1> HIDE DEF r
<1> DEFINE d == Q!DivCeil(start + r, Q!RcEntries)
<1>7. d \in Nat /\ start + r <= Q!RcEntries * d
    <2>1. start + r \in Nat
        BY <1>6
    <2> QED BY Zenon, <1>1, <2>1, Ceiling
<1> HIDE DEF d
<1>8. Q!RcEntries * d <= Q!RcEntries * r
    BY <1>1, <1>6, <1>7, Growing DEF d
<1>9. start + r <= r * Q!RcEntries
    BY <1>1, <1>6, <1>7, <1>8
<1> QED BY Zenon, <1>6, <1>9 DEF r

\* The L2 tables that have an entry.
Filled == {i \in 0 .. Q!NumL1 - 1 : \E c \in DOMAIN image.l2 : c \div Q!TableEntries = i}

\* A chain of an overlay with table top over a raw base of m clusters.
Form(ch, m, top) ==
    /\ DOMAIN ch = {1, 2} /\ Head(ch) = ch[1]
    /\ ch[1] = Q!Layer("qcow2", MaxClusters, top)
    /\ ch[2] = Q!Layer("raw", m, [c \in 0 .. m - 1 |-> c % 2])

\* Every chain has this form.
LEMMA ChainForm ==
    ASSUME NEW ch \in Q!Chains
    PROVE  \E m \in {0, MaxClusters - 2, MaxClusters}, top \in [Q!Disk -> {Q!None, Q!ZeroFlag, 0, 2}] : Form(ch, m, top)
<1>1. PICK m \in {0, MaxClusters - 2, MaxClusters}, top \in [Q!Disk -> {Q!None, Q!ZeroFlag, 0, 2}] :
        ch = <<Q!Layer("qcow2", MaxClusters, top), Q!Layer("raw", m, [c \in 0 .. m - 1 |-> c % 2])>>
    BY Zenon DEF Q!Chains
<1> DEFINE l == Q!Layer("qcow2", MaxClusters, top)
           b == Q!Layer("raw", m, [c \in 0 .. m - 1 |-> c % 2])
<1> HIDE DEF l, b
<1>2. ch = <<l, b>>
    BY Zenon, <1>1 DEF l, b
<1>3. DOMAIN ch = {1, 2} /\ ch[1] = l /\ ch[2] = b /\ Head(ch) = l
    BY <1>2
<1> QED BY Zenon, <1>2, <1>3 DEF Form, l, b

\* Reading a cluster of a layer, and what the guest finds there.
LEMMA LayersRead ==
    ASSUME NEW ch \in Q!Chains, NEW c \in 0 .. Head(ch).size - 1, Head(ch).table[c] # Q!ZeroFlag
    PROVE  /\ DOMAIN ch = {1, 2}
           /\ \A i \in {1, 2} : Q!ReadCluster(ch[i], c) # Q!None <=> c < ch[i].size /\ ch[i].table[c] # Q!None
           /\ \A i \in {1, 2} : Q!ReadCluster(ch[i], c) # Q!None =>
                    ch[i].table[c] \in Nat /\ Q!ReadCluster(ch[i], c) = ch[i].table[c]
<1>1. PICK m \in {0, MaxClusters - 2, MaxClusters}, top \in [Q!Disk -> {Q!None, Q!ZeroFlag, 0, 2}] : Form(ch, m, top)
    BY Zenon, ChainForm
<1>2. DOMAIN ch = {1, 2} /\ ch[1] = Q!Layer("qcow2", MaxClusters, top)
        /\ ch[2] = Q!Layer("raw", m, [b \in 0 .. m - 1 |-> b % 2]) /\ Head(ch) = ch[1]
    BY Zenon, <1>1 DEF Form
<1>3. ch[1].size = MaxClusters /\ ch[1].table = top /\ ch[2].size = m /\ ch[2].table = [b \in 0 .. m - 1 |-> b % 2]
    BY <1>2 DEF Q!Layer
<1>4. c \in Q!Disk /\ c \in Int /\ c < MaxClusters /\ m \in Int
    BY <1>2, <1>3, Qcow2Assumption DEF Q!Disk
<1>5. top[c] \in {-2, 0, 2}
    <2>1. top[c] \in {Q!None, Q!ZeroFlag, 0, 2} /\ top[c] # Q!ZeroFlag
        BY Zenon, <1>1, <1>2, <1>3, <1>4
    <2> QED BY <2>1 DEF Q!None, Q!ZeroFlag
<1>6. /\ Q!ReadCluster(ch[1], c) # Q!None <=> c < ch[1].size /\ ch[1].table[c] # Q!None
      /\ Q!ReadCluster(ch[1], c) # Q!None => ch[1].table[c] \in Nat /\ Q!ReadCluster(ch[1], c) = ch[1].table[c]
    BY <1>3, <1>4, <1>5, Qcow2Assumption DEF Q!ReadCluster, Q!None
<1>7. c < m => ch[2].table[c] \in {0, 1}
    BY <1>3, <1>4
<1>8. /\ Q!ReadCluster(ch[2], c) # Q!None <=> c < ch[2].size /\ ch[2].table[c] # Q!None
      /\ Q!ReadCluster(ch[2], c) # Q!None => ch[2].table[c] \in Nat /\ Q!ReadCluster(ch[2], c) = ch[2].table[c]
    BY <1>3, <1>4, <1>7 DEF Q!ReadCluster, Q!None
<1> QED BY Zenon, <1>2, <1>6, <1>8

\* The reader finds what the guest finds, unless the top has the zero flag there.
LEMMA SameRead ==
    ASSUME NEW ch \in Q!Chains, NEW c \in 0 .. Head(ch).size - 1, Head(ch).table[c] # Q!ZeroFlag
    PROVE  Q!ReadChain(ch, c) = Q!GuestRead(ch, c)
<1> DEFINE H == {i \in DOMAIN ch : Q!ReadCluster(ch[i], c) # Q!None}
           K == {i \in DOMAIN ch : c < ch[i].size /\ ch[i].table[c] # Q!None}
<1>1. H = K /\ H \subseteq {1, 2}
    BY Zenon, LayersRead
<1>2. {1, 2} \subseteq Nat
    OBVIOUS
<1>3. CASE H = {}
    BY Zenon, <1>1, <1>3 DEF Q!ReadChain, Q!GuestRead
<1>4. CASE H # {}
    <2>1. Q!Min(H) \in H
        <3> HIDE DEF H
        <3>1. H \subseteq Nat
            BY Zenon, <1>1, <1>2
        <3>2. \E x \in H : \A y \in H : x <= y
            BY Zenon, <1>4, <3>1, LeastNumber
        <3> QED BY Zenon, <3>2 DEF Q!Min
    <2> DEFINE j == Q!Min(H)
               v == ch[j].table[c]
    <2>2. j \in {1, 2} /\ Q!ReadCluster(ch[j], c) # Q!None
        BY Zenon, <1>1, <2>1
    <2>3. v \in Nat /\ Q!ReadCluster(ch[j], c) = v
        BY Zenon, <2>2, LayersRead
    <2>4. Q!Max({0, v}) = v
        <3> HIDE DEF v
        <3> QED BY <2>3 DEF Q!Max
    <2>5. Q!ReadChain(ch, c) = v
        BY Zenon, <1>4, <2>3 DEF Q!ReadChain
    <2>6. Q!GuestRead(ch, c) = Q!Max({0, v})
        BY Zenon, <1>1, <1>4 DEF Q!GuestRead
    <2> QED BY Zenon, <2>4, <2>5, <2>6
<1> QED BY Zenon, <1>3, <1>4

\* The output is a record of these fields.
ImageFields ==
    image = [l2 |-> image.l2, data |-> image.data, l1 |-> image.l1, rctable |-> image.rctable,
             blocks |-> image.blocks, used |-> image.used]

\* What flatten has copied so far.
Copied ==
    /\ chain \in Q!Chains /\ vc \in 0 .. Q!VirtualSize /\ next \in Nat /\ Q!DataStart <= next
    /\ DOMAIN image.l2 = {c \in 0 .. vc - 1 : Q!ReadChain(chain, c) # 0}
    /\ DOMAIN image.data = Q!DataStart .. next - 1
    /\ \A c \in DOMAIN image.l2 :
          image.l2[c] \in DOMAIN image.data /\ image.data[image.l2[c]] = Q!ReadChain(chain, c)
    /\ \A c, d \in DOMAIN image.l2 : image.l2[c] = image.l2[d] => c = d
    /\ \A x \in DOMAIN image.data : \E c \in DOMAIN image.l2 : image.l2[c] = x

\* The inductive invariant.
QInv ==
    /\ ImageFields
    /\ qpc \in {"copy", "done"} => Copied
    /\ Q!FlattenPreserves /\ Q!RefcountsExact

\* The virtual disk is as large as the overlay says.
LEMMA TopSize ==
    ASSUME NEW ch \in Q!Chains
    PROVE  Head(ch).size = MaxClusters
<1>1. PICK m \in {0, MaxClusters - 2, MaxClusters}, top \in [Q!Disk -> {Q!None, Q!ZeroFlag, 0, 2}] : Form(ch, m, top)
    BY Zenon, ChainForm
<1> QED BY <1>1 DEF Form, Q!Layer

\* Entries of the L1 table, and the clusters it takes.
L1Entries == Q!DivCeil(MaxClusters, Q!TableEntries)

\* Clusters of the L1 table.
L1Size == Q!DivCeil(L1Entries * 8, ClusterSize)

\* Both are numbers.
LEMMA TableSizes == L1Entries \in Nat /\ L1Size \in Nat
<1>1. L1Entries \in Nat
    BY Zenon, Qcow2Assumption, Entries, Ceiling DEF L1Entries
<1>2. L1Entries * 8 \in Nat /\ ClusterSize \in Nat \ {0}
    BY <1>1, Qcow2Assumption
<1> QED BY Zenon, <1>1, <1>2, Ceiling DEF L1Size

\* The layout of the output.
LEMMA Sizes ==
    ASSUME chain \in Q!Chains
    PROVE  /\ Q!VirtualSize = MaxClusters /\ Q!NumL1 = L1Entries /\ Q!L1Clusters = L1Size
           /\ Q!L2Start = 1 + L1Size /\ Q!DataStart = 1 + L1Size + L1Entries
BY Zenon, TopSize DEF Q!VirtualSize, Q!NumL1, Q!L1Clusters, Q!L2Start, Q!DataStart, L1Entries, L1Size

\* open_chain: nothing is copied yet.
LEMMA OpenChainStep ==
    ASSUME QInv, Q!OpenChain
    PROVE  QInv'
<1>1. chain' \in Q!Chains /\ qpc' = "copy" /\ vc' = 0 /\ next' = Q!DataStart' /\ image' = Q!Blank
    BY Zenon DEF Q!OpenChain
<1>2. Q!DataStart' = 1 + L1Size + L1Entries /\ Q!VirtualSize' = MaxClusters
    BY Zenon, <1>1, TopSize DEF Q!VirtualSize, Q!NumL1, Q!L1Clusters, Q!L2Start, Q!DataStart, L1Entries, L1Size
<1>3. Q!DataStart' \in Nat /\ Q!DataStart' <= next' /\ vc' \in 0 .. Q!VirtualSize' /\ next' \in Nat /\ 0 .. vc' - 1 = {} /\ Q!DataStart' .. next' - 1 = {}
    BY <1>1, <1>2, TableSizes, Qcow2Assumption
<1>4. image'.l2 = <<>> /\ image'.data = <<>> /\ ImageFields'
    BY <1>1 DEF Q!Blank, ImageFields
<1>5. DOMAIN <<>> = {}
    OBVIOUS
<1>6. Copied'
    BY Zenon, <1>1, <1>3, <1>4, <1>5 DEF Copied
<1>7. Q!FlattenPreserves' /\ Q!RefcountsExact'
    BY <1>1 DEF Q!FlattenPreserves, Q!RefcountsExact
<1> QED BY Zenon, <1>4, <1>6, <1>7 DEF QInv

\* A turn of the copy loop copies a cluster that is not zero to the next free place.
LEMMA CopyClusterStep ==
    ASSUME QInv, Q!CopyCluster
    PROVE  QInv'
<1> DEFINE d == Q!ReadChain(chain, vc)
<1>1. qpc = "copy" /\ vc < Q!VirtualSize /\ vc' = vc + 1 /\ UNCHANGED <<chain, qpc>>
    BY Zenon DEF Q!CopyCluster
<1>2. Copied /\ ImageFields
    BY <1>1 DEF QInv
<1>3. Q!VirtualSize' = Q!VirtualSize /\ Q!DataStart' = Q!DataStart
    BY Zenon, <1>1 DEF Q!VirtualSize, Q!NumL1, Q!L1Clusters, Q!L2Start, Q!DataStart
<1>4. Q!VirtualSize \in Nat /\ Q!DataStart \in Nat /\ vc \in Nat /\ next \in Nat /\ Q!DataStart <= next
    BY <1>2, Sizes, TableSizes, Qcow2Assumption DEF Copied
<1>5. /\ vc' \in 0 .. Q!VirtualSize' /\ vc \notin 0 .. vc - 1 /\ 0 .. vc' - 1 = (0 .. vc - 1) \cup {vc}
      /\ Q!DataStart .. (next + 1) - 1 = (Q!DataStart .. next - 1) \cup {next} /\ next \notin Q!DataStart .. next - 1
    BY <1>1, <1>3, <1>4
<1>6. Q!FlattenPreserves' /\ Q!RefcountsExact'
    BY <1>1 DEF Q!FlattenPreserves, Q!RefcountsExact
<1>7. CASE d = 0
    <2>1. UNCHANGED <<next, image>>
        BY Zenon, <1>7 DEF Q!CopyCluster
    <2>2. {c \in 0 .. vc' - 1 : Q!ReadChain(chain, c) # 0} = {c \in 0 .. vc - 1 : Q!ReadChain(chain, c) # 0}
        BY Zenon, <1>5, <1>7
    <2>3. Copied'
        BY Zenon, <1>1, <1>2, <1>3, <1>5, <2>1, <2>2 DEF Copied
    <2> QED BY Zenon, <1>2, <1>6, <2>1, <2>3 DEF QInv, ImageFields
<1>8. CASE d # 0
    <2> DEFINE l == image.l2
               a == image.data
    <2>1. /\ next' = next + 1
          /\ image' = [image EXCEPT
                 !.l2 = [c \in DOMAIN @ \cup {vc} |-> IF c = vc THEN next ELSE @[c]],
                 !.data = [c \in DOMAIN @ \cup {next} |-> IF c = next THEN d ELSE @[c]]]
        BY Zenon, <1>8 DEF Q!CopyCluster
    <2>2. /\ image'.l2 = [c \in DOMAIN l \cup {vc} |-> IF c = vc THEN next ELSE l[c]]
          /\ image'.data = [c \in DOMAIN a \cup {next} |-> IF c = next THEN d ELSE a[c]]
          /\ ImageFields'
        BY Zenon, <1>2, <2>1 DEF ImageFields
    <2> DEFINE m == image'.l2
               e == image'.data
    <2>3. DOMAIN m = DOMAIN l \cup {vc} /\ m[vc] = next /\ vc \notin DOMAIN l /\ \A c \in DOMAIN l : m[c] = l[c]
        BY Zenon, <1>2, <1>5, <2>2 DEF Copied
    <2>4. DOMAIN e = DOMAIN a \cup {next} /\ e[next] = d /\ next \notin DOMAIN a /\ \A c \in DOMAIN a : e[c] = a[c]
        BY Zenon, <1>2, <1>5, <2>2 DEF Copied
    <2> HIDE DEF m, e
    <2>5. DOMAIN m = {c \in 0 .. vc' - 1 : Q!ReadChain(chain, c) # 0}
        BY Zenon, <1>2, <1>5, <1>8, <2>3 DEF Copied
    <2>6. DOMAIN e = Q!DataStart .. next' - 1
        BY Zenon, <1>2, <1>5, <2>1, <2>4 DEF Copied
    <2>7. \A c \in DOMAIN m : m[c] \in DOMAIN e /\ e[m[c]] = Q!ReadChain(chain, c)
        <3> SUFFICES ASSUME NEW c \in DOMAIN m PROVE m[c] \in DOMAIN e /\ e[m[c]] = Q!ReadChain(chain, c)
            BY Zenon
        <3>1. CASE c = vc
            BY Zenon, <2>3, <2>4, <3>1
        <3>2. CASE c # vc
            BY Zenon, <1>2, <2>3, <2>4, <3>2 DEF Copied
        <3> QED BY Zenon, <3>1, <3>2
    <2>8. \A b, c \in DOMAIN m : m[b] = m[c] => b = c
        BY Zenon, <1>2, <2>3, <2>4 DEF Copied
    <2>9. \A x \in DOMAIN e : \E c \in DOMAIN m : m[c] = x
        BY Zenon, <1>2, <2>3, <2>4 DEF Copied
    <2>10. next' \in Nat /\ Q!DataStart <= next'
        BY <1>4, <2>1
    <2>11. Copied'
        BY Zenon, <1>1, <1>2, <1>3, <1>5, <2>5, <2>6, <2>7, <2>8, <2>9, <2>10 DEF Copied, m, e
    <2> QED BY Zenon, <1>6, <2>2, <2>11 DEF QInv
<1> QED BY Zenon, <1>7, <1>8

\* Six disjoint parts of an image.
LEMMA SixParts ==
    ASSUME NEW a, NEW b, NEW c, NEW d, NEW e, NEW f, NEW parts, parts = <<a, b, c, d, e, f>>,
           a \cap b = {}, a \cap c = {}, a \cap d = {}, a \cap e = {}, a \cap f = {},
           b \cap c = {}, b \cap d = {}, b \cap e = {}, b \cap f = {},
           c \cap d = {}, c \cap e = {}, c \cap f = {},
           d \cap e = {}, d \cap f = {}, e \cap f = {}
    PROVE  /\ UNION {parts[i] : i \in DOMAIN parts} = a \cup b \cup c \cup d \cup e \cup f
           /\ \A i, j \in DOMAIN parts : i # j => parts[i] \cap parts[j] = {}
<1>1. /\ DOMAIN parts = {1, 2, 3, 4, 5, 6}
      /\ parts[1] = a /\ parts[2] = b /\ parts[3] = c /\ parts[4] = d /\ parts[5] = e /\ parts[6] = f
    OBVIOUS
<1>2. UNION {parts[i] : i \in DOMAIN parts} = a \cup b \cup c \cup d \cup e \cup f
    <2>1. ASSUME NEW x, x \in UNION {parts[i] : i \in DOMAIN parts} PROVE x \in a \cup b \cup c \cup d \cup e \cup f
        BY Zenon, <1>1, <2>1
    <2>2. ASSUME NEW x, x \in a \cup b \cup c \cup d \cup e \cup f PROVE \E i \in DOMAIN parts : x \in parts[i]
        BY Zenon, <1>1, <2>2
    <2> QED BY Zenon, <2>1, <2>2
<1>3. ASSUME NEW i \in DOMAIN parts, NEW j \in DOMAIN parts, i # j PROVE parts[i] \cap parts[j] = {}
    <2>1. CASE i = 1
        BY Zenon, <1>1, <1>3, <2>1
    <2>2. CASE i = 2
        BY Zenon, <1>1, <1>3, <2>2
    <2>3. CASE i = 3
        BY Zenon, <1>1, <1>3, <2>3
    <2>4. CASE i = 4
        BY Zenon, <1>1, <1>3, <2>4
    <2>5. CASE i = 5
        BY Zenon, <1>1, <1>3, <2>5
    <2>6. CASE i = 6
        BY Zenon, <1>1, <1>3, <2>6
    <2> QED BY Zenon, <1>1, <2>1, <2>2, <2>3, <2>4, <2>5, <2>6
<1> QED BY Zenon, <1>2, <1>3

\* The tables flatten writes.
LEMMA TablesWritten ==
    ASSUME QInv, Q!WriteTables
    PROVE  /\ vc = Q!VirtualSize /\ qpc' = "done" /\ Copied /\ ImageFields' /\ UNCHANGED <<chain, vc, next>>
           /\ image'.l2 = image.l2 /\ image'.data = image.data
           /\ image'.l1 = [i \in 0 .. L1Entries - 1 |-> IF i \in Filled THEN Q!L2Start + i ELSE 0]
           /\ image'.rctable = next /\ image'.blocks = Q!RcBlocks(next + 1)
           /\ image'.used = {0} \cup (1 .. L1Size) \cup {Q!L2Start + i : i \in Filled}
                     \cup (Q!DataStart .. next - 1) \cup {next}
                     \cup (next + 1 .. next + image'.blocks)
           /\ Filled \subseteq 0 .. L1Entries - 1
<1>1. qpc = "copy" /\ vc = Q!VirtualSize /\ qpc' = "done" /\ UNCHANGED <<chain, vc, next>>
    BY Zenon DEF Q!WriteTables
<1>2. Copied /\ ImageFields
    BY <1>1 DEF QInv
<1>3. Q!NumL1 = L1Entries /\ Q!L1Clusters = L1Size
    BY Zenon, <1>2, Sizes DEF Copied
<1> DEFINE b == Q!RcBlocks(next + 1)
           t == [i \in 0 .. Q!NumL1 - 1 |-> IF i \in Filled THEN Q!L2Start + i ELSE 0]
           u == {0} \cup (1 .. Q!L1Clusters) \cup {Q!L2Start + i : i \in Filled}
                     \cup (Q!DataStart .. next - 1) \cup {next}
                     \cup (next + 1 .. next + b)
<1>4. image' = [image EXCEPT !.l1 = t, !.rctable = next, !.blocks = b, !.used = u]
    BY Zenon DEF Q!WriteTables, Filled
<1>5. Filled \subseteq 0 .. L1Entries - 1
    BY Zenon, <1>3 DEF Filled
<1> HIDE DEF b, t, u
<1>6. /\ image'.l1 = t /\ image'.rctable = next /\ image'.blocks = b /\ image'.used = u
      /\ image'.l2 = image.l2 /\ image'.data = image.data /\ ImageFields'
    BY Zenon, <1>2, <1>4 DEF ImageFields
<1> QED BY Zenon, <1>1, <1>2, <1>3, <1>5, <1>6 DEF b, t, u

\* After the tables are written every cluster reads as before.
LEMMA FlattenedReads ==
    ASSUME QInv, Q!WriteTables
    PROVE  Q!FlattenPreserves'
<1> USE TablesWritten
<1> SUFFICES ASSUME NEW c \in 0 .. Q!VirtualSize' - 1, Head(chain').table[c] # Q!ZeroFlag
             PROVE  Q!FlatRead(c)' = Q!GuestRead(chain', c)
    BY Zenon DEF Q!FlattenPreserves
<1>1. Q!VirtualSize' = Q!VirtualSize /\ chain \in Q!Chains /\ chain' = chain
    BY Zenon DEF Q!VirtualSize, Copied
<1>2. c \in 0 .. Head(chain).size - 1 /\ c \in 0 .. vc - 1
    BY Zenon, <1>1 DEF Q!VirtualSize
<1>3. Q!ReadChain(chain, c) = Q!GuestRead(chain, c)
    BY Zenon, <1>1, <1>2, SameRead
<1>4. CASE c \in DOMAIN image.l2
    <2>1. c \in Nat /\ c < MaxClusters
        BY <1>1, <1>2, TopSize, Qcow2Assumption
    <2>2. c \div Q!TableEntries \in 0 .. L1Entries - 1
        BY Zenon, <2>1, QuotientBelow, Qcow2Assumption, Entries DEF L1Entries
    <2>3. c \div Q!TableEntries \in Filled
        BY Zenon, <1>1, <1>4, <2>2, Sizes DEF Filled
    <2>4. Q!L2Start + (c \div Q!TableEntries) # 0
        <3> HIDE DEF Q!L2Start
        <3> DEFINE q == c \div Q!TableEntries
        <3> HIDE DEF q
        <3>1. q \in Nat /\ Q!L2Start = 1 + L1Size
            BY <1>1, <2>2, Sizes DEF q
        <3>2. Q!L2Start + q # 0
            BY <3>1, TableSizes
        <3> QED BY Zenon, <3>2 DEF q
    <2>5. image'.l1[c \div Q!TableEntries] # 0
        BY Zenon, <2>2, <2>3, <2>4
    <2>6. Q!FlatRead(c)' = image.data[image.l2[c]]
        BY Zenon, <1>4, <2>5 DEF Q!FlatRead
    <2> QED BY Zenon, <1>1, <1>3, <1>4, <2>6 DEF Copied
<1>5. CASE c \notin DOMAIN image.l2
    <2>1. Q!ReadChain(chain, c) = 0
        BY Zenon, <1>2, <1>5 DEF Copied
    <2>2. Q!FlatRead(c)' = 0
        BY Zenon, <1>5 DEF Q!FlatRead
    <2> QED BY Zenon, <1>1, <1>3, <2>1, <2>2
<1> QED BY Zenon, <1>4, <1>5

\* What RefcountsExact counts is what write_tables has counted.
LEMMA CountedTables ==
    ASSUME QInv, Q!WriteTables
    PROVE  /\ Q!DivCeil(Q!Cardinality(DOMAIN image'.l1) * 8, ClusterSize) = L1Size
           /\ {image'.l1[i] : i \in DOMAIN image'.l1} \ {0} = {Q!L2Start + i : i \in Filled}
           /\ {image'.l2[c] : c \in DOMAIN image'.l2} = Q!DataStart .. next - 1
           /\ Q!Cardinality(Q!DataStart .. next - 1) = Q!Cardinality(DOMAIN image'.l2)
<1> USE TablesWritten
<1>1. Q!L2Start = 1 + L1Size /\ L1Size \in Nat /\ L1Entries \in Nat /\ Q!VirtualSize \in Nat
    BY Zenon, Sizes, TableSizes, Qcow2Assumption DEF Copied
<1>2. Q!Cardinality(0 .. L1Entries - 1) = L1Entries
    <2>1. 0 \in Int /\ L1Entries - 1 \in Int
        BY <1>1
    <2>2. Q!Cardinality(0 .. L1Entries - 1) = IF 0 > L1Entries - 1 THEN 0 ELSE (L1Entries - 1) - 0 + 1
        BY Zenon, <2>1, FS_Interval, SameCount
    <2> QED BY <1>1, <2>2
<1>3. DOMAIN image'.l1 = 0 .. L1Entries - 1
    BY Zenon
<1>4. Q!DivCeil(Q!Cardinality(DOMAIN image'.l1) * 8, ClusterSize) = L1Size
    BY Zenon, <1>2, <1>3 DEF L1Size
<1>5. \A i \in 0 .. L1Entries - 1 : Q!L2Start + i # 0
    BY <1>1
<1>6. {image'.l1[i] : i \in DOMAIN image'.l1} \ {0} = {Q!L2Start + i : i \in Filled}
    <2>1. ASSUME NEW x, x \in {image'.l1[i] : i \in DOMAIN image'.l1} \ {0} PROVE x \in {Q!L2Start + i : i \in Filled}
        BY Zenon, <2>1
    <2>2. ASSUME NEW i \in Filled PROVE Q!L2Start + i \in {image'.l1[k] : k \in DOMAIN image'.l1} \ {0}
        <3>1. i \in 0 .. L1Entries - 1 /\ image'.l1[i] = Q!L2Start + i
            BY Zenon
        <3> QED BY Zenon, <1>3, <1>5, <3>1
    <2> DEFINE Refs == {image'.l1[i] : i \in DOMAIN image'.l1} \ {0}
               Tables == {Q!L2Start + i : i \in Filled}
    <2>3. \A x \in Tables : x \in Refs
        BY Zenon, <2>2
    <2>4. \A x \in Refs : x \in Tables
        BY Zenon, <2>1
    <2> HIDE DEF Refs, Tables
    <2>5. Refs = Tables
        BY Zenon, <2>3, <2>4
    <2> QED BY Zenon, <2>5 DEF Refs, Tables
<1>7. {image'.l2[c] : c \in DOMAIN image'.l2} = Q!DataStart .. next - 1
    <2> DEFINE Refs == {image'.l2[c] : c \in DOMAIN image'.l2}
    <2>0. /\ image'.l2 = image.l2 /\ \A c \in DOMAIN image.l2 : image.l2[c] \in Q!DataStart .. next - 1
          /\ \A x \in Q!DataStart .. next - 1 : \E c \in DOMAIN image.l2 : image.l2[c] = x
        BY Zenon DEF Copied
    <2> HIDE TablesWritten
    <2>1. \A x \in Refs : x \in Q!DataStart .. next - 1
        BY Zenon, <2>0
    <2>2. \A x \in Q!DataStart .. next - 1 : x \in Refs
        BY Zenon, <2>0
    <2> HIDE DEF Refs
    <2>3. Refs = Q!DataStart .. next - 1
        BY Zenon, <2>1, <2>2
    <2> QED BY Zenon, <2>3 DEF Refs
<1>8. Q!Cardinality(Q!DataStart .. next - 1) = Q!Cardinality(DOMAIN image.l2)
    <2> DEFINE f == [c \in DOMAIN image.l2 |-> image.l2[c]]
    <2>1. IsFiniteSet(DOMAIN image.l2)
        <3>1. 0 \in Int /\ vc - 1 \in Int
            BY <1>1
        <3>2. IsFiniteSet(0 .. vc - 1)
            BY Zenon, <3>1, FS_Interval
        <3> QED BY Zenon, <3>2, FS_Subset DEF Copied
    <2>2. f \in [DOMAIN image.l2 -> Q!DataStart .. next - 1]
        BY Zenon DEF Copied
    <2>3. f \in Bijection(DOMAIN image.l2, Q!DataStart .. next - 1)
        BY Zenon, <2>2 DEF Copied, Bijection, Injection, Surjection, IsInjective
    <2>4. ExistsBijection(DOMAIN image.l2, Q!DataStart .. next - 1)
        BY Zenon, <2>3 DEF ExistsBijection
    <2> QED BY Zenon, <2>1, <2>4, FS_Bijection, SameCount
<1> QED BY Zenon, <1>4, <1>6, <1>7, <1>8

\* The parts of a flattened image are apart and all counted.
LEMMA FlattenedCounts ==
    ASSUME QInv, Q!WriteTables
    PROVE  Q!RefcountsExact'
<1> USE TablesWritten
<1> DEFINE b == image'.blocks
           a2 == 1 .. L1Size
           a3 == {Q!L2Start + i : i \in Filled}
           a4 == Q!DataStart .. next - 1
           a5 == {next}
           a6 == next + 1 .. next + b
           parts == <<{0}, a2, a3, a4, a5, a6>>
<1>1. Q!L2Start = 1 + L1Size /\ Q!DataStart = 1 + L1Size + L1Entries /\ next \in Nat /\ Q!DataStart <= next
    BY Zenon, Sizes DEF Copied
<1>2. b \in Nat /\ next + 1 + b <= b * Q!RcEntries
    <2>1. next + 1 \in Nat \ {0}
        BY <1>1
    <2>2. b \in 1 .. next + 1 /\ next + 1 + b <= b * Q!RcEntries
        BY Zenon, <2>1, RcBlocksCover
    <2> QED BY <1>1, <2>2
<1> HIDE DEF b
<1>3. \A x \in a3 : x \in L1Size + 1 .. L1Size + L1Entries
    BY <1>1, TableSizes
<1> DEFINE Here(x) == x \in Nat /\ x <= next + b
<1>4. /\ \A x \in a2 : x \in Nat /\ 0 < x /\ x <= L1Size
      /\ \A x \in a3 : x \in Nat /\ L1Size < x /\ x < Q!DataStart
      /\ \A x \in a4 : x \in Nat /\ Q!DataStart <= x /\ x < next
      /\ \A x \in a6 : x \in Nat /\ next < x /\ x <= next + b
    BY <1>1, <1>2, <1>3, TableSizes
<1>5. image'.used = {0} \cup a2 \cup a3 \cup a4 \cup a5 \cup a6
    BY Zenon DEF b
<1> HIDE DEF a2, a3, a4, a6
<1>6. /\ {0} \cap a2 = {} /\ {0} \cap a3 = {} /\ {0} \cap a4 = {} /\ {0} \cap a5 = {} /\ {0} \cap a6 = {}
      /\ a2 \cap a3 = {} /\ a2 \cap a4 = {} /\ a2 \cap a5 = {} /\ a2 \cap a6 = {}
    BY <1>1, <1>4, TableSizes
<1>7. /\ a3 \cap a4 = {} /\ a3 \cap a5 = {} /\ a3 \cap a6 = {}
      /\ a4 \cap a5 = {} /\ a4 \cap a6 = {} /\ a5 \cap a6 = {}
    BY <1>1, <1>4, TableSizes
<1>8. \A x \in image'.used : x < b * Q!RcEntries
    <2>1. \A x \in image'.used : x \in Nat /\ x <= next + b
        BY <1>1, <1>2, <1>4, <1>5, TableSizes
    <2>2. b * Q!RcEntries \in Nat
        BY <1>2, Entries
    <2> QED BY <1>1, <1>2, <2>1, <2>2
<1>9. /\ image'.used = UNION {parts[i] : i \in DOMAIN parts}
      /\ \A i, j \in DOMAIN parts : i # j => parts[i] \cap parts[j] = {}
    <2> HIDE DEF parts, a5
    <2>1. parts = <<{0}, a2, a3, a4, a5, a6>>
        BY Zenon DEF parts
    <2>2. /\ UNION {parts[i] : i \in DOMAIN parts} = {0} \cup a2 \cup a3 \cup a4 \cup a5 \cup a6
          /\ \A i, j \in DOMAIN parts : i # j => parts[i] \cap parts[j] = {}
        BY <1>6, <1>7, <2>1, SixParts
    <2> QED BY Zenon, <1>5, <2>2
<1> DEFINE l1clusters == Q!DivCeil(Q!Cardinality(DOMAIN image'.l1) * 8, ClusterSize)
           l2s == {image'.l1[i] : i \in DOMAIN image'.l1} \ {0}
           contents == {image'.l2[c] : c \in DOMAIN image'.l2}
<1>10. l1clusters = L1Size /\ l2s = a3 /\ contents = a4 /\ Q!Cardinality(contents) = Q!Cardinality(DOMAIN image'.l2)
    <2>1. l1clusters = L1Size /\ l2s = a3 /\ contents = a4
        BY Zenon, CountedTables DEF a3, a4
    <2>2. Q!Cardinality(a4) = Q!Cardinality(DOMAIN image'.l2)
        BY Zenon, CountedTables DEF a4
    <2> QED BY Zenon, <2>1, <2>2
<1> HIDE DEF l1clusters, l2s, contents
<1>11. <<{0}, 1 .. l1clusters, l2s, contents, {image'.rctable}, image'.rctable + 1 .. image'.rctable + image'.blocks>> = parts
    BY Zenon, <1>10 DEF b, a2, a6
<1> HIDE DEF parts
<1> HIDE TablesWritten
<1> DEFINE q == <<{0}, 1 .. l1clusters, l2s, contents, {image'.rctable}, image'.rctable + 1 .. image'.rctable + image'.blocks>>
<1>12. /\ image'.used = UNION {q[i] : i \in DOMAIN q}
       /\ \A i, j \in DOMAIN q : i # j => q[i] \cap q[j] = {}
    <2>1. q = parts
        BY Zenon, <1>11
    <2> HIDE DEF q
    <2> QED BY Zenon, <1>9, <2>1
<1>13. Q!Cardinality(contents) = Q!Cardinality(DOMAIN image'.l2)
    BY Zenon, <1>10
<1> QED BY Zenon, <1>8, <1>12, <1>13 DEF Q!RefcountsExact, b, l1clusters, l2s, contents

\* The tables, refcounts and header of a flattened image.
LEMMA WriteTablesStep ==
    ASSUME QInv, Q!WriteTables
    PROVE  QInv'
<1>1. Q!VirtualSize' = Q!VirtualSize /\ Q!DataStart' = Q!DataStart
    BY Zenon, TablesWritten DEF Q!VirtualSize, Q!NumL1, Q!L1Clusters, Q!L2Start, Q!DataStart
<1>2. Copied'
    <2>1. Copied /\ UNCHANGED <<chain, vc, next>> /\ image'.l2 = image.l2 /\ image'.data = image.data
        BY Zenon, TablesWritten
    <2> QED BY Zenon, <1>1, <2>1 DEF Copied
<1> QED BY Zenon, <1>2, TablesWritten, FlattenedReads, FlattenedCounts DEF QInv

\* An L1 table that fits a cluster takes one.
LEMMA OneCluster ==
    ASSUME NEW n \in 1 .. MaxClusters, Q!DivCeil(n, Q!TableEntries) <= Q!TableEntries
    PROVE  Q!DivCeil(Q!Cardinality(0 .. Q!DivCeil(n, Q!TableEntries) - 1) * 8, ClusterSize) = 1
<1> DEFINE d == Q!DivCeil(n, Q!TableEntries)
<1>1. n \in Nat /\ n >= 1 /\ ClusterSize \in Nat \ {0}
    BY Qcow2Assumption
<1>2. d \in Nat /\ n <= Q!TableEntries * d
    BY Zenon, <1>1, Entries, Ceiling
<1> HIDE DEF d
<1>3. d # 0
    <2> SUFFICES ASSUME d = 0 PROVE FALSE
        BY Zenon
    <2>1. Q!TableEntries * d = 0
        BY Entries
    <2> QED BY <1>1, <1>2, <2>1
<1>4. Q!Cardinality(0 .. d - 1) = d
    <2>1. 0 \in Int /\ d - 1 \in Int
        BY <1>2
    <2>2. Q!Cardinality(0 .. d - 1) = IF 0 > d - 1 THEN 0 ELSE (d - 1) - 0 + 1
        BY Zenon, <2>1, FS_Interval, SameCount
    <2> QED BY <1>2, <2>2
<1>5. d * 8 \in Nat /\ d * 8 # 0 /\ d * 8 <= ClusterSize * 1
    BY <1>1, <1>2, <1>3, Entries DEF d
<1> DEFINE k == Q!DivCeil(d * 8, ClusterSize)
<1>6. k <= 1
    BY <1>1, <1>5, CeilingLeast
<1>7. k \in Nat /\ d * 8 <= ClusterSize * k
    BY Zenon, <1>1, <1>5, Ceiling
<1> HIDE DEF k
<1>8. k # 0
    <2> SUFFICES ASSUME k = 0 PROVE FALSE
        BY Zenon
    <2>1. ClusterSize * k = 0
        BY <1>1
    <2> QED BY <1>5, <1>7, <2>1
<1>9. k = 1
    BY <1>6, <1>7, <1>8
<1> QED BY Zenon, <1>4, <1>9 DEF d, k

\* create_overlay: four clusters, each counted.
LEMMA CreateOverlayStep ==
    ASSUME QInv, Q!CreateOverlay
    PROVE  QInv'
<1>1. PICK n \in 1 .. MaxClusters :
        /\ Q!DivCeil(n, Q!TableEntries) <= Q!TableEntries
        /\ image' = [Q!Blank EXCEPT !.l1 = [i \in 0 .. Q!DivCeil(n, Q!TableEntries) - 1 |-> 0],
                                  !.rctable = 2, !.blocks = 1, !.used = 0 .. 3]
    BY Zenon DEF Q!CreateOverlay, Q!BaseSizes
<1>2. qpc' = "overlay"
    BY Zenon DEF Q!CreateOverlay
<1> DEFINE t == [i \in 0 .. Q!DivCeil(n, Q!TableEntries) - 1 |-> 0]
<1>3. /\ image'.l1 = t /\ image'.rctable = 2 /\ image'.blocks = 1 /\ image'.used = 0 .. 3 /\ image'.l2 = <<>>
      /\ ImageFields'
    <2> HIDE DEF t
    <2>1. image' = [Q!Blank EXCEPT !.l1 = t, !.rctable = 2, !.blocks = 1, !.used = 0 .. 3]
        BY Zenon, <1>1 DEF t
    <2> QED BY Zenon, <2>1 DEF Q!Blank, ImageFields
<1>4. DOMAIN image'.l1 = 0 .. Q!DivCeil(n, Q!TableEntries) - 1 /\ \A i \in DOMAIN image'.l1 : image'.l1[i] = 0
    BY Zenon, <1>3
<1>5. DOMAIN image'.l2 = {}
    <2>1. DOMAIN <<>> = {}
        OBVIOUS
    <2> QED BY Zenon, <1>3, <2>1
<1> DEFINE l1clusters == Q!DivCeil(Q!Cardinality(DOMAIN image'.l1) * 8, ClusterSize)
           l2s == {image'.l1[i] : i \in DOMAIN image'.l1} \ {0}
           contents == {image'.l2[c] : c \in DOMAIN image'.l2}
           a2 == 1 .. 1
           a6 == 3 .. 3
           parts == <<{0}, a2, {}, {}, {2}, a6>>
<1>6. l1clusters = 1 /\ l2s = {} /\ contents = {} /\ Q!Cardinality(contents) = Q!Cardinality(DOMAIN image'.l2)
    <2>1. l1clusters = 1
        BY Zenon, <1>1, <1>4, OneCluster
    <2>2. l2s = {} /\ contents = {}
        BY Zenon, <1>4, <1>5
    <2> QED BY Zenon, <1>5, <2>1, <2>2
<1>7. a2 = {1} /\ a6 = {3} /\ 2 + 1 = 3
    OBVIOUS
<1>8. /\ 0 .. 3 = {0} \cup a2 \cup {} \cup {} \cup {2} \cup a6
      /\ \A x \in 0 .. 3 : x < 1 * Q!RcEntries
    BY Entries
<1> HIDE DEF l1clusters, l2s, contents, a2, a6
<1>9. <<{0}, 1 .. l1clusters, l2s, contents, {image'.rctable}, image'.rctable + 1 .. image'.rctable + image'.blocks>> = parts
    BY Zenon, <1>3, <1>6, <1>7 DEF a2, a6
<1>10. /\ image'.used = UNION {parts[i] : i \in DOMAIN parts}
       /\ \A i, j \in DOMAIN parts : i # j => parts[i] \cap parts[j] = {}
    <2> HIDE DEF parts
    <2>1. parts = <<{0}, a2, {}, {}, {2}, a6>>
        BY Zenon DEF parts
    <2>2. 0 # 1 /\ 0 # 2 /\ 0 # 3 /\ 1 # 2 /\ 1 # 3 /\ 2 # 3
        OBVIOUS
    <2>3. /\ {0} \cap a2 = {} /\ {0} \cap {2} = {} /\ {0} \cap a6 = {} /\ a2 \cap {2} = {} /\ a2 \cap a6 = {} /\ {2} \cap a6 = {}
          /\ {0} \cap {} = {} /\ a2 \cap {} = {} /\ {} \cap {} = {} /\ {} \cap {2} = {} /\ {} \cap a6 = {}
        BY Zenon, <1>7, <2>2
    <2>4. /\ UNION {parts[i] : i \in DOMAIN parts} = {0} \cup a2 \cup {} \cup {} \cup {2} \cup a6
          /\ \A i, j \in DOMAIN parts : i # j => parts[i] \cap parts[j] = {}
        BY <2>1, <2>3, SixParts
    <2> QED BY Zenon, <1>3, <1>8, <2>4
<1>11. Q!RefcountsExact'
    <2> HIDE DEF parts
    <2>1. \A x \in image'.used : x < image'.blocks * Q!RcEntries
        BY Zenon, <1>3, <1>8
    <2>2. Q!Cardinality(contents) = Q!Cardinality(DOMAIN image'.l2)
        BY Zenon, <1>6
    <2> DEFINE q == <<{0}, 1 .. l1clusters, l2s, contents, {image'.rctable}, image'.rctable + 1 .. image'.rctable + image'.blocks>>
    <2>3. /\ image'.used = UNION {q[i] : i \in DOMAIN q}
          /\ \A i, j \in DOMAIN q : i # j => q[i] \cap q[j] = {}
        <3>1. q = parts
            BY Zenon, <1>9
        <3> HIDE DEF q
        <3> QED BY Zenon, <1>10, <3>1
    <2> QED BY Zenon, <2>1, <2>2, <2>3 DEF Q!RefcountsExact, l1clusters, l2s, contents
<1>12. Q!FlattenPreserves'
    BY <1>2 DEF Q!FlattenPreserves
<1> QED BY <1>2, <1>3, <1>11, <1>12 DEF QInv

\* A refused chain, the end of an operation, and no step at all.
LEMMA QcowRest ==
    ASSUME QInv, Q!RefuseChain \/ Q!Close \/ UNCHANGED Q!qvars
    PROVE  QInv'
<1>1. CASE Q!RefuseChain
    <2>1. qpc' = "refused" /\ image' = image
        BY Zenon, <1>1 DEF Q!RefuseChain
    <2>2. ImageFields'
        BY Zenon, <2>1 DEF QInv, ImageFields
    <2> QED BY <2>1, <2>2 DEF QInv, Q!FlattenPreserves, Q!RefcountsExact
<1>2. CASE Q!Close
    <2>1. qpc' = "idle" /\ image' = Q!Blank
        BY Zenon, <1>2 DEF Q!Close
    <2>2. ImageFields'
        BY <2>1 DEF Q!Blank, ImageFields
    <2> QED BY <2>1, <2>2 DEF QInv, Q!FlattenPreserves, Q!RefcountsExact
<1>3. CASE UNCHANGED Q!qvars
    <2>1. UNCHANGED <<chain, qpc, vc, next, image>>
        BY Zenon, <1>3 DEF Q!qvars
    <2>2. Q!VirtualSize' = Q!VirtualSize /\ Q!DataStart' = Q!DataStart
        BY Zenon, <2>1 DEF Q!VirtualSize, Q!NumL1, Q!L1Clusters, Q!L2Start, Q!DataStart
    <2>3. Copied => Copied'
        BY Zenon, <2>1, <2>2 DEF Copied
    <2>4. Q!FlattenPreserves' = Q!FlattenPreserves
        BY Zenon, <2>1, <2>2 DEF Q!FlattenPreserves, Q!FlatRead
    <2>5. Q!RefcountsExact' = Q!RefcountsExact
        BY SMT, <2>1 DEF Q!RefcountsExact
    <2> QED BY Zenon, <2>1, <2>3, <2>4, <2>5 DEF QInv, ImageFields
<1> QED BY Zenon, <1>1, <1>2, <1>3

\* QInv holds at first: nothing is open.
LEMMA QInvInit == Q!Init => QInv
<1> SUFFICES ASSUME Q!Init PROVE QInv
    BY Zenon
<1>1. qpc = "idle" /\ image = Q!Blank
    BY Zenon DEF Q!Init
<1>2. ImageFields
    BY <1>1 DEF Q!Blank, ImageFields
<1> QED BY <1>1, <1>2 DEF QInv, Q!FlattenPreserves, Q!RefcountsExact

\* Every step keeps QInv.
LEMMA QInvNext == QInv /\ [Q!Next]_(Q!qvars) => QInv'
BY Zenon, OpenChainStep, CopyClusterStep, WriteTablesStep, CreateOverlayStep, QcowRest DEF Q!Next

\* A flattened disk reads every cluster as its chain did, except those with the zero flag, for any
\* size of clusters and of disk and any contents (bux-qcow2 ops.rs, flatten).
THEOREM FlattensFaithfully == Q!Spec => []FlattenPreserves
<1>1. QInv => FlattenPreserves
    BY Zenon DEF QInv, FlattenPreserves
<1> QED BY QInvInit, QInvNext, <1>1, PTL DEF Q!Spec

\* A flattened image, and a new overlay whose L1 table fits its cluster, count exactly the clusters
\* they refer to, none twice, and their refcount blocks reach to the end of the file, for any size of
\* clusters and of disk (bux-qcow2 ops.rs, flatten and create_overlay).
THEOREM RefcountsStayExact == Q!Spec => []RefcountsExact
<1>1. QInv => RefcountsExact
    BY Zenon DEF QInv, RefcountsExact
<1> QED BY QInvInit, QInvNext, <1>1, PTL DEF Q!Spec

-----------------------------------------------------------------------------
(* The system call filter (bux-seccomp).                                   *)

\* The numbers of system calls, and the instructions of a filter.
Syscalls == 0 .. MaxNr

\* An instruction: its operation, operand and two offsets.
Instructions == [op : {"ld", "jeq", "ret"}, k : Nat \cup {"arch", "nr", "kill", "allow"}, jt : Nat, jf : Nat]

\* The instructions of a program, one position after the other.
Compiled(p, list) ==
    LET n == Len(list) IN
    /\ Len(p) = n + 5
    /\ p[1] = S!Load("arch") /\ p[2] = S!JumpEq(S!Native, 0, (n + 2) % JumpSpan) /\ p[3] = S!Load("nr")
    /\ \A i \in 1 .. n : p[i + 3] = S!JumpEq(list[i], S!AllowOffset(n, i), 0)
    /\ p[n + 4] = S!Return("kill") /\ p[n + 5] = S!Return("allow")

\* What the interpreter knows of a native call when it comes to an instruction.
Reading ==
    LET n == Len(allowlist) IN
    /\ insn = 2 => acc = S!Native
    /\ insn \in 4 .. n + 4 => acc = data.nr /\ \A j \in 1 .. n : j < insn - 3 => allowlist[j] # data.nr
    /\ insn = n + 5 => \E j \in 1 .. n : allowlist[j] = data.nr

\* The inductive invariant.
SInv ==
    /\ allowlist \in Seq(Syscalls)
    /\ data \in [arch : S!Arches, nr : Syscalls]
    /\ insn \in Nat /\ insn <= Len(prog)
    /\ IF prog = <<>> THEN verdict = "none" ELSE Compiled(prog, allowlist)
    /\ insn # 0 => verdict = "none"
    /\ prog # <<>> /\ Len(allowlist) < JumpSpan /\ data.arch = S!Native => Reading
    /\ S!FilterVerdict

\* What is left of an offset in the bits it has.
LEMMA Remainder ==
    ASSUME NEW m \in Nat
    PROVE  /\ m % JumpSpan \in Nat /\ m % JumpSpan <= m
           /\ m < JumpSpan => m % JumpSpan = m
BY SeccompAssumption

\* The elements of three sequences joined.
LEMMA Joined ==
    ASSUME NEW Any, NEW a \in Seq(Any), NEW b \in Seq(Any), NEW c \in Seq(Any)
    PROVE  /\ Len(a \o b \o c) = Len(a) + Len(b) + Len(c)
           /\ \A i \in 1 .. Len(a) : (a \o b \o c)[i] = a[i]
           /\ \A i \in 1 .. Len(b) : (a \o b \o c)[i + Len(a)] = b[i]
           /\ \A i \in 1 .. Len(c) : (a \o b \o c)[i + (Len(a) + Len(b))] = c[i]
<1>1. a \o b \in Seq(Any) /\ Len(a \o b) = Len(a) + Len(b) /\ Len(a) \in Nat /\ Len(b) \in Nat /\ Len(c) \in Nat
    OBVIOUS
<1>2. \A i \in 1 .. Len(a) : (a \o b)[i] = a[i]
    OBVIOUS
<1>3. \A i \in 1 .. Len(b) : (a \o b)[i + Len(a)] = b[i]
    OBVIOUS
<1>4. \A i \in 1 .. Len(a \o b) : ((a \o b) \o c)[i] = (a \o b)[i]
    BY <1>1
<1>5. \A i \in 1 .. Len(c) : ((a \o b) \o c)[i + Len(a \o b)] = c[i]
    BY <1>1
<1> QED BY <1>1, <1>2, <1>3, <1>4, <1>5

\* build puts each instruction where Compiled says.
LEMMA BuildCompiles ==
    ASSUME NEW list \in Seq(Syscalls)
    PROVE  Compiled(S!Build(list), list)
<1> DEFINE n == Len(list)
           a == <<S!Load("arch"), S!JumpEq(S!Native, 0, (n + 2) % JumpSpan), S!Load("nr")>>
           b == [i \in 1 .. n |-> S!JumpEq(list[i], S!AllowOffset(n, i), 0)]
           c == <<S!Return("kill"), S!Return("allow")>>
<1>1. n \in Nat
    OBVIOUS
<1>2. (n + 2) % JumpSpan \in Nat /\ S!Native \in Nat
    BY <1>1, Remainder, SeccompAssumption DEF S!Native
<1>3. \A i \in 1 .. n : S!AllowOffset(n, i) \in Nat /\ list[i] \in Nat
    <2> SUFFICES ASSUME NEW i \in 1 .. n PROVE S!AllowOffset(n, i) \in Nat /\ list[i] \in Nat
        BY Zenon
    <2>1. n - (i - 1) \in Nat
        BY <1>1
    <2>2. list[i] \in Nat
        BY SeccompAssumption DEF Syscalls
    <2> QED BY Zenon, <2>1, <2>2, Remainder DEF S!AllowOffset
<1>4. a \in Seq(Instructions) /\ Len(a) = 3 /\ a[1] = S!Load("arch") /\ a[2] = S!JumpEq(S!Native, 0, (n + 2) % JumpSpan) /\ a[3] = S!Load("nr")
    <2> HIDE DEF n
    <2>1. S!Load("arch") \in Instructions /\ S!Load("nr") \in Instructions
        BY DEF S!Load, Instructions
    <2>2. S!JumpEq(S!Native, 0, (n + 2) % JumpSpan) \in Instructions
        BY <1>2 DEF S!JumpEq, Instructions
    <2> QED BY <2>1, <2>2
<1>5. b \in Seq(Instructions) /\ Len(b) = n /\ \A i \in 1 .. n : b[i] = S!JumpEq(list[i], S!AllowOffset(n, i), 0)
    <2> HIDE DEF n
    <2>1. \A i \in 1 .. n : S!JumpEq(list[i], S!AllowOffset(n, i), 0) \in Instructions
        BY <1>3 DEF S!JumpEq, Instructions
    <2>2. b \in [1 .. n -> Instructions]
        BY <2>1
    <2> QED BY <1>1, <2>2
<1>6. c \in Seq(Instructions) /\ Len(c) = 2 /\ c[1] = S!Return("kill") /\ c[2] = S!Return("allow")
    BY DEF S!Return, Instructions
<1>7. S!Build(list) = a \o b \o c
    BY Zenon DEF S!Build
<1> HIDE DEF n, a, b, c
<1>8. /\ Len(a \o b \o c) = n + 5
      /\ \A i \in 1 .. 3 : (a \o b \o c)[i] = a[i]
      /\ \A i \in 1 .. n : (a \o b \o c)[i + 3] = b[i]
      /\ \A i \in 1 .. 2 : (a \o b \o c)[i + (3 + n)] = c[i]
    <2>1. /\ Len(a \o b \o c) = Len(a) + Len(b) + Len(c)
          /\ \A i \in 1 .. Len(a) : (a \o b \o c)[i] = a[i]
          /\ \A i \in 1 .. Len(b) : (a \o b \o c)[i + Len(a)] = b[i]
          /\ \A i \in 1 .. Len(c) : (a \o b \o c)[i + (Len(a) + Len(b))] = c[i]
        <3>1. a \in Seq(Instructions) /\ b \in Seq(Instructions) /\ c \in Seq(Instructions)
            BY Zenon, <1>4, <1>5, <1>6
        <3> QED BY <3>1, Joined
    <2>2. 3 + n + 2 = n + 5
        BY <1>1
    <2> QED BY Zenon, <1>4, <1>5, <1>6, <2>1, <2>2
<1>9. (a \o b \o c)[n + 4] = c[1] /\ (a \o b \o c)[n + 5] = c[2]
    <2>1. n + 4 = 1 + (3 + n) /\ n + 5 = 2 + (3 + n) /\ 1 \in 1 .. 2 /\ 2 \in 1 .. 2
        BY <1>1
    <2> QED BY Zenon, <1>8, <2>1
<1>10. 1 \in 1 .. 3 /\ 2 \in 1 .. 3 /\ 3 \in 1 .. 3
    OBVIOUS
<1> QED BY Zenon, <1>4, <1>5, <1>6, <1>7, <1>8, <1>9, <1>10 DEF Compiled, n

\* install_default takes the program of some list.
LEMMA InstallStep ==
    ASSUME SInv, S!Install
    PROVE  SInv'
<1>1. PICK list \in S!Ascending : allowlist' = list /\ prog' = S!Build(list)
    BY Zenon DEF S!Install
<1>2. list \in Seq(Syscalls)
    <2>1. PICK n \in 0 .. MaxNr + 1 : list \in [1 .. n -> 0 .. MaxNr]
        BY Zenon, <1>1 DEF S!Ascending
    <2> QED BY <2>1, SeccompAssumption DEF Syscalls
<1>3. prog = <<>> /\ UNCHANGED <<data, acc, insn, verdict>> /\ insn = 0 /\ verdict = "none"
    BY DEF S!Install, SInv
<1>4. Compiled(prog', allowlist')
    BY Zenon, <1>1, <1>2, BuildCompiles
<1>5. Len(prog') \in Nat /\ prog' # <<>> /\ Len(allowlist') \in Nat
    <2>1. Len(prog') = Len(list) + 5 /\ Len(list) \in Nat
        BY <1>1, <1>2, <1>4 DEF Compiled
    <2>2. Len(prog') # 0
        BY <2>1
    <2>3. Len(<<>>) = 0
        OBVIOUS
    <2>4. prog' # <<>>
        BY Zenon, <2>2, <2>3
    <2>5. Len(prog') \in Nat
        BY <2>1
    <2> QED BY Zenon, <1>1, <2>1, <2>4, <2>5
<1>6. Reading'
    BY <1>3, <1>5 DEF Reading
<1>7. S!FilterVerdict'
    BY <1>3, <1>5 DEF S!FilterVerdict
<1>8. insn' \in Nat /\ insn' <= Len(prog')
    BY <1>3, <1>5
<1> QED BY Zenon, <1>1, <1>2, <1>3, <1>4, <1>5, <1>6, <1>7, <1>8 DEF SInv

\* A system call starts the filter at its first instruction.
LEMMA SyscallStep ==
    ASSUME SInv, S!Syscall
    PROVE  SInv'
<1>1. /\ prog # <<>> /\ prog' = prog /\ allowlist' = allowlist
      /\ data' \in [arch : S!Arches, nr : Syscalls] /\ insn' = 1 /\ verdict' = "none"
    BY Zenon DEF S!Syscall, Syscalls
<1>2. Compiled(prog', allowlist') /\ allowlist' \in Seq(Syscalls)
    BY Zenon, <1>1 DEF SInv
<1>3. Len(allowlist') \in Nat /\ Len(prog') = Len(allowlist') + 5
    BY <1>2 DEF Compiled
<1>4. insn' \in Nat /\ insn' <= Len(prog')
    BY <1>1, <1>3
<1>5. Reading'
    BY <1>1, <1>3 DEF Reading
<1>6. S!FilterVerdict'
    BY Zenon, <1>1, <1>4 DEF S!FilterVerdict
<1> QED BY Zenon, <1>1, <1>2, <1>4, <1>5, <1>6 DEF SInv

\* Where an instruction of a native call leads.
LEMMA NextInstruction ==
    ASSUME SInv, S!Execute
    PROVE  /\ prog # <<>> /\ Compiled(prog, allowlist) /\ Len(allowlist) \in Nat /\ verdict = "none"
           /\ insn \in 1 .. Len(allowlist) + 5 /\ Len(prog) = Len(allowlist) + 5
           /\ UNCHANGED <<allowlist, prog, data>>
<1>1. insn \in 1 .. Len(prog) /\ UNCHANGED <<allowlist, prog, data>>
    BY Zenon DEF S!Execute
<1>2. prog # <<>>
    <2>1. Len(<<>>) = 0
        OBVIOUS
    <2>2. Len(prog) # 0
        BY <1>1
    <2> QED BY Zenon, <2>1, <2>2
<1>3. Compiled(prog, allowlist) /\ Len(allowlist) \in Nat
    BY <1>2 DEF SInv
<1>4. Len(prog) = Len(allowlist) + 5
    BY Zenon, <1>3 DEF Compiled
<1>5. verdict = "none"
    BY <1>1 DEF SInv
<1> QED BY Zenon, <1>1, <1>2, <1>3, <1>4, <1>5

\* The two loads: the architecture, then the number.
LEMMA LoadStep ==
    ASSUME SInv, S!Execute, insn \in {1, 3}
    PROVE  SInv'
<1>1. prog[insn] = IF insn = 1 THEN S!Load("arch") ELSE S!Load("nr")
    BY NextInstruction DEF Compiled
<1>2. insn' = insn + 1 /\ verdict' = verdict /\ acc' = IF insn = 1 THEN data.arch ELSE data.nr
    BY <1>1 DEF S!Execute, S!Load
<1>3. insn' \in Nat /\ insn' <= Len(prog') /\ insn' # 0
    BY <1>2, NextInstruction
<1>4. data.arch = S!Native => Reading'
    <2>1. insn' \in {2, 4} /\ insn' # Len(allowlist) + 5 /\ (insn' = 2 => insn = 1) /\ (insn' = 4 => insn = 3)
        BY <1>2, NextInstruction
    <2>2. ASSUME data.arch = S!Native, insn = 1 PROVE Reading'
        <3>1. insn' = 2 /\ acc' = S!Native
            BY <1>2, <2>2
        <3> QED BY <3>1, <2>1, NextInstruction DEF Reading
    <2>3. ASSUME insn = 3 PROVE Reading'
        <3>1. insn' = 4 /\ acc' = data.nr
            BY <1>2, <2>3
        <3>2. \A j \in 1 .. Len(allowlist) : ~ (j < insn' - 3)
            BY <3>1, NextInstruction
        <3>3. insn' # 2
            BY <3>1
        <3> QED BY Zenon, <3>1, <3>2, <3>3, <2>1, NextInstruction DEF Reading
    <2> QED BY Zenon, <2>2, <2>3
<1>5. S!FilterVerdict'
    BY Zenon, <1>2, <1>3, NextInstruction DEF S!FilterVerdict
<1> QED BY Zenon, <1>2, <1>3, <1>4, <1>5, NextInstruction DEF SInv

\* The check of the architecture lets a native call through.
LEMMA ArchStep ==
    ASSUME SInv, S!Execute, insn = 2
    PROVE  SInv'
<1> DEFINE n == Len(allowlist)
<1>1. prog[insn] = S!JumpEq(S!Native, 0, (n + 2) % JumpSpan)
    BY Zenon, NextInstruction DEF Compiled
<1>2. UNCHANGED <<acc, verdict>> /\ insn' = insn + 1 + (IF acc = S!Native THEN 0 ELSE (n + 2) % JumpSpan)
    BY <1>1 DEF S!Execute, S!JumpEq
<1>3. (n + 2) % JumpSpan \in Nat /\ (n + 2) % JumpSpan <= n + 2
    <2>1. n + 2 \in Nat
        BY NextInstruction
    <2> QED BY Zenon, <2>1, Remainder
<1>4. insn' \in Nat /\ insn' <= Len(prog') /\ insn' # 0
    <2> HIDE DEF n
    <2>1. n \in Nat /\ Len(prog') = n + 5
        BY Zenon, NextInstruction DEF n
    <2> QED BY <1>2, <1>3, <2>1
<1>5. ASSUME n < JumpSpan, data.arch = S!Native PROVE Reading'
    <2>1. acc = S!Native
        BY Zenon, <1>5, NextInstruction DEF SInv, Reading
    <2>2. insn' = 3
        BY <1>2, <2>1
    <2>3. insn' # 2 /\ insn' \notin 4 .. n + 4 /\ insn' # n + 5
        BY <2>2, NextInstruction
    <2> QED BY Zenon, <2>3, NextInstruction DEF Reading
<1>6. S!FilterVerdict'
    BY Zenon, <1>2, <1>4, NextInstruction DEF S!FilterVerdict
<1> QED BY Zenon, <1>2, <1>4, <1>5, <1>6, NextInstruction DEF SInv

\* A comparison jumps to the last instruction when the number is the list's, or goes on.
LEMMA CompareStep ==
    ASSUME SInv, S!Execute, insn \in 4 .. Len(allowlist) + 3
    PROVE  SInv'
<1> DEFINE n == Len(allowlist)
           i == insn - 3
<1>1. n \in Nat /\ i \in 1 .. n /\ insn = i + 3 /\ n - (i - 1) \in Nat
    BY NextInstruction
<1>2. prog[insn] = S!JumpEq(allowlist[i], S!AllowOffset(n, i), 0)
    <2> HIDE DEF n, i
    <2> QED BY Zenon, <1>1, NextInstruction DEF Compiled, n
<1>3. UNCHANGED <<acc, verdict>> /\ insn' = insn + 1 + (IF acc = allowlist[i] THEN S!AllowOffset(n, i) ELSE 0)
    <2> HIDE DEF n, i
    <2>1. prog[insn].op = "jeq" /\ prog[insn].k = allowlist[i] /\ prog[insn].jt = S!AllowOffset(n, i) /\ prog[insn].jf = 0
        BY <1>2 DEF S!JumpEq
    <2>2. prog[insn].op # "ld" /\ prog[insn].op # "ret"
        BY <2>1
    <2> QED BY Zenon, <2>1, <2>2 DEF S!Execute
<1>4. /\ S!AllowOffset(n, i) \in Nat /\ S!AllowOffset(n, i) <= n - (i - 1)
      /\ n < JumpSpan => S!AllowOffset(n, i) = n - (i - 1)
    <2> HIDE DEF n, i
    <2>1. n - (i - 1) <= n
        BY <1>1
    <2> QED BY <1>1, <2>1, Remainder, SeccompAssumption DEF S!AllowOffset
<1>5. Len(prog') = n + 5
    BY Zenon, NextInstruction
<1>6. insn' \in Nat /\ insn' <= Len(prog') /\ insn' # 0
    <2> HIDE DEF n, i
    <2> QED BY <1>1, <1>3, <1>4, <1>5
<1>7. ASSUME n < JumpSpan, data.arch = S!Native PROVE Reading'
    <2>1. acc = data.nr /\ \A j \in 1 .. n : j < insn - 3 => allowlist[j] # data.nr
        <3>1. Reading
            BY Zenon, <1>7, NextInstruction DEF SInv
        <3>2. insn \in 4 .. n + 4
            BY <1>1
        <3> QED BY Zenon, <3>1, <3>2 DEF Reading
    <2>2. CASE allowlist[i] = data.nr
        <3>1. insn' = n + 5
            <4> HIDE DEF n, i
            <4> QED BY <1>1, <1>3, <1>4, <1>7, <2>1, <2>2
        <3>2. insn' # 2 /\ insn' \notin 4 .. n + 4
            BY <1>1, <3>1
        <3> QED BY Zenon, <1>1, <2>2, <3>2, NextInstruction DEF Reading
    <2>3. CASE allowlist[i] # data.nr
        <3>1. insn' = insn + 1
            <4> HIDE DEF n, i
            <4> QED BY <1>1, <1>3, <2>1, <2>3
        <3>2. insn' # 2 /\ insn' # n + 5
            BY <1>1, <3>1
        <3>3. \A j \in 1 .. n : j < insn' - 3 => j < insn - 3 \/ j = i
            BY <1>1, <3>1
        <3>4. \A j \in 1 .. n : j < insn' - 3 => allowlist[j] # data.nr
            BY Zenon, <2>1, <2>3, <3>3
        <3> QED BY Zenon, <1>3, <2>1, <3>2, <3>4, NextInstruction DEF Reading
    <2> QED BY Zenon, <2>2, <2>3
<1>8. S!FilterVerdict'
    BY Zenon, <1>3, <1>6, NextInstruction DEF S!FilterVerdict
<1> QED BY Zenon, <1>3, <1>6, <1>7, <1>8, NextInstruction DEF SInv

\* The last two instructions: kill after all comparisons failed, allow after one succeeded.
LEMMA ReturnStep ==
    ASSUME SInv, S!Execute, insn \in {Len(allowlist) + 4, Len(allowlist) + 5}
    PROVE  SInv'
<1> DEFINE n == Len(allowlist)
<1>0. n \in Nat /\ n + 4 # n + 5
    BY NextInstruction
<1>1. prog[insn] = S!Return(IF insn = n + 5 THEN "allow" ELSE "kill")
    BY Zenon, <1>0, NextInstruction DEF Compiled
<1>2. insn' = 0 /\ verdict' = IF insn = n + 5 THEN "allow" ELSE "kill"
    BY <1>1 DEF S!Execute, S!Return
<1>3. insn' \in Nat /\ insn' <= Len(prog')
    BY <1>2, <1>0, NextInstruction
<1>4. Reading'
    BY <1>0, <1>2, NextInstruction DEF Reading
<1>5. ASSUME n < JumpSpan, data.arch = S!Native
      PROVE  insn = n + 5 <=> \E j \in 1 .. n : allowlist[j] = data.nr
    <2>1. Reading
        BY Zenon, <1>5, NextInstruction DEF SInv
    <2>2. CASE insn = n + 5
        BY Zenon, <2>1, <2>2 DEF Reading
    <2>3. CASE insn = n + 4
        <3>1. insn \in 4 .. n + 4 /\ \A j \in 1 .. n : j < insn - 3
            BY <1>0, <2>3
        <3> QED BY Zenon, <1>0, <2>1, <2>3, <3>1 DEF Reading
    <2> QED BY Zenon, <2>2, <2>3
<1>6. S!FilterVerdict'
    <2>1. verdict' = "allow" <=> insn = n + 5
        BY <1>2
    <2> QED BY Zenon, <1>3, <1>5, <2>1, NextInstruction DEF S!FilterVerdict
<1> QED BY Zenon, <1>2, <1>3, <1>4, <1>6, NextInstruction DEF SInv

\* SInv holds at first: there is no filter.
LEMMA SInvInit == S!Init => SInv
<1> SUFFICES ASSUME S!Init PROVE SInv
    BY Zenon
<1>1. allowlist = <<>> /\ prog = <<>> /\ insn = 0 /\ verdict = "none" /\ data = [arch |-> S!Native, nr |-> 0]
    BY Zenon DEF S!Init
<1>2. allowlist \in Seq(Syscalls)
    BY <1>1
<1>3. data \in [arch : S!Arches, nr : Syscalls]
    BY <1>1, SeccompAssumption DEF S!Arches, Syscalls
<1>4. insn \in Nat /\ insn <= Len(prog)
    BY <1>1
<1> QED BY Zenon, <1>1, <1>2, <1>3, <1>4 DEF SInv, S!FilterVerdict

\* The filter built from a list whose offsets fit lets a native system call through exactly when
\* the list names it, and no jump leaves the program, for any list and any width of the offsets
\* (bux-seccomp filter.rs, build).
THEOREM FiltersAsListed == S!Spec => []FilterVerdict
<1>1. SInv /\ [S!Next]_(S!svars) => SInv'
    <2> SUFFICES ASSUME SInv, [S!Next]_(S!svars) PROVE SInv'
        BY Zenon
    <2>1. CASE S!Execute
        <3>1. insn \in {1, 3} \/ insn = 2 \/ insn \in 4 .. Len(allowlist) + 3
                \/ insn \in {Len(allowlist) + 4, Len(allowlist) + 5}
            BY <2>1, NextInstruction
        <3> QED BY Zenon, <2>1, <3>1, LoadStep, ArchStep, CompareStep, ReturnStep
    <2>2. CASE UNCHANGED S!svars
        BY Zenon, <2>2 DEF S!svars, SInv, Compiled, Reading, S!FilterVerdict
    <2> QED BY Zenon, <2>1, <2>2, InstallStep, SyscallStep DEF S!Next
<1>2. SInv => FilterVerdict
    BY Zenon DEF SInv, FilterVerdict
<1> QED BY SInvInit, <1>1, <1>2, PTL DEF S!Spec
=============================================================================
