----------------------------- MODULE DiskProofs -----------------------------
(***************************************************************************)
(* What holds of reading a QCOW2, VMDK or VHDX container, for every        *)
(* geometry, every disk stored in one and every loss of cells at its end.  *)
(***************************************************************************)
EXTENDS VirtualDisk, OperatorProofs

(***************************************************************************)
(* Division                                                                *)
(***************************************************************************)

\* Division by a positive number, its remainder, and that there is one result.
LEMMA Divided ==
    ASSUME NEW a \in Nat, NEW d \in Nat \ {0}
    PROVE  /\ a \div d \in Nat /\ a % d \in 0 .. d - 1
           /\ a = (a \div d) * d + (a % d)
  OBVIOUS

LEMMA DividedOnce ==
    ASSUME NEW q \in Nat, NEW d \in Nat \ {0}, NEW r \in 0 .. d - 1
    PROVE  (q * d + r) \div d = q /\ (q * d + r) % d = r
<1> DEFINE a == q * d + r
           p == a \div d
<1>1. a \in Nat
  OBVIOUS
<1>2. p \in Nat /\ a % d \in 0 .. d - 1 /\ a = p * d + (a % d)
  BY <1>1, Divided
<1>3. p = q
  <2> HIDE DEF p
  <2>1. ASSUME p < q PROVE FALSE
    <3>1. PICK e \in Nat : q = p + 1 + e
      <4>1. q - p - 1 \in Nat /\ q = p + 1 + (q - p - 1)
        BY <2>1, <1>2
      <4>2. QED
        BY <4>1
    <3>2. q * d = p * d + d + e * d /\ e * d \in Nat /\ p * d \in Nat
      BY <3>1, <1>2
    <3>3. QED
      BY <3>2, <1>2
  <2>2. ASSUME q < p PROVE FALSE
    <3>1. PICK e \in Nat : p = q + 1 + e
      <4>1. p - q - 1 \in Nat /\ p = q + 1 + (p - q - 1)
        BY <2>2, <1>2
      <4>2. QED
        BY <4>1
    <3>2. p * d = q * d + d + e * d /\ e * d \in Nat /\ q * d \in Nat
      BY <3>1, <1>2
    <3>3. QED
      BY <3>2, <1>2
  <2>3. QED
    BY <2>1, <2>2, <1>2
<1>4. a % d = r
  <2> HIDE DEF p
  <2>1. p * d = q * d /\ q * d \in Nat
    BY <1>3
  <2>2. QED
    BY <2>1, <1>2
<1>5. QED
  BY <1>3, <1>4

\* The next number is divided alike, unless it is a multiple.
LEMMA DividedNext ==
    ASSUME NEW a \in Nat, NEW d \in Nat \ {0}
    PROVE  (a + 1) \div d = (a \div d) + IF (a + 1) % d = 0 THEN 1 ELSE 0
<1> DEFINE q == a \div d
           r == a % d
<1>1. q \in Nat /\ r \in 0 .. d - 1 /\ a = q * d + r
  BY Divided
<1> HIDE DEF q, r
<1>2. CASE r + 1 \in 0 .. d - 1
  <2>1. a + 1 = q * d + (r + 1)
    BY <1>1
  <2>2. (a + 1) \div d = q /\ (a + 1) % d = r + 1
    BY <1>1, <1>2, <2>1, DividedOnce
  <2>3. QED
    BY <1>1, <2>2 DEF q
<1>3. CASE r + 1 = d
  <2>1. a + 1 = (q + 1) * d + 0 /\ q + 1 \in Nat /\ 0 \in 0 .. d - 1
    BY <1>1, <1>3
  <2>2. (a + 1) \div d = q + 1 /\ (a + 1) % d = 0
    <3> DEFINE p == q + 1
    <3>1. p \in Nat /\ a + 1 = p * d + 0
      BY <2>1
    <3> HIDE DEF p
    <3>2. (p * d + 0) \div d = p /\ (p * d + 0) % d = 0
      BY <2>1, <3>1, DividedOnce
    <3>3. QED
      BY <3>1, <3>2 DEF p
  <2>3. QED
    BY <1>1, <2>2 DEF q
<1>4. QED
  BY <1>1, <1>2, <1>3

\* Numbers below a product are divided into smaller ones.
LEMMA DividedBelow ==
    ASSUME NEW a \in Nat, NEW d \in Nat \ {0}, NEW n \in Nat, a < n * d
    PROVE  a \div d < n
<1> DEFINE q == a \div d
<1>1. q \in Nat /\ q * d <= a
  BY Divided
<1> HIDE DEF q
<1>2. ASSUME ~(q < n) PROVE FALSE
  <2>1. PICK e \in Nat : q = n + e
    <3>1. q - n \in Nat /\ q = n + (q - n)
      BY <1>1, <1>2
    <3>2. QED
      BY <3>1
  <2>2. q * d = n * d + e * d /\ e * d \in Nat /\ n * d \in Nat
    BY <2>1
  <2>3. QED
    BY <2>2, <1>1
<1>3. QED
  BY <1>1, <1>2 DEF q

(***************************************************************************)
(* Where the clusters of a disk are                                        *)
(***************************************************************************)

Flags == {"fully present", "compressed", "zero", "bitmap"}
AnyCell == [host : Nat, flags : SUBSET Flags, byte : Int]

\* A disk as it may be stored.
IsDisk(clusters) ==
    /\ Len(clusters) \in Nat \ {0} /\ DOMAIN clusters = 1..Len(clusters)
    /\ \A k \in DOMAIN clusters : clusters[k].bytes \in [1..ClusterSize -> Int]

\* How many of the clusters behind the k-th are stored.
After(clusters, k) == Cardinality({j \in Stored(clusters) : j > k})

LEMMA AfterType ==
    ASSUME NEW clusters, IsDisk(clusters), NEW k
    PROVE  /\ Stored(clusters) \subseteq 1..Len(clusters)
           /\ IsFiniteSet({j \in Stored(clusters) : j > k})
           /\ After(clusters, k) \in Nat
<1>1. IsFiniteSet(1..Len(clusters))
  BY FS_Interval DEF IsDisk
<1>2. Stored(clusters) \subseteq 1..Len(clusters)
  BY DEF IsDisk, Stored
<1>3. {j \in Stored(clusters) : j > k} \subseteq 1..Len(clusters)
  BY <1>2
<1>4. IsFiniteSet({j \in Stored(clusters) : j > k})
  BY <1>1, <1>3, FS_Subset
<1>5. QED
  BY <1>2, <1>4, FS_CardinalityType DEF After

\* One cluster further to the front.
LEMMA AfterLess ==
    ASSUME NEW clusters, IsDisk(clusters), NEW k \in 1..Len(clusters)
    PROVE  After(clusters, k - 1)
              = After(clusters, k) + IF k \in Stored(clusters) THEN 1 ELSE 0
<1> DEFINE behind(m) == {j \in Stored(clusters) : j > m}
<1>1. /\ Len(clusters) \in Nat /\ Stored(clusters) \subseteq 1..Len(clusters)
      /\ IsFiniteSet(behind(k)) /\ After(clusters, k) \in Nat
  BY AfterType DEF IsDisk
<1>2. \A j \in Stored(clusters) : j > k - 1 <=> j > k \/ j = k
  BY <1>1
<1>3. CASE k \in Stored(clusters)
  <2>1. behind(k - 1) = behind(k) \cup {k} /\ k \notin behind(k)
    BY <1>1, <1>2, <1>3
  <2> HIDE DEF behind
  <2>2. Cardinality(behind(k) \cup {k}) = Cardinality(behind(k)) + 1
    BY <1>1, <2>1, FS_AddElement
  <2>3. QED
    BY <1>3, <2>1, <2>2 DEF After, behind
<1>4. CASE k \notin Stored(clusters)
  <2>1. behind(k - 1) = behind(k)
    BY <1>2, <1>4
  <2>2. After(clusters, k - 1) = After(clusters, k)
    BY <2>1 DEF After
  <2>3. QED
    BY <1>1, <1>4, <2>2
<1>5. QED
  BY <1>3, <1>4

\* What is stored of byte i of cluster k.
Content(clusters, coded, k, i) ==
    IF coded \/ clusters[k].kind = "packed" THEN Byte(CodedCell)
                                             ELSE Byte(clusters[k].bytes[i])

LEMMA ContentType ==
    ASSUME NEW clusters, IsDisk(clusters), NEW k \in 1..Len(clusters),
           NEW i \in 1..ClusterSize, NEW coded
    PROVE  Content(clusters, coded, k, i) \in AnyCell
<1>1. clusters[k].bytes[i] \in Int /\ CodedCell \in Int
  <2>1. clusters[k].bytes \in [1..ClusterSize -> Int]
    BY DEF IsDisk
  <2>2. clusters[k].bytes[i] \in Int
    BY <2>1
  <2>3. CodedCell \in Int
    BY DEF CodedCell
  <2>4. QED
    BY <2>2, <2>3
<1>2. \A value \in Int : Byte(value) \in AnyCell
  BY DEF Byte, AnyCell
<1>3. QED
  BY <1>1, <1>2 DEF Content

\* The data area holds the stored clusters, the last one first.
LEMMA DataPlaced ==
    ASSUME NEW clusters, IsDisk(clusters), NEW coded
    PROVE  LET area == DataArea(clusters, coded) IN
           /\ area \in Seq(AnyCell)
           /\ \A k \in Stored(clusters) : \A i \in 1..ClusterSize :
                 LET at == ClusterSize * After(clusters, k) + i IN
                 at \in 1..Len(area) /\ area[at] = Content(clusters, coded, k, i)
<1> DEFINE n == Len(clusters)
           cells(k) == [i \in 1..ClusterSize |-> Content(clusters, coded, k, i)]
           held(k) == IF k \in Stored(clusters) THEN cells(k) ELSE <<>>
           pieces == [m \in 1..n |-> held(n + 1 - m)]
           start == [m \in 0..n |-> ClusterSize * After(clusters, n - m)]
           area == FlattenSeq(pieces)
<1>1. n \in Nat /\ ClusterSize \in Nat \ {0} /\ Stored(clusters) \subseteq 1..n
  BY AfterType, GeometryAssumption DEF IsDisk
<1>2. ASSUME NEW k \in 1..n
      PROVE  held(k) \in Seq(AnyCell)
             /\ Len(held(k)) = IF k \in Stored(clusters) THEN ClusterSize ELSE 0
  <2>1. cells(k) \in [1..ClusterSize -> AnyCell]
    BY <1>2, ContentType
  <2>2. cells(k) \in Seq(AnyCell) /\ Len(cells(k)) = ClusterSize
    <3> HIDE DEF cells
    <3>1. QED
      BY <1>1, <2>1, FunctionIsSequence
  <2>3. <<>> \in Seq(AnyCell) /\ Len(<<>>) = 0
    OBVIOUS
  <2> HIDE DEF cells
  <2>4. QED
    BY <2>2, <2>3
<1>3. pieces \in Seq(Seq(AnyCell)) /\ Len(pieces) = n
  <2>1. \A m \in 1..n : n + 1 - m \in 1..n
    BY <1>1
  <2>2. pieces \in [1..n -> Seq(AnyCell)]
    BY <1>2, <2>1
  <2> HIDE DEF pieces
  <2>3. QED
    BY <1>1, <2>2, FunctionIsSequence
<1>4. Places(start, pieces, n)
  <2>1. start[0] = 0
    <3>1. {j \in Stored(clusters) : j > n - 0} = {}
      BY <1>1
    <3>2. After(clusters, n - 0) = 0
      BY <3>1, FS_EmptySet DEF After
    <3>3. QED
      BY <3>2, <1>1
  <2>2. ASSUME NEW m \in 0 .. n - 1
        PROVE  start[m + 1] = start[m] + Len(pieces[m + 1])
    <3> DEFINE k == n - m
    <3>1. k \in 1..n /\ n - (m + 1) = k - 1 /\ n + 1 - (m + 1) = k
          /\ m \in 0..n /\ m + 1 \in 0..n /\ m + 1 \in 1..n
      BY <1>1
    <3>2. Len(pieces[m + 1]) = IF k \in Stored(clusters) THEN ClusterSize ELSE 0
      <4>1. pieces[m + 1] = held(k)
        BY <3>1
      <4> HIDE DEF held, k, pieces
      <4>2. QED
        BY <4>1, <3>1, <1>2
    <3>3. /\ start[m] = ClusterSize * After(clusters, k)
          /\ start[m + 1] = ClusterSize * After(clusters, k - 1)
      BY <3>1
    <3>4. After(clusters, k - 1)
             = After(clusters, k) + IF k \in Stored(clusters) THEN 1 ELSE 0
      <4> HIDE DEF k
      <4>1. QED
        BY <3>1, AfterLess
    <3>5. After(clusters, k) \in Nat
      BY AfterType
    <3> HIDE DEF k, start, pieces
    <3>6. QED
      BY <1>1, <3>2, <3>3, <3>4, <3>5
  <2>3. DOMAIN start = 0..n
    OBVIOUS
  <2> HIDE DEF start, pieces
  <2>4. QED
    BY <2>1, <2>2, <2>3 DEF Places
<1>5. /\ area \in Seq(AnyCell) /\ Len(area) = start[n]
      /\ \A m \in 0 .. n - 1 : \A i \in 1..Len(pieces[m + 1]) :
            start[m] + i \in 1..start[n] /\ area[start[m] + i] = pieces[m + 1][i]
  <2> HIDE DEF start, pieces
  <2>1. QED
    BY <1>3, <1>4, FlattenPlaces
<1>6. ASSUME NEW k \in Stored(clusters), NEW i \in 1..ClusterSize
      PROVE  /\ ClusterSize * After(clusters, k) + i \in 1..Len(area)
             /\ area[ClusterSize * After(clusters, k) + i]
                   = Content(clusters, coded, k, i)
  <2>1. PICK m \in 0 .. n - 1 : m = n - k
    BY <1>1
  <2>2. k \in 1..n /\ n + 1 - (m + 1) = k /\ m + 1 \in 1..n /\ n - m = k /\ m \in 0..n
    BY <1>1, <2>1, SMTT(30)
  <2>3. pieces[m + 1] = cells(k) /\ start[m] = ClusterSize * After(clusters, k)
    BY <2>2
  <2>4. Len(cells(k)) = ClusterSize
    BY <1>2, <2>2
  <2>5. cells(k)[i] = Content(clusters, coded, k, i)
    OBVIOUS
  <2> HIDE DEF pieces, start, cells, area
  <2>6. QED
    BY <1>5, <2>3, <2>4, <2>5
<1>7. DataArea(clusters, coded) = area
  BY DEF DataArea, Content
<1>8. QED
  <2> HIDE DEF area
  <2>1. QED
    BY <1>5, <1>6, <1>7

LEMMA FlagsType ==
    ASSUME NEW format, NEW kind
    PROVE  FlagsOf(format, kind) \in SUBSET Flags
<1>1. \A flag \in Flags : {flag} \in SUBSET Flags
  OBVIOUS
<1>2. {} \in SUBSET Flags /\ {"fully present", "compressed", "zero"} \subseteq Flags
  BY DEF Flags
<1>3. CASE format = "vhdx" /\ kind = "data"
  <2>1. kind # "packed" /\ kind # "zeroed"
    BY <1>3
  <2>2. FlagsOf(format, kind) = {"fully present"}
    BY <1>3, <2>1 DEF FlagsOf
  <2>3. QED
    BY <1>1, <1>2, <2>2
<1>4. CASE format = "qcow2" /\ kind = "packed"
  <2>1. kind # "data" /\ kind # "zeroed"
    BY <1>4
  <2>2. FlagsOf(format, kind) = {"compressed"}
    BY <1>4, <2>1 DEF FlagsOf
  <2>3. QED
    BY <1>1, <1>2, <2>2
<1>5. CASE kind = "zeroed"
  <2>1. kind # "data" /\ kind # "packed"
    BY <1>5
  <2>2. FlagsOf(format, kind) = {"zero"}
    BY <1>5, <2>1 DEF FlagsOf
  <2>3. QED
    BY <1>1, <1>2, <2>2
<1>6. CASE /\ ~(format = "vhdx" /\ kind = "data")
           /\ ~(format = "qcow2" /\ kind = "packed") /\ kind # "zeroed"
  <2>1. FlagsOf(format, kind) = {}
    BY <1>6 DEF FlagsOf
  <2>2. QED
    BY <1>2, <2>1
<1>7. QED
  BY <1>3, <1>4, <1>5, <1>6

LEMMA EntryType ==
    ASSUME NEW clusters, IsDisk(clusters), NEW base \in Nat, NEW format, NEW k
    PROVE  /\ HostOf(clusters, base, k) = base + ClusterSize * After(clusters, k)
           /\ HostOf(clusters, base, k) \in Nat /\ base <= HostOf(clusters, base, k)
           /\ EntryOf(format, clusters, base, k) \in AnyCell
           /\ EntryOf(format, clusters, base, k).byte = EntryCell
<1>1. HostOf(clusters, base, k) = base + ClusterSize * After(clusters, k)
  BY DEF HostOf, After
<1>2. ClusterSize * After(clusters, k) \in Nat
  <2>1. After(clusters, k) \in Nat
    BY AfterType
  <2>2. QED
    BY <2>1, GeometryAssumption
<1>3. HostOf(clusters, base, k) \in Nat /\ base <= HostOf(clusters, base, k)
  BY <1>1, <1>2
<1>4. \A host \in Nat : \A flags \in SUBSET Flags :
         Entry(host, flags) \in AnyCell /\ Entry(host, flags).byte = EntryCell
  BY DEF Entry, AnyCell, EntryCell
<1>5. FlagsOf(format, clusters[k].kind) \in SUBSET Flags
  BY FlagsType
<1>6. {} \in SUBSET Flags
  OBVIOUS
<1>7. QED
  BY <1>1, <1>3, <1>4, <1>5, <1>6 DEF EntryOf

\* The second level tables, one behind the other.
TableArea(format, clusters, base, n) ==
    FlattenSeq([t \in 1..n |-> [i \in 1..TableEntries |->
                   EntryOf(format, clusters, base, Member(clusters, t, i))]])

LEMMA TablesPlaced ==
    ASSUME NEW clusters, IsDisk(clusters), NEW base \in Nat, NEW format, NEW n \in Nat
    PROVE  LET tables == TableArea(format, clusters, base, n) IN
           /\ tables \in Seq(AnyCell) /\ Len(tables) = n * TableEntries
           /\ \A t \in 1..n : \A i \in 1..TableEntries :
                 /\ (t - 1) * TableEntries + i \in 1..Len(tables)
                 /\ tables[(t - 1) * TableEntries + i]
                       = EntryOf(format, clusters, base, Member(clusters, t, i))
<1> DEFINE table(t) == [i \in 1..TableEntries |->
                           EntryOf(format, clusters, base, Member(clusters, t, i))]
           pieces == [t \in 1..n |-> table(t)]
           start == [t \in 0..n |-> t * TableEntries]
           area == FlattenSeq(pieces)
<1>1. TableEntries \in Nat \ {0}
  BY GeometryAssumption
<1>2. ASSUME NEW t \in 1..n
      PROVE  table(t) \in Seq(AnyCell) /\ Len(table(t)) = TableEntries
  <2>1. table(t) \in [1..TableEntries -> AnyCell]
    BY EntryType
  <2> HIDE DEF table
  <2>2. QED
    BY <1>1, <2>1, FunctionIsSequence
<1>3. pieces \in Seq(Seq(AnyCell)) /\ Len(pieces) = n
  <2>1. pieces \in [1..n -> Seq(AnyCell)]
    BY <1>2
  <2> HIDE DEF pieces
  <2>2. QED
    BY <2>1, FunctionIsSequence
<1>4. Places(start, pieces, n)
  <2>1. start[0] = 0 /\ DOMAIN start = 0..n
    BY <1>1
  <2>2. ASSUME NEW t \in 0 .. n - 1
        PROVE  start[t + 1] = start[t] + Len(pieces[t + 1])
    <3>1. t + 1 \in 1..n /\ t \in 0..n /\ t + 1 \in 0..n
      OBVIOUS
    <3>2. start[t + 1] = (t + 1) * TableEntries /\ start[t] = t * TableEntries
      BY <3>1
    <3>3. Len(pieces[t + 1]) = TableEntries
      <4>1. pieces[t + 1] = table(t + 1)
        BY <3>1
      <4> HIDE DEF pieces, table
      <4>2. QED
        BY <3>1, <4>1, <1>2
    <3> HIDE DEF start, pieces
    <3>4. QED
      BY <3>2, <3>3, <1>1
  <2> HIDE DEF start, pieces
  <2>3. QED
    BY <2>1, <2>2 DEF Places
<1>5. /\ area \in Seq(AnyCell) /\ Len(area) = start[n]
      /\ \A t \in 0 .. n - 1 : \A i \in 1..Len(pieces[t + 1]) :
            start[t] + i \in 1..start[n] /\ area[start[t] + i] = pieces[t + 1][i]
  <2> HIDE DEF start, pieces
  <2>1. QED
    BY <1>3, <1>4, FlattenPlaces, SMTT(30)
<1>6. start[n] = n * TableEntries
  OBVIOUS
<1>7. ASSUME NEW t \in 1..n, NEW i \in 1..TableEntries
      PROVE  /\ (t - 1) * TableEntries + i \in 1..Len(area)
             /\ area[(t - 1) * TableEntries + i]
                   = EntryOf(format, clusters, base, Member(clusters, t, i))
  <2>1. PICK u \in 0 .. n - 1 : u = t - 1
    OBVIOUS
  <2>2. u + 1 = t /\ u \in 0..n
    BY <2>1
  <2>3. pieces[u + 1] = table(t) /\ start[u] = (t - 1) * TableEntries
    BY <2>1, <2>2
  <2>4. Len(table(t)) = TableEntries
    BY <1>2
  <2>5. table(t)[i] = EntryOf(format, clusters, base, Member(clusters, t, i))
    OBVIOUS
  <2> HIDE DEF pieces, start, table, area
  <2>6. QED
    BY <1>5, <2>3, <2>4, <2>5
<1>8. TableArea(format, clusters, base, n) = area
  BY DEF TableArea
<1>9. QED
  <2> HIDE DEF area
  <2>1. area \in Seq(AnyCell) /\ Len(area) = n * TableEntries
    BY <1>5, <1>6
  <2>2. QED
    BY <2>1, <1>7, <1>8

\* Where the cells of a container with tables of two levels are.
Base(clusters) == 1 + Tables(clusters) + Tables(clusters) * TableEntries

TopEntry(clusters, t) ==
    Entry(IF \E i \in 1..TableEntries : Member(clusters, t, i) \in Stored(clusters)
          THEN 1 + Tables(clusters) + (t - 1) * TableEntries ELSE 0, {})

\* The cells of such a container.
Tabled(format, clusters, coded) ==
    <<Entry(0, {})>> \o TwoLevels(format, clusters, coded)

LEMMA TwoLevelsPlaced ==
    ASSUME NEW clusters, IsDisk(clusters), NEW format, NEW coded, NEW whole,
           whole = Tabled(format, clusters, coded)
    PROVE  /\ whole \in Seq(AnyCell) /\ Len(whole) >= 1
           /\ Tables(clusters) \in Nat /\ Base(clusters) \in Nat \ {0}
           /\ \A t \in 1..Tables(clusters) :
                 1 + t \in 1..Len(whole) /\ whole[1 + t] = TopEntry(clusters, t)
           /\ \A t \in 1..Tables(clusters) : \A i \in 1..TableEntries :
                 LET at == 1 + Tables(clusters) + (t - 1) * TableEntries + i IN
                 /\ at \in 1..Len(whole)
                 /\ whole[at] = EntryOf(format, clusters, Base(clusters),
                                        Member(clusters, t, i))
           /\ \A k \in Stored(clusters) : \A i \in 1..ClusterSize :
                 LET at == HostOf(clusters, Base(clusters), k) + i IN
                 at \in 1..Len(whole) /\ whole[at] = Content(clusters, coded, k, i)
<1> DEFINE n == Tables(clusters)
           base == Base(clusters)
           head == <<Entry(0, {})>>
           top == [t \in 1..n |-> TopEntry(clusters, t)]
           table(t) == [i \in 1..TableEntries |->
                           EntryOf(format, clusters, base, Member(clusters, t, i))]
           tables == FlattenSeq([t \in 1..n |-> table(t)])
           data == DataArea(clusters, coded)
<1>1. TableEntries \in Nat \ {0} /\ Len(clusters) \in Nat
  BY GeometryAssumption DEF IsDisk
<1>2. n \in Nat
  <2>1. Len(clusters) + TableEntries - 1 \in Nat
    BY <1>1
  <2>2. QED
    BY <2>1, <1>1, Divided DEF Tables
<1>3. base \in Nat \ {0} /\ n * TableEntries \in Nat /\ base = 1 + n + n * TableEntries
  BY <1>1, <1>2 DEF Base
<1>4. whole = head \o ((top \o tables) \o data)
  BY DEF Tabled, TwoLevels, TopEntry, Base
<1>5. ASSUME NEW t \in 1..n PROVE TopEntry(clusters, t) \in AnyCell
  <2>1. (t - 1) * TableEntries \in Nat
    BY <1>1, <1>2
  <2>2. 1 + n + (t - 1) * TableEntries \in Nat
    BY <1>2, <2>1
  <2>3. \A host \in Nat : Entry(host, {}) \in AnyCell
    BY DEF Entry, AnyCell, EntryCell
  <2>4. QED
    BY <2>2, <2>3 DEF TopEntry
<1>6. top \in Seq(AnyCell) /\ Len(top) = n
  <2>1. top \in [1..n -> AnyCell]
    BY <1>5
  <2> HIDE DEF top
  <2>2. QED
    BY <1>2, <2>1, FunctionIsSequence
<1>7. head \in Seq(AnyCell) /\ Len(head) = 1
  <2>1. Entry(0, {}) \in AnyCell
    BY DEF Entry, AnyCell, EntryCell
  <2>2. \A e \in AnyCell : <<e>> \in Seq(AnyCell) /\ Len(<<e>>) = 1
    OBVIOUS
  <2>3. QED
    BY <2>1, <2>2
<1>8. /\ tables \in Seq(AnyCell) /\ Len(tables) = n * TableEntries
      /\ \A t \in 1..n : \A i \in 1..TableEntries :
            /\ (t - 1) * TableEntries + i \in 1..Len(tables)
            /\ tables[(t - 1) * TableEntries + i]
                  = EntryOf(format, clusters, base, Member(clusters, t, i))
  <2>1. tables = TableArea(format, clusters, base, n) /\ n \in Nat /\ base \in Nat
    BY <1>2, <1>3 DEF TableArea
  <2> HIDE DEF tables, n, base
  <2>2. QED
    BY <2>1, TablesPlaced
<1>9. /\ data \in Seq(AnyCell)
      /\ \A k \in Stored(clusters) : \A i \in 1..ClusterSize :
            /\ ClusterSize * After(clusters, k) + i \in 1..Len(data)
            /\ data[ClusterSize * After(clusters, k) + i] = Content(clusters, coded, k, i)
  BY DataPlaced
<1> HIDE DEF n, base, head, top, tables, data
<1> DEFINE front == top \o tables
           rest == front \o data
<1>10. /\ front \in Seq(AnyCell) /\ Len(front) = n + n * TableEntries
       /\ \A i \in 1..n : i \in 1..Len(front) /\ front[i] = top[i]
       /\ \A i \in 1..Len(tables) : /\ n + i \in 1..Len(front)
                                     /\ front[n + i] = tables[i]
  <2>1. /\ front \in Seq(AnyCell) /\ Len(front) = Len(top) + Len(tables)
        /\ \A i \in 1..Len(top) : front[i] = top[i]
        /\ \A i \in 1..Len(tables) : /\ Len(top) + i \in 1..Len(front)
                                      /\ front[Len(top) + i] = tables[i]
    <3>1. top \in Seq(AnyCell) /\ tables \in Seq(AnyCell)
      BY <1>6, <1>8
    <3>2. QED
      BY <3>1, Behind
  <2> HIDE DEF front
  <2>2. Len(front) = n + n * TableEntries /\ Len(front) \in Nat
    BY <2>1, <1>2, <1>3, <1>6, <1>8
  <2>3. \A i \in 1..n : i \in 1..Len(front)
    BY <2>2, <1>2, <1>3
  <2>4. QED
    BY <2>1, <2>2, <2>3, <1>6
<1> HIDE DEF front
<1>11. /\ rest \in Seq(AnyCell)
       /\ \A i \in 1..Len(front) : i \in 1..Len(rest) /\ rest[i] = front[i]
       /\ \A i \in 1..Len(data) : /\ Len(front) + i \in 1..Len(rest)
                                   /\ rest[Len(front) + i] = data[i]
  BY <1>9, <1>10, Behind
<1> HIDE DEF rest
<1>12. /\ whole \in Seq(AnyCell) /\ Len(whole) = 1 + Len(rest)
       /\ \A i \in 1..Len(rest) : 1 + i \in 1..Len(whole) /\ whole[1 + i] = rest[i]
  <2>1. whole = head \o rest
    BY <1>4 DEF rest, front
  <2>2. /\ head \o rest \in Seq(AnyCell)
        /\ Len(head \o rest) = Len(head) + Len(rest)
        /\ \A i \in 1..Len(rest) : /\ Len(head) + i \in 1..Len(head \o rest)
                                    /\ (head \o rest)[Len(head) + i] = rest[i]
    <3>1. head \in Seq(AnyCell) /\ rest \in Seq(AnyCell)
      BY <1>7, <1>11
    <3>2. QED
      BY <3>1, Behind
  <2>3. QED
    BY <2>1, <2>2, <1>7
<1>13. ASSUME NEW t \in 1..n
       PROVE  1 + t \in 1..Len(whole) /\ whole[1 + t] = TopEntry(clusters, t)
  <2>1. top[t] = TopEntry(clusters, t)
    BY DEF top
  <2>2. QED
    BY <2>1, <1>10, <1>11, <1>12
<1>14. ASSUME NEW t \in 1..n, NEW i \in 1..TableEntries
       PROVE  LET at == 1 + n + (t - 1) * TableEntries + i IN
              /\ at \in 1..Len(whole)
              /\ whole[at] = EntryOf(format, clusters, base, Member(clusters, t, i))
  <2>1. PICK j \in 1..Len(tables) : j = (t - 1) * TableEntries + i
    BY <1>8
  <2>2. tables[j] = EntryOf(format, clusters, base, Member(clusters, t, i))
    BY <1>8, <2>1
  <2>3. n + j \in 1..Len(front) /\ front[n + j] = tables[j]
    BY <1>10
  <2>4. 1 + (n + j) \in 1..Len(whole) /\ whole[1 + (n + j)] = tables[j]
    BY <2>3, <1>11, <1>12
  <2>5. 1 + n + (t - 1) * TableEntries + i = 1 + (n + j)
    <3>1. (t - 1) * TableEntries \in Nat
      BY <1>1
    <3>2. QED
      BY <3>1, <1>1, <1>2, <2>1
  <2>6. QED
    BY <2>2, <2>4, <2>5
<1>15. ASSUME NEW k \in Stored(clusters), NEW i \in 1..ClusterSize
       PROVE  LET at == HostOf(clusters, base, k) + i IN
              at \in 1..Len(whole) /\ whole[at] = Content(clusters, coded, k, i)
  <2> DEFINE before == ClusterSize * After(clusters, k)
  <2>0. before \in Nat
    <3>1. After(clusters, k) \in Nat
      BY AfterType
    <3>2. QED
      BY <3>1, GeometryAssumption
  <2>1. PICK j \in 1..Len(data) : j = before + i
    BY <1>9
  <2>2. data[j] = Content(clusters, coded, k, i)
    BY <1>9, <2>1
  <2>3. 1 + (Len(front) + j) \in 1..Len(whole) /\ whole[1 + (Len(front) + j)] = data[j]
    BY <1>11, <1>12
  <2>4. HostOf(clusters, base, k) + i = 1 + (Len(front) + j)
    <3>1. HostOf(clusters, base, k) = base + before
      BY <1>3, EntryType
    <3>2. Len(front) = n + n * TableEntries /\ i \in Nat
      BY <1>10, GeometryAssumption
    <3> DEFINE all == n * TableEntries
    <3>3. all \in Nat /\ Len(front) = n + all /\ base = 1 + n + all
      BY <3>2, <1>3
    <3> HIDE DEF before, all
    <3>4. QED
      <4>1. j \in Nat /\ i \in Nat
        BY <3>2, <2>0, <2>1
      <4> DEFINE host == HostOf(clusters, base, k)
                 length == Len(front)
      <4>2. host = base + before /\ length = n + all
        BY <3>1, <3>3
      <4> HIDE DEF host, length
      <4>3. host + i = 1 + (length + j)
        BY <4>1, <4>2, <3>3, <2>0, <2>1, <1>2
      <4>4. QED
        BY <4>3 DEF host, length
  <2>5. QED
    BY <2>2, <2>3, <2>4
<1>16. Len(whole) >= 1
  BY <1>11, <1>12
<1>17. QED
  BY <1>2, <1>3, <1>12, <1>13, <1>14, <1>15, <1>16 DEF n, base

(***************************************************************************)
(* The layout of VHDX                                                      *)
(***************************************************************************)

BatSize(clusters) == Len(clusters) + (Len(clusters) \div ChunkRatio)

BatEntries(clusters, k) ==
    <<EntryOf("vhdx", clusters, 1 + BatSize(clusters), k)>> \o
        IF k % ChunkRatio = 0 THEN <<Entry(0, {"bitmap"})>> ELSE <<>>

BatArea(clusters) == FlattenSeq([k \in DOMAIN clusters |-> BatEntries(clusters, k)])

\* The entry of a block is behind those of the blocks before it, and one more for
\* each full chunk.
LEMMA BatPlaced ==
    ASSUME NEW clusters, IsDisk(clusters)
    PROVE  LET bat == BatArea(clusters) IN
           /\ BatSize(clusters) \in Nat
           /\ bat \in Seq(AnyCell) /\ Len(bat) = BatSize(clusters)
           /\ \A k \in 1..Len(clusters) :
                 LET at == k + ((k - 1) \div ChunkRatio) IN
                 /\ at \in 1..Len(bat)
                 /\ bat[at] = EntryOf("vhdx", clusters, 1 + BatSize(clusters), k)
<1> DEFINE n == Len(clusters)
           entry(k) == EntryOf("vhdx", clusters, 1 + BatSize(clusters), k)
           pieces == [k \in 1..n |-> BatEntries(clusters, k)]
           start == [k \in 0..n |-> k + (k \div ChunkRatio)]
           area == FlattenSeq(pieces)
<1>1. n \in Nat /\ ChunkRatio \in Nat \ {0} /\ DOMAIN clusters = 1..n
  BY GeometryAssumption DEF IsDisk
<1>2. BatSize(clusters) \in Nat /\ 1 + BatSize(clusters) \in Nat
  <2>1. n \div ChunkRatio \in Nat
    BY <1>1, Divided
  <2>2. QED
    BY <2>1, <1>1 DEF BatSize
<1>3. ASSUME NEW k \in 1..n
      PROVE  /\ BatEntries(clusters, k) \in Seq(AnyCell)
             /\ Len(BatEntries(clusters, k)) = 1 + IF k % ChunkRatio = 0 THEN 1 ELSE 0
             /\ BatEntries(clusters, k)[1] = entry(k)
  <2>1. entry(k) \in AnyCell
    BY <1>2, EntryType
  <2>2. Entry(0, {"bitmap"}) \in AnyCell
    BY DEF Entry, AnyCell, EntryCell, Flags
  <2>3. \A c, d \in AnyCell : /\ <<c>> \o <<d>> \in Seq(AnyCell)
                              /\ Len(<<c>> \o <<d>>) = 2 /\ (<<c>> \o <<d>>)[1] = c
    OBVIOUS
  <2>4. \A c \in AnyCell : /\ <<c>> \o <<>> \in Seq(AnyCell)
                           /\ Len(<<c>> \o <<>>) = 1 /\ (<<c>> \o <<>>)[1] = c
    OBVIOUS
  <2>5. CASE k % ChunkRatio = 0
    <3>1. BatEntries(clusters, k) = <<entry(k)>> \o <<Entry(0, {"bitmap"})>>
      BY <2>5 DEF BatEntries
    <3> HIDE DEF entry
    <3>2. QED
      BY <2>1, <2>2, <2>3, <2>5, <3>1
  <2>6. CASE k % ChunkRatio # 0
    <3>1. BatEntries(clusters, k) = <<entry(k)>> \o <<>>
      BY <2>6 DEF BatEntries
    <3> HIDE DEF entry
    <3>2. QED
      BY <2>1, <2>4, <2>6, <3>1
  <2>7. QED
    BY <2>5, <2>6
<1> HIDE DEF entry
<1>4. pieces \in Seq(Seq(AnyCell)) /\ Len(pieces) = n
  <2>1. pieces \in [1..n -> Seq(AnyCell)]
    BY <1>3
  <2> HIDE DEF pieces
  <2>2. QED
    BY <1>1, <2>1, FunctionIsSequence
<1>5. Places(start, pieces, n)
  <2>1. start[0] = 0 /\ DOMAIN start = 0..n
    <3>1. 0 \div ChunkRatio = 0
      <4>1. 0 = 0 * ChunkRatio + 0 /\ 0 \in 0 .. ChunkRatio - 1
        BY <1>1
      <4>2. (0 * ChunkRatio + 0) \div ChunkRatio = 0
        BY <4>1, <1>1, DividedOnce
      <4>3. QED
        BY <4>1, <4>2
    <3>2. start[0] = 0 + (0 \div ChunkRatio)
      BY <1>1
    <3>3. QED
      BY <3>1, <3>2
  <2>2. ASSUME NEW k \in 0 .. n - 1
        PROVE  start[k + 1] = start[k] + Len(pieces[k + 1])
    <3>1. k + 1 \in 1..n /\ k \in 0..n /\ k + 1 \in 0..n /\ k \in Nat
      BY <1>1
    <3>2. /\ start[k + 1] = (k + 1) + ((k + 1) \div ChunkRatio)
          /\ start[k] = k + (k \div ChunkRatio)
      BY <3>1
    <3>3. (k + 1) \div ChunkRatio
             = (k \div ChunkRatio) + IF (k + 1) % ChunkRatio = 0 THEN 1 ELSE 0
      BY <1>1, <3>1, DividedNext
    <3>4. Len(pieces[k + 1]) = 1 + IF (k + 1) % ChunkRatio = 0 THEN 1 ELSE 0
      <4>1. pieces[k + 1] = BatEntries(clusters, k + 1)
        BY <3>1
      <4> HIDE DEF pieces
      <4>2. QED
        BY <3>1, <4>1, <1>3
    <3>5. k \div ChunkRatio \in Nat
      BY <3>1, <1>1, Divided
    <3> DEFINE more == IF (k + 1) % ChunkRatio = 0 THEN 1 ELSE 0
               q == k \div ChunkRatio
               p == (k + 1) \div ChunkRatio
    <3>6. more \in Nat
      OBVIOUS
    <3>7. /\ start[k + 1] = (k + 1) + p /\ start[k] = k + q /\ p = q + more
          /\ Len(pieces[k + 1]) = 1 + more /\ q \in Nat
      BY <3>2, <3>3, <3>4, <3>5
    <3> HIDE DEF start, pieces, more, p, q
    <3>8. QED
      BY <3>1, <3>6, <3>7
  <2> HIDE DEF start, pieces
  <2>3. QED
    BY <2>1, <2>2 DEF Places
<1>6. /\ area \in Seq(AnyCell) /\ Len(area) = start[n]
      /\ \A k \in 0 .. n - 1 : \A i \in 1..Len(pieces[k + 1]) :
            start[k] + i \in 1..start[n] /\ area[start[k] + i] = pieces[k + 1][i]
  <2> HIDE DEF start, pieces
  <2>1. QED
    BY <1>4, <1>5, FlattenPlaces
<1>7. start[n] = BatSize(clusters)
  BY <1>1 DEF BatSize
<1>8. ASSUME NEW k \in 1..n
      PROVE  /\ k + ((k - 1) \div ChunkRatio) \in 1..Len(area)
             /\ area[k + ((k - 1) \div ChunkRatio)] = entry(k)
  <2>1. PICK m \in 0 .. n - 1 : m = k - 1
    BY <1>1
  <2>2. m + 1 = k /\ m \in 0..n
    BY <2>1
  <2>3. pieces[m + 1] = BatEntries(clusters, k) /\ start[m] = m + (m \div ChunkRatio)
    BY <2>2
  <2>4. /\ 1 \in 1..Len(BatEntries(clusters, k))
        /\ BatEntries(clusters, k)[1] = entry(k)
    BY <1>3
  <2>5. k + ((k - 1) \div ChunkRatio) = start[m] + 1
    <3>1. m \in Nat /\ k \in Nat
      BY <1>1
    <3> DEFINE q == m \div ChunkRatio
    <3>2. q \in Nat /\ start[m] = m + q
      BY <3>1, <1>1, <2>3, Divided
    <3>3. (k - 1) \div ChunkRatio = q
      BY <2>1
    <3> HIDE DEF q, start
    <3>4. QED
      BY <3>1, <3>2, <3>3, <2>2
  <2> HIDE DEF pieces, start, area
  <2>6. QED
    BY <1>6, <2>3, <2>4, <2>5
<1>9. BatArea(clusters) = area
  BY <1>1 DEF BatArea
<1>10. QED
  <2> HIDE DEF area
  <2>1. area \in Seq(AnyCell) /\ Len(area) = BatSize(clusters)
    BY <1>6, <1>7
  <2>2. QED
    BY <2>1, <1>2, <1>8, <1>9 DEF entry

\* The cells of a VHDX file.
Chunked(clusters) == <<Entry(0, {})>> \o BlockTable(clusters)

LEMMA BlocksPlaced ==
    ASSUME NEW clusters, IsDisk(clusters), NEW whole,
           whole = Chunked(clusters)
    PROVE  /\ whole \in Seq(AnyCell) /\ Len(whole) >= 1
           /\ BatSize(clusters) \in Nat
           /\ \A k \in 1..Len(clusters) :
                 LET at == 1 + k + ((k - 1) \div ChunkRatio) IN
                 /\ at \in 1..Len(whole)
                 /\ whole[at] = EntryOf("vhdx", clusters, 1 + BatSize(clusters), k)
           /\ \A k \in Stored(clusters) : \A i \in 1..ClusterSize :
                 LET at == HostOf(clusters, 1 + BatSize(clusters), k) + i IN
                 at \in 1..Len(whole) /\ whole[at] = Content(clusters, FALSE, k, i)
<1> DEFINE head == <<Entry(0, {})>>
           bat == BatArea(clusters)
           data == DataArea(clusters, FALSE)
           rest == bat \o data
           base == 1 + BatSize(clusters)
<1>1. head \in Seq(AnyCell) /\ Len(head) = 1
  <2>1. Entry(0, {}) \in AnyCell
    BY DEF Entry, AnyCell, EntryCell
  <2>2. \A e \in AnyCell : <<e>> \in Seq(AnyCell) /\ Len(<<e>>) = 1
    OBVIOUS
  <2>3. QED
    BY <2>1, <2>2
<1>2. /\ BatSize(clusters) \in Nat /\ bat \in Seq(AnyCell)
      /\ Len(bat) = BatSize(clusters)
      /\ \A k \in 1..Len(clusters) :
            /\ k + ((k - 1) \div ChunkRatio) \in 1..Len(bat)
            /\ bat[k + ((k - 1) \div ChunkRatio)] = EntryOf("vhdx", clusters, base, k)
  BY BatPlaced
<1>3. /\ data \in Seq(AnyCell)
      /\ \A k \in Stored(clusters) : \A i \in 1..ClusterSize :
            /\ ClusterSize * After(clusters, k) + i \in 1..Len(data)
            /\ data[ClusterSize * After(clusters, k) + i] = Content(clusters, FALSE, k, i)
  BY DataPlaced
<1>4. whole = head \o rest
  BY DEF Chunked, BlockTable, BatArea, BatEntries, BatSize
<1> HIDE DEF head, bat, data
<1>5. /\ rest \in Seq(AnyCell) /\ Len(rest) = Len(bat) + Len(data)
      /\ \A i \in 1..Len(bat) : rest[i] = bat[i]
      /\ \A i \in 1..Len(data) : /\ Len(bat) + i \in 1..Len(rest)
                                  /\ rest[Len(bat) + i] = data[i]
  <2>1. bat \in Seq(AnyCell) /\ data \in Seq(AnyCell)
    BY <1>2, <1>3
  <2>2. QED
    BY <2>1, Behind
<1> HIDE DEF rest
<1>6. Len(rest) \in Nat /\ \A i \in 1..Len(bat) : i \in 1..Len(rest) /\ rest[i] = bat[i]
  <2>1. Len(bat) \in Nat /\ Len(data) \in Nat
    BY <1>2, <1>3
  <2>2. QED
    BY <2>1, <1>5
<1>7. /\ whole \in Seq(AnyCell) /\ Len(whole) = 1 + Len(rest)
      /\ \A i \in 1..Len(rest) : 1 + i \in 1..Len(whole) /\ whole[1 + i] = rest[i]
  <2>1. /\ head \o rest \in Seq(AnyCell)
        /\ Len(head \o rest) = Len(head) + Len(rest)
        /\ \A i \in 1..Len(rest) : /\ Len(head) + i \in 1..Len(head \o rest)
                                    /\ (head \o rest)[Len(head) + i] = rest[i]
    <3>1. head \in Seq(AnyCell) /\ rest \in Seq(AnyCell)
      BY <1>1, <1>5
    <3>2. QED
      BY <3>1, Behind
  <2>2. QED
    BY <2>1, <1>1, <1>4
<1>8. ASSUME NEW k \in 1..Len(clusters)
      PROVE  LET at == 1 + k + ((k - 1) \div ChunkRatio) IN
             at \in 1..Len(whole) /\ whole[at] = EntryOf("vhdx", clusters, base, k)
  <2>1. PICK j \in 1..Len(bat) : j = k + ((k - 1) \div ChunkRatio)
    BY <1>2
  <2>2. bat[j] = EntryOf("vhdx", clusters, base, k)
    BY <1>2, <2>1
  <2>3. 1 + j \in 1..Len(whole) /\ whole[1 + j] = bat[j]
    BY <1>6, <1>7
  <2>4. 1 + k + ((k - 1) \div ChunkRatio) = 1 + j
    <3>1. k - 1 \in Nat /\ k \in Nat /\ ChunkRatio \in Nat \ {0}
      BY GeometryAssumption DEF IsDisk
    <3> DEFINE q == (k - 1) \div ChunkRatio
    <3>2. q \in Nat /\ j = k + q
      BY <2>1, <3>1, Divided
    <3> HIDE DEF q
    <3>3. 1 + k + q = 1 + j
      BY <3>1, <3>2
    <3>4. QED
      BY <3>3 DEF q
  <2>5. QED
    BY <2>2, <2>3, <2>4
<1>9. ASSUME NEW k \in Stored(clusters), NEW i \in 1..ClusterSize
      PROVE  LET at == HostOf(clusters, base, k) + i IN
             at \in 1..Len(whole) /\ whole[at] = Content(clusters, FALSE, k, i)
  <2> DEFINE before == ClusterSize * After(clusters, k)
             host == HostOf(clusters, base, k)
             length == Len(bat)
  <2>1. before \in Nat /\ i \in Nat
    <3>1. After(clusters, k) \in Nat
      BY AfterType
    <3>2. QED
      BY <3>1, GeometryAssumption
  <2>2. PICK j \in 1..Len(data) : j = before + i
    BY <1>3
  <2>3. data[j] = Content(clusters, FALSE, k, i)
    BY <1>3, <2>2
  <2>4. 1 + (length + j) \in 1..Len(whole) /\ whole[1 + (length + j)] = data[j]
    BY <1>5, <1>7
  <2>5. host = 1 + length + before /\ length \in Nat
    <3>1. host = base + before
      <4>1. base \in Nat
        BY <1>2
      <4> HIDE DEF base
      <4>2. QED
        BY <4>1, EntryType
    <3>2. QED
      BY <3>1, <1>2
  <2>6. host + i = 1 + (length + j)
    <3> HIDE DEF host, before, length
    <3>1. QED
      BY <2>1, <2>2, <2>5
  <2>7. QED
    BY <2>3, <2>4, <2>6
<1>10. Len(whole) >= 1
  BY <1>6, <1>7
<1>11. QED
  BY <1>2, <1>7, <1>8, <1>9, <1>10

(***************************************************************************)
(* The flat content                                                        *)
(***************************************************************************)

FlatByte(clusters, k, i) ==
    IF clusters[k].kind \in {"hole", "zeroed"} THEN 0 ELSE clusters[k].bytes[i]

\* The bytes of the clusters, one cluster behind the other.
LEMMA FlatPlaced ==
    ASSUME NEW clusters, IsDisk(clusters), NEW tail \in 0 .. ClusterSize - 1
    PROVE  LET size == ClusterSize * Len(clusters) - tail IN
           /\ size \in Nat /\ Flat(clusters, tail) \in Seq(Int)
           /\ Len(Flat(clusters, tail)) = size
           /\ \A k \in 1..Len(clusters) : \A i \in 1..ClusterSize :
                 (k - 1) * ClusterSize + i <= size =>
                    Flat(clusters, tail)[(k - 1) * ClusterSize + i]
                       = FlatByte(clusters, k, i)
<1> DEFINE n == Len(clusters)
           bytes(k) == IF clusters[k].kind \in {"hole", "zeroed"} THEN Zeros
                                                        ELSE clusters[k].bytes
           pieces == [k \in 1..n |-> bytes(k)]
           start == [k \in 0..n |-> k * ClusterSize]
           all == FlattenSeq(pieces)
           size == ClusterSize * n - tail
<1>1. n \in Nat \ {0} /\ ClusterSize \in Nat \ {0} /\ DOMAIN clusters = 1..n
  BY GeometryAssumption DEF IsDisk
<1>2. ASSUME NEW k \in 1..n
      PROVE  /\ bytes(k) \in Seq(Int) /\ Len(bytes(k)) = ClusterSize
             /\ \A i \in 1..ClusterSize : bytes(k)[i] = FlatByte(clusters, k, i)
  <2>1. Zeros \in [1..ClusterSize -> Int] /\ \A i \in 1..ClusterSize : Zeros[i] = 0
    BY DEF Zeros
  <2>2. clusters[k].bytes \in [1..ClusterSize -> Int]
    BY <1>1 DEF IsDisk
  <2>3. bytes(k) \in [1..ClusterSize -> Int]
    BY <2>1, <2>2
  <2>4. \A i \in 1..ClusterSize : bytes(k)[i] = FlatByte(clusters, k, i)
    BY <2>1 DEF FlatByte
  <2> HIDE DEF bytes
  <2>5. QED
    BY <1>1, <2>3, <2>4, FunctionIsSequence
<1>3. pieces \in Seq(Seq(Int)) /\ Len(pieces) = n
  <2>1. pieces \in [1..n -> Seq(Int)]
    BY <1>2
  <2> HIDE DEF pieces
  <2>2. QED
    BY <1>1, <2>1, FunctionIsSequence
<1>4. Places(start, pieces, n)
  <2>1. start[0] = 0 /\ DOMAIN start = 0..n
    BY <1>1
  <2>2. ASSUME NEW k \in 0 .. n - 1
        PROVE  start[k + 1] = start[k] + Len(pieces[k + 1])
    <3>1. k + 1 \in 1..n /\ k \in 0..n /\ k + 1 \in 0..n
      BY <1>1
    <3>2. start[k + 1] = (k + 1) * ClusterSize /\ start[k] = k * ClusterSize
      BY <3>1
    <3>3. Len(pieces[k + 1]) = ClusterSize
      <4>1. pieces[k + 1] = bytes(k + 1)
        BY <3>1
      <4> HIDE DEF pieces, bytes
      <4>2. QED
        BY <3>1, <4>1, <1>2
    <3> HIDE DEF start, pieces
    <3>4. QED
      BY <3>2, <3>3, <1>1
  <2> HIDE DEF start, pieces
  <2>3. QED
    BY <2>1, <2>2 DEF Places
<1>5. /\ all \in Seq(Int) /\ Len(all) = start[n]
      /\ \A k \in 0 .. n - 1 : \A i \in 1..Len(pieces[k + 1]) :
            start[k] + i \in 1..start[n] /\ all[start[k] + i] = pieces[k + 1][i]
  <2> HIDE DEF start, pieces
  <2>1. QED
    BY <1>3, <1>4, FlattenPlaces
<1>6. start[n] = ClusterSize * n
  BY <1>1
<1>7. size \in Nat /\ size <= ClusterSize * n
  <2>1. PICK m \in Nat : n = m + 1
    <3>1. n - 1 \in Nat /\ n = (n - 1) + 1
      BY <1>1
    <3>2. QED
      BY <3>1
  <2>2. ClusterSize * n = ClusterSize * m + ClusterSize /\ ClusterSize * m \in Nat
    BY <1>1, <2>1
  <2>3. QED
    BY <2>2, <1>1
<1>8. Flat(clusters, tail) = SubSeq(all, 1, size)
  <2>1. FlattenSeq([k \in DOMAIN clusters |->
                       IF clusters[k].kind \in {"hole", "zeroed"} THEN Zeros
                                                      ELSE clusters[k].bytes]) = all
    BY <1>1
  <2> HIDE DEF all
  <2>2. Len(all) - tail = size
    BY <1>5, <1>6
  <2>3. QED
    BY <2>1, <2>2 DEF Flat
<1>9. /\ SubSeq(all, 1, size) \in Seq(Int) /\ Len(SubSeq(all, 1, size)) = size
      /\ \A i \in 1..size : SubSeq(all, 1, size)[i] = all[i]
  <2>1. all \in Seq(Int) /\ size \in 0..Len(all)
    BY <1>5, <1>6, <1>7
  <2> HIDE DEF all, size
  <2>2. QED
    BY <2>1, FrontOf
<1>10. ASSUME NEW k \in 1..n, NEW i \in 1..ClusterSize,
              (k - 1) * ClusterSize + i <= size
       PROVE  Flat(clusters, tail)[(k - 1) * ClusterSize + i] = FlatByte(clusters, k, i)
  <2>1. PICK m \in 0 .. n - 1 : m = k - 1
    BY <1>1
  <2>2. m + 1 = k /\ m \in 0..n
    BY <2>1
  <2>3. pieces[m + 1] = bytes(k) /\ start[m] = (k - 1) * ClusterSize
    BY <2>1, <2>2
  <2>4. Len(bytes(k)) = ClusterSize /\ bytes(k)[i] = FlatByte(clusters, k, i)
    BY <1>2
  <2> HIDE DEF pieces, start, all, bytes, size
  <2> DEFINE at == (k - 1) * ClusterSize + i
  <2>5. at \in 1..start[n] /\ all[at] = FlatByte(clusters, k, i)
    BY <1>5, <2>3, <2>4
  <2>6. at \in 1..size
    <3> HIDE DEF at
    <3>1. at <= size
      BY <1>10 DEF at
    <3>2. QED
      BY <2>5, <3>1, <1>7
  <2> HIDE DEF at
  <2>7. Flat(clusters, tail)[at] = FlatByte(clusters, k, i)
    BY <2>5, <2>6, <1>8, <1>9
  <2>8. QED
    BY <2>7 DEF at
<1>11. QED
  <2> HIDE DEF all
  <2>1. QED
    BY <1>7, <1>8, <1>9, <1>10

(***************************************************************************)
(* Looking a cluster up                                                    *)
(***************************************************************************)

\* The table of a cluster and its place in the table.
LEMMA TableOf ==
    ASSUME NEW clusters, IsDisk(clusters), NEW k \in 1..Len(clusters)
    PROVE  LET q == (k - 1) \div TableEntries
               r == (k - 1) % TableEntries
           IN  /\ Tables(clusters) \in Nat /\ q \in 0 .. Tables(clusters) - 1
               /\ r \in 0 .. TableEntries - 1 /\ k - 1 = q * TableEntries + r
               /\ Member(clusters, q + 1, r + 1) = k
<1> DEFINE n == Tables(clusters)
           q == (k - 1) \div TableEntries
           r == (k - 1) % TableEntries
           a == Len(clusters) + TableEntries - 1
<1>1. /\ TableEntries \in Nat \ {0} /\ Len(clusters) \in Nat
      /\ k - 1 \in Nat /\ k - 1 < Len(clusters) /\ a \in Nat
  BY GeometryAssumption DEF IsDisk
<1>2. /\ q \in Nat /\ r \in 0 .. TableEntries - 1 /\ k - 1 = q * TableEntries + r
  BY <1>1, Divided
<1>3. n \in Nat /\ Len(clusters) <= n * TableEntries
  <2> DEFINE p == a \div TableEntries
  <2>1. /\ p \in Nat /\ a % TableEntries \in 0 .. TableEntries - 1
        /\ a = p * TableEntries + (a % TableEntries)
    BY <1>1, Divided
  <2>2. n = p
    BY DEF Tables
  <2> DEFINE full == p * TableEntries
             rest == a % TableEntries
  <2>3. full \in Nat
    BY <1>1, <2>1
  <2>4. Len(clusters) + TableEntries - 1 = full + rest
        /\ rest \in 0 .. TableEntries - 1
    BY <2>1
  <2> HIDE DEF full, rest, p, n
  <2>5. Len(clusters) <= full
    BY <1>1, <2>3, <2>4
  <2>6. QED
    BY <2>1, <2>2, <2>5 DEF full
<1>4. q < n
  <2>1. k - 1 < n * TableEntries
    <3> DEFINE m == n * TableEntries
    <3>1. m \in Nat /\ Len(clusters) <= m
      BY <1>1, <1>3
    <3> HIDE DEF m
    <3>2. k - 1 < m
      BY <1>1, <3>1
    <3>3. QED
      BY <3>2 DEF m
  <2> HIDE DEF n
  <2>2. QED
    BY <2>1, <1>1, <1>3, DividedBelow
<1>5. Member(clusters, q + 1, r + 1) = k
  <2> HIDE DEF q, r
  <2> DEFINE m == q * TableEntries
  <2>1. (q + 1) - 1 = q
    BY <1>2
  <2>2. Member(clusters, q + 1, r + 1) = m + (r + 1)
    BY <2>1 DEF Member
  <2>3. m \in Nat /\ k - 1 = m + r
    BY <1>1, <1>2
  <2> HIDE DEF m
  <2>4. QED
    BY <2>2, <2>3, <1>1, <1>2
<1> HIDE DEF q, r, n
<1>6. q \in 0 .. n - 1
  BY <1>2, <1>3, <1>4
<1>7. QED
  BY <1>2, <1>3, <1>5, <1>6 DEF q, r, n

\* The cells that a look up of cluster k goes through.
PathIs(clusters, format, whole, k) ==
    LET n == Tables(clusters)
        q == (k - 1) \div TableEntries
        gt == 1 + n + q * TableEntries
    IN  /\ n \in Nat /\ q \in Nat /\ gt \in Nat \ {0}
        /\ 2 + q \in 1..Len(whole) /\ whole[2 + q].byte = EntryCell
        /\ whole[2 + q].host \in {0, gt}
        /\ k \in Stored(clusters) => whole[2 + q].host = gt
        /\ gt + ((k - 1) % TableEntries) = n + k
        /\ n + k + 1 \in 1..Len(whole)
        /\ whole[n + k + 1] = EntryOf(format, clusters, Base(clusters), k)

LEMMA TwoLevelCells ==
    ASSUME NEW clusters, IsDisk(clusters), NEW format, NEW coded, NEW whole,
           whole = Tabled(format, clusters, coded), NEW k \in 1..Len(clusters)
    PROVE  PathIs(clusters, format, whole, k)
<1> DEFINE n == Tables(clusters)
           q == (k - 1) \div TableEntries
           r == (k - 1) % TableEntries
           gt == 1 + n + q * TableEntries
<1>1. /\ n \in Nat /\ q \in 0 .. n - 1
      /\ r \in 0 .. TableEntries - 1 /\ k - 1 = q * TableEntries + r
      /\ Member(clusters, q + 1, r + 1) = k
  BY TableOf
<1>2. /\ \A t \in 1..n : 1 + t \in 1..Len(whole) /\ whole[1 + t] = TopEntry(clusters, t)
      /\ \A t \in 1..n : \A i \in 1..TableEntries :
            /\ 1 + n + (t - 1) * TableEntries + i \in 1..Len(whole)
            /\ whole[1 + n + (t - 1) * TableEntries + i]
                  = EntryOf(format, clusters, Base(clusters), Member(clusters, t, i))
  BY TwoLevelsPlaced, SMTT(30)
<1> HIDE DEF n, q, r
<1>3. /\ TableEntries \in Nat \ {0} /\ q + 1 \in 1..n /\ r + 1 \in 1..TableEntries
      /\ (q + 1) - 1 = q /\ q * TableEntries \in Nat /\ q \in Nat /\ r \in Nat
      /\ 1 + (q + 1) = 2 + q
  <2>1. TableEntries \in Nat \ {0}
    BY GeometryAssumption
  <2>2. q \in Nat /\ r \in Nat
    BY <1>1, <2>1
  <2>3. QED
    BY <1>1, <2>1, <2>2
<1>4. 2 + q \in 1..Len(whole) /\ whole[2 + q] = TopEntry(clusters, q + 1)
  BY <1>2, <1>3
<1>5. gt \in Nat \ {0} /\ gt + r = n + k /\ n + k + 1 = gt + (r + 1)
  <2> DEFINE m == q * TableEntries
  <2>1. m \in Nat /\ gt = 1 + n + m /\ k - 1 = m + r
    BY <1>1, <1>3
  <2> HIDE DEF m, gt
  <2>2. QED
    BY <2>1, <1>1, <1>3
<1>6. /\ TopEntry(clusters, q + 1).byte = EntryCell
      /\ TopEntry(clusters, q + 1).host \in {0, gt}
      /\ k \in Stored(clusters) => TopEntry(clusters, q + 1).host = gt
  <2>1. \A host : Entry(host, {}).byte = EntryCell /\ Entry(host, {}).host = host
    BY DEF Entry
  <2>2. 1 + Tables(clusters) + ((q + 1) - 1) * TableEntries = gt
    BY <1>3 DEF n
  <2>3. k \in Stored(clusters)
           => \E i \in 1..TableEntries : Member(clusters, q + 1, i) \in Stored(clusters)
    BY <1>1, <1>3
  <2> HIDE DEF gt
  <2>4. QED
    BY <2>1, <2>2, <2>3 DEF TopEntry
<1>7. /\ n + k + 1 \in 1..Len(whole)
      /\ whole[n + k + 1] = EntryOf(format, clusters, Base(clusters), k)
  <2>1. /\ 1 + n + q * TableEntries + (r + 1) \in 1..Len(whole)
        /\ whole[1 + n + q * TableEntries + (r + 1)]
              = EntryOf(format, clusters, Base(clusters), k)
    BY <1>1, <1>2, <1>3
  <2>2. 1 + n + q * TableEntries + (r + 1) = n + k + 1
    BY <1>5
  <2>3. QED
    BY <2>1, <2>2
<1> HIDE DEF gt
<1>8. QED
  BY <1>1, <1>3, <1>4, <1>5, <1>6, <1>7 DEF gt, n, q, r, PathIs

\* A QCOW2 image has a top entry for every stored cluster.
LEMMA TopReaches ==
    ASSUME NEW clusters, IsDisk(clusters), NEW k \in Stored(clusters)
    PROVE  (k - 1) \div TableEntries
              < Cardinality({t \in 1..Tables(clusters) :
                                \E j \in Stored(clusters) : j > (t - 1) * TableEntries})
<1> DEFINE n == Tables(clusters)
           q == (k - 1) \div TableEntries
           used == {t \in 1..n : \E j \in Stored(clusters) : j > (t - 1) * TableEntries}
<1>1. k \in 1..Len(clusters) /\ Len(clusters) \in Nat /\ TableEntries \in Nat \ {0}
  BY AfterType, GeometryAssumption DEF IsDisk
<1>2. /\ n \in Nat /\ q \in 0 .. n - 1 /\ (k - 1) % TableEntries \in Nat
      /\ k - 1 = q * TableEntries + ((k - 1) % TableEntries)
  <2>1. /\ n \in Nat /\ q \in 0 .. n - 1
        /\ (k - 1) % TableEntries \in 0 .. TableEntries - 1
        /\ k - 1 = q * TableEntries + ((k - 1) % TableEntries)
    BY <1>1, TableOf
  <2>2. QED
    BY <2>1, <1>1
<1> HIDE DEF q, n
<1>3. ASSUME NEW t \in 1 .. q + 1 PROVE t \in used
  <2>1. PICK e \in Nat : q = (t - 1) + e
    <3>1. q - (t - 1) \in Nat /\ q = (t - 1) + (q - (t - 1))
      BY <1>2
    <3>2. QED
      BY <3>1
  <2>2. t - 1 \in Nat /\ t \in 1..n
    BY <1>2
  <2>3. q * TableEntries = (t - 1) * TableEntries + e * TableEntries
        /\ e * TableEntries \in Nat /\ (t - 1) * TableEntries \in Nat
    BY <1>1, <2>1, <2>2
  <2> DEFINE a == (t - 1) * TableEntries
             b == e * TableEntries
             c == q * TableEntries
             r == (k - 1) % TableEntries
  <2>4. c = a + b /\ a \in Nat /\ b \in Nat /\ r \in Nat /\ k - 1 = c + r
    BY <1>2, <2>3
  <2> HIDE DEF a, b, c, r
  <2>5. k > a
    BY <2>4, <1>1
  <2>6. k > (t - 1) * TableEntries
    BY <2>5 DEF a
  <2>7. QED
    BY <2>2, <2>6
<1>4. IsFiniteSet(used)
  <2>1. IsFiniteSet(1..n)
    BY <1>2, FS_Interval
  <2>2. QED
    BY <2>1, FS_Subset
<1>5. 1 .. q + 1 \subseteq used
  BY <1>3
<1> HIDE DEF used
<1>6. Cardinality(1 .. q + 1) = q + 1 /\ q \in Nat
  <2>1. q \in Nat /\ 1 <= q + 1
    BY <1>2
  <2>2. QED
    BY <2>1, FS_Interval
<1>7. Cardinality(1 .. q + 1) <= Cardinality(used) /\ Cardinality(used) \in Nat
  BY <1>4, <1>5, FS_Subset, FS_CardinalityType
<1>8. QED
  <2>1. q < Cardinality(used)
    BY <1>6, <1>7
  <2>2. QED
    BY <2>1 DEF q, used, n

(***************************************************************************)
(* The container that is read                                              *)
(***************************************************************************)

Whole(format, clusters, trait) ==
    IF format = "vhdx" THEN Chunked(clusters)
                       ELSE Tabled(format, clusters, trait = "encrypted")

HostBase(format, clusters) ==
    IF format = "vhdx" THEN 1 + BatSize(clusters) ELSE Base(clusters)

\* The container was made from these clusters, and may have been cut since.
Made(clusters, format, tail, cut, trait) ==
    /\ clusters \in ClusterSeqs /\ format \in Formats
    /\ tail \in Tails /\ cut \in Cuts /\ trait \in Traits \cap TraitsOf(format)
    /\ Stores(clusters, format, tail, cut, trait)

SourceInv ==
    \E clusters \in ClusterSeqs, format \in Formats, tail \in Tails, cut \in Cuts,
       trait \in Traits : Made(clusters, format, tail, cut, trait)

\* What the header and descriptor of such a container say.
SaysOf(format, clusters, trait) ==
    LET kinds == {clusters[k].kind : k \in DOMAIN clusters} IN
    {trait} \cup (IF "backed" \in kinds THEN {"parent"} ELSE {})
            \cup (IF format = "vmdk" /\ "packed" \in kinds
                  THEN {"compressed"} ELSE {})

\* What is then known of it.
Imaged(clusters, format, tail, cut, trait) ==
    LET whole == Whole(format, clusters, trait) IN
    /\ IsDisk(clusters) /\ format \in {"qcow2", "vmdk", "vhdx"}
    /\ tail \in 0 .. ClusterSize - 1 /\ cut \in Nat /\ cut <= Len(whole)
    /\ stored.clusters = clusters /\ stored.bytes = Flat(clusters, tail)
    /\ stored.whole = Image(format, clusters, tail, trait)
    /\ stored.whole.cells = whole
    /\ image.format = format /\ image.top = 1
    /\ image.says = SaysOf(format, clusters, trait)
    /\ image.unit = IF trait = "bad unit" THEN 0 ELSE ClusterSize
    /\ image.top_size = Cardinality({t \in 1..Tables(clusters) :
           \E j \in Stored(clusters) : j > (t - 1) * TableEntries})
    /\ image.size = ClusterSize * Len(clusters) - tail
    /\ image.cells = SubSeq(whole, 1, Len(whole) - cut)

LEMMA ImageIs ==
    ASSUME NEW clusters, NEW format, NEW tail, NEW cut, NEW trait,
           Made(clusters, format, tail, cut, trait)
    PROVE  Imaged(clusters, format, tail, cut, trait)
<1> DEFINE made == Image(format, clusters, tail, trait)
<1>1. IsDisk(clusters) /\ tail \in 0 .. ClusterSize - 1 /\ cut \in Nat
      /\ format \in {"qcow2", "vmdk", "vhdx"}
  BY DisksAssumption, FormatsAssumption DEF Made, Stores, IsDisk
<1>2. made.cells = Whole(format, clusters, trait)
  BY DEF Image, Whole, Chunked, Tabled
<1>3. /\ cut <= Len(made.cells) /\ stored.clusters = clusters
      /\ stored.bytes = Flat(clusters, tail) /\ stored.whole = made
      /\ image = [made EXCEPT !.cells = SubSeq(@, 1, Len(@) - cut)]
  BY DEF Made, Stores
<1>4. /\ made.format = format /\ made.top = 1
      /\ made.unit = IF trait = "bad unit" THEN 0 ELSE ClusterSize
      /\ made.size = ClusterSize * Len(clusters) - tail
      /\ made.top_size = Cardinality({t \in 1..Tables(clusters) :
             \E j \in Stored(clusters) : j > (t - 1) * TableEntries})
      /\ "cells" \in DOMAIN made
  BY DEF Image
<1>5. made.says = SaysOf(format, clusters, trait)
  BY DEF Image, SaysOf
<1>6. DOMAIN made = {"format", "says", "unit", "top", "top_size", "size", "cells"}
  BY DEF Image
<1> HIDE DEF made
<1>7. /\ image.format = made.format /\ image.top = made.top /\ image.unit = made.unit
      /\ image.size = made.size /\ image.top_size = made.top_size
      /\ image.says = made.says
      /\ image.cells = SubSeq(made.cells, 1, Len(made.cells) - cut)
  BY <1>3, <1>6
<1>8. QED
  BY <1>1, <1>2, <1>3, <1>4, <1>5, <1>7 DEF made, Imaged

\* The cells of the container as it was made: the entry of cluster k, and the place
\* of its content.
LEMMA WholeType ==
    ASSUME NEW clusters, IsDisk(clusters), NEW format, NEW trait
    PROVE  LET whole == Whole(format, clusters, trait)
               coded == format # "vhdx" /\ trait = "encrypted"
           IN  /\ whole \in Seq(AnyCell) /\ Len(whole) >= 1
               /\ HostBase(format, clusters) \in Nat \ {0}
               /\ \A k \in Stored(clusters) : \A i \in 1..ClusterSize :
                     LET at == HostOf(clusters, HostBase(format, clusters), k) + i IN
                     at \in 1..Len(whole) /\ whole[at] = Content(clusters, coded, k, i)
<1>1. CASE format = "vhdx"
  <2>1. /\ Whole(format, clusters, trait) = Chunked(clusters)
        /\ HostBase(format, clusters) = 1 + BatSize(clusters)
    BY <1>1 DEF Whole, HostBase
  <2>2. PICK whole : whole = Chunked(clusters)
    OBVIOUS
  <2>3. PICK base : base = 1 + BatSize(clusters)
    OBVIOUS
  <2>4. /\ whole \in Seq(AnyCell) /\ Len(whole) >= 1 /\ base \in Nat \ {0}
        /\ \A k \in Stored(clusters) : \A i \in 1..ClusterSize :
              /\ HostOf(clusters, base, k) + i \in 1..Len(whole)
              /\ whole[HostOf(clusters, base, k) + i] = Content(clusters, FALSE, k, i)
    <3>1. /\ whole \in Seq(AnyCell) /\ Len(whole) >= 1 /\ BatSize(clusters) \in Nat
          /\ \A k \in Stored(clusters) : \A i \in 1..ClusterSize :
                LET at == HostOf(clusters, 1 + BatSize(clusters), k) + i IN
                at \in 1..Len(whole) /\ whole[at] = Content(clusters, FALSE, k, i)
      BY <2>2, BlocksPlaced
    <3>2. base \in Nat \ {0}
      BY <2>3, <3>1
    <3>3. QED
      BY <2>3, <3>1, <3>2
  <2>5. \A k, i : Content(clusters, format # "vhdx" /\ trait = "encrypted", k, i)
                    = Content(clusters, FALSE, k, i)
    BY <1>1 DEF Content
  <2>6. QED
    BY <2>1, <2>2, <2>3, <2>4, <2>5
<1>2. CASE format # "vhdx"
  <2> DEFINE coded == trait = "encrypted"
  <2>1. /\ Whole(format, clusters, trait) = Tabled(format, clusters, coded)
        /\ HostBase(format, clusters) = Base(clusters)
        /\ (format # "vhdx" /\ trait = "encrypted") = coded
    BY <1>2 DEF Whole, HostBase
  <2> HIDE DEF coded
  <2>2. QED
    BY <2>1, TwoLevelsPlaced
<1>3. QED
  BY <1>1, <1>2

\* What is left of the cells is as it was.
LEMMA CellIs ==
    ASSUME NEW clusters, NEW format, NEW tail, NEW cut, NEW trait,
           Made(clusters, format, tail, cut, trait)
    PROVE  LET whole == Whole(format, clusters, trait) IN
           /\ image.cells \in Seq(AnyCell) /\ Len(image.cells) = Len(whole) - cut
           /\ \A i \in Nat : Present(i) =>
                 i + 1 \in 1..Len(whole) /\ Cell(i) = whole[i + 1]
<1> DEFINE whole == Whole(format, clusters, trait)
           m == Len(whole) - cut
<1>1. /\ IsDisk(clusters) /\ cut \in Nat /\ cut <= Len(whole)
      /\ image.cells = SubSeq(whole, 1, m)
  <2>1. Imaged(clusters, format, tail, cut, trait)
    BY ImageIs
  <2>2. IsDisk(clusters) /\ cut \in Nat /\ cut <= Len(whole)
    BY <2>1 DEF Imaged
  <2>3. image.cells = SubSeq(whole, 1, m)
    BY <2>1, Zenon DEF Imaged
  <2>4. QED
    BY <2>2, <2>3
<1>2. whole \in Seq(AnyCell)
  BY <1>1, WholeType
<1> HIDE DEF whole
<1>3. Len(whole) \in Nat /\ m \in 0..Len(whole)
  BY <1>1, <1>2
<1>4. /\ image.cells \in Seq(AnyCell) /\ Len(image.cells) = m
      /\ \A i \in 1..m : image.cells[i] = whole[i]
  <2> HIDE DEF m
  <2>1. QED
    BY <1>1, <1>2, <1>3, FrontOf
<1>5. ASSUME NEW i \in Nat, Present(i)
      PROVE  i + 1 \in 1..Len(whole) /\ Cell(i) = whole[i + 1]
  <2>1. i < m
    BY <1>4, <1>5 DEF Present
  <2> HIDE DEF m
  <2>2. i + 1 \in 1..m /\ i + 1 \in 1..Len(whole)
    BY <1>3, <2>1
  <2>3. QED
    BY <1>4, <2>2 DEF Cell
<1>6. QED
  BY <1>4, <1>5 DEF whole

\* What is in a container that open accepts.
LEMMA AcceptedIs ==
    ASSUME NEW clusters, NEW format, NEW tail, NEW cut, NEW trait,
           Made(clusters, format, tail, cut, trait), Accepts
    PROVE  /\ image.unit = ClusterSize
           /\ ~(format # "vhdx" /\ trait = "encrypted")
           /\ \A k \in 1..Len(clusters) :
                 /\ clusters[k].kind \in KindsOf(format) \ {"backed"}
                 /\ format # "qcow2" => clusters[k].kind # "packed"
<1> DEFINE kinds == {clusters[k].kind : k \in DOMAIN clusters}
<1>1. /\ IsDisk(clusters) /\ format \in {"qcow2", "vmdk", "vhdx"}
      /\ image.format = format
      /\ image.unit = IF trait = "bad unit" THEN 0 ELSE ClusterSize
      /\ trait \in image.says /\ ("backed" \in kinds => "parent" \in image.says)
      /\ format = "vmdk" /\ "packed" \in kinds => "compressed" \in image.says
  <2>1. /\ IsDisk(clusters) /\ format \in {"qcow2", "vmdk", "vhdx"}
        /\ image.format = format
        /\ image.unit = IF trait = "bad unit" THEN 0 ELSE ClusterSize
    BY ImageIs DEF Imaged
  <2>2. image.says = SaysOf(format, clusters, trait)
    BY ImageIs DEF Imaged
  <2> HIDE DEF kinds
  <2>3. /\ trait \in image.says /\ ("backed" \in kinds => "parent" \in image.says)
        /\ format = "vmdk" /\ "packed" \in kinds => "compressed" \in image.says
    BY <2>2 DEF SaysOf, kinds
  <2>4. QED
    BY <2>1, <2>3
<1>2. /\ trait \in TraitsOf(format) /\ DOMAIN clusters = 1..Len(clusters)
      /\ \A k \in DOMAIN clusters : clusters[k].kind \in KindsOf(format)
  BY <1>1 DEF Made, Stores, IsDisk
<1>3. image.unit = ClusterSize
  BY <1>1 DEF Accepts
<1>4. \A x, traits : x \in image.says /\ x \in traits => Says(traits)
  BY DEF Says
<1>5. CASE format = "qcow2"
  <2>1. ~QcowRefused
    BY <1>1, <1>5 DEF Accepts
  <2>2. "parent" \notin image.says /\ "encrypted" \notin image.says
    BY <1>4, <2>1 DEF QcowRefused
  <2>3. QED
    BY <1>1, <1>2, <1>3, <1>5, <2>2
<1>6. CASE format = "vmdk"
  <2>1. ~VmdkRefused
    BY <1>1, <1>6 DEF Accepts
  <2>2. "parent" \notin image.says /\ "compressed" \notin image.says
    BY <1>4, <2>1 DEF VmdkRefused
  <2>3. trait # "encrypted"
    BY <1>2, <1>6 DEF TraitsOf
  <2>4. QED
    BY <1>1, <1>2, <1>3, <1>6, <2>2, <2>3
<1>7. CASE format = "vhdx"
  <2>1. ~VhdxRefused
    BY <1>1, <1>7 DEF Accepts
  <2>2. "parent" \notin image.says
    BY <1>4, <2>1 DEF VhdxRefused
  <2>3. "packed" \notin KindsOf(format)
    BY <1>7 DEF KindsOf
  <2>4. QED
    BY <1>1, <1>2, <1>3, <1>7, <2>2, <2>3
<1>8. QED
  BY <1>1, <1>5, <1>6, <1>7

\* What the entry of a cluster says.
EntrySays(clusters, format, base, k) ==
    LET entry == EntryOf(format, clusters, base, k)
        host == HostOf(clusters, base, k)
    IN  /\ host \in Nat \ {0} /\ entry.byte = EntryCell
        /\ clusters[k].kind = "hole" =>
              k \notin Stored(clusters) /\ entry.host = 0 /\ entry.flags = {}
        /\ clusters[k].kind = "data" =>
              /\ k \in Stored(clusters) /\ entry.host = host
              /\ entry.flags = IF format = "vhdx" THEN {"fully present"} ELSE {}
        /\ clusters[k].kind = "packed" =>
              /\ k \in Stored(clusters) /\ entry.host = host
              /\ format = "qcow2" => entry.flags = {"compressed"}
        /\ clusters[k].kind \in {"hole", "data", "packed"}

LEMMA EntryIs ==
    ASSUME NEW clusters, IsDisk(clusters), NEW format, NEW base \in Nat \ {0},
           NEW k \in 1..Len(clusters),
           clusters[k].kind \in KindsOf(format) \ {"backed", "zeroed"}
    PROVE  EntrySays(clusters, format, base, k)
<1> DEFINE entry == EntryOf(format, clusters, base, k)
           host == HostOf(clusters, base, k)
<1>1. host \in Nat \ {0} /\ entry.byte = EntryCell
  BY EntryType
<1>2. clusters[k].kind \in {"hole", "data", "packed"}
  BY DEF KindsOf
<1>3. k \in DOMAIN clusters
  BY DEF IsDisk
<1>4. \A h, f : Entry(h, f).host = h /\ Entry(h, f).flags = f
  BY DEF Entry
<1>5. CASE clusters[k].kind = "hole"
  <2>1. k \notin Stored(clusters)
    BY <1>5 DEF Stored
  <2>2. entry = Entry(0, {})
    BY <2>1 DEF EntryOf
  <2> HIDE DEF entry, host
  <2>3. QED
    BY <1>1, <1>2, <1>4, <1>5, <2>1, <2>2 DEF entry, host, EntrySays
<1>6. CASE clusters[k].kind # "hole"
  <2>1. k \in Stored(clusters) /\ clusters[k].kind # "zeroed"
    BY <1>2, <1>3, <1>6 DEF Stored
  <2>2. entry = Entry(host, FlagsOf(format, clusters[k].kind))
    BY <2>1 DEF EntryOf
  <2>3. FlagsOf(format, "data") = IF format = "vhdx" THEN {"fully present"} ELSE {}
    BY DEF FlagsOf
  <2>4. FlagsOf("qcow2", "packed") = {"compressed"}
    BY DEF FlagsOf
  <2> HIDE DEF entry, host
  <2>5. entry.host = host /\ entry.flags = FlagsOf(format, clusters[k].kind)
    BY <2>2, <1>4
  <2>6. QED
    BY <1>1, <1>2, <1>6, <2>1, <2>3, <2>4, <2>5 DEF entry, host, EntrySays
<1>7. QED
  BY <1>5, <1>6

\* Every entry of the container is still there.
EntriesThere ==
    \A i \in DOMAIN stored.whole.cells :
       stored.whole.cells[i].byte = EntryCell => i \in DOMAIN image.cells

\* The look up of a cluster finds its own content, or a hole where there is one; it
\* fails only where an entry is lost or the cluster is compressed.
Finds(clusters, k, place, base) ==
    /\ place \in {Failure, Hole, At(HostOf(clusters, base, k))}
    /\ place = Hole => clusters[k].kind = "hole"
    /\ place = At(HostOf(clusters, base, k)) => clusters[k].kind = "data"
    /\ place = Failure => clusters[k].kind = "packed" \/ ~EntriesThere

LEMMA Kinds ==
    /\ Failure.kind = "failure" /\ Hole.kind = "hole"
    /\ \A host : At(host).kind = "at" /\ At(host).host = host
  BY DEF Failure, Hole, At

LEMMA BlockFound ==
    ASSUME NEW clusters, NEW tail, NEW cut, NEW trait,
           Made(clusters, "vhdx", tail, cut, trait), Accepts,
           NEW k \in 1..Len(clusters), clusters[k].kind # "zeroed"
    PROVE  Finds(clusters, k, LocateInBat(k - 1), HostBase("vhdx", clusters))
<1> DEFINE whole == Whole("vhdx", clusters, trait)
           base == HostBase("vhdx", clusters)
           at == k + ((k - 1) \div ChunkRatio)
           entry == EntryOf("vhdx", clusters, base, k)
           place == LocateInBat(k - 1)
<1>1. /\ IsDisk(clusters) /\ image.top = 1 /\ stored.whole.cells = whole
  <2>1. Imaged(clusters, "vhdx", tail, cut, trait)
    BY ImageIs
  <2>2. QED
    BY <2>1 DEF Imaged
<1>2. /\ whole = Chunked(clusters) /\ base = 1 + BatSize(clusters)
  BY DEF Whole, HostBase
<1>3. /\ BatSize(clusters) \in Nat
      /\ 1 + k + ((k - 1) \div ChunkRatio) \in 1..Len(whole)
      /\ whole[1 + k + ((k - 1) \div ChunkRatio)] = entry
  <2>1. PICK cells : cells = whole
    OBVIOUS
  <2> HIDE DEF whole, base
  <2>2. cells = Chunked(clusters)
    BY <1>2, <2>1
  <2>3. /\ BatSize(clusters) \in Nat
        /\ 1 + k + ((k - 1) \div ChunkRatio) \in 1..Len(cells)
        /\ cells[1 + k + ((k - 1) \div ChunkRatio)]
              = EntryOf("vhdx", clusters, 1 + BatSize(clusters), k)
    BY <2>2, <1>1, BlocksPlaced
  <2>4. QED
    BY <2>1, <2>3, <1>2
<1>4. at \in Nat /\ at + 1 = 1 + k + ((k - 1) \div ChunkRatio)
      /\ 1 + (k - 1) + ((k - 1) \div ChunkRatio) = at
  <2> DEFINE q == (k - 1) \div ChunkRatio
  <2>1. k \in Nat /\ k - 1 \in Nat /\ ChunkRatio \in Nat \ {0}
    BY <1>1, GeometryAssumption DEF IsDisk
  <2>2. q \in Nat
    BY <2>1, Divided
  <2> HIDE DEF q
  <2>3. k + q \in Nat /\ (k + q) + 1 = 1 + k + q /\ 1 + (k - 1) + q = k + q
    BY <2>1, <2>2
  <2>4. QED
    BY <2>3 DEF q
<1>5. base \in Nat \ {0}
  BY <1>2, <1>3
<1>6. /\ clusters[k].kind \in KindsOf("vhdx") \ {"backed", "zeroed"}
      /\ clusters[k].kind # "packed"
  BY AcceptedIs
<1>7. /\ entry.byte = EntryCell /\ clusters[k].kind \in {"hole", "data"}
      /\ clusters[k].kind = "hole" => entry.flags = {}
      /\ clusters[k].kind = "data" =>
            /\ entry.host = HostOf(clusters, base, k)
            /\ entry.flags = {"fully present"}
  <2> HIDE DEF base
  <2>1. EntrySays(clusters, "vhdx", base, k)
    BY <1>1, <1>5, <1>6, EntryIs
  <2>2. QED
    BY <2>1, <1>6 DEF EntrySays
<1>8. Present(at) => Cell(at) = entry
  <2>1. ASSUME Present(at) PROVE Cell(at) = whole[at + 1]
    BY <1>4, <2>1, CellIs
  <2> HIDE DEF whole, at, entry
  <2>2. QED
    BY <1>3, <1>4, <2>1
<1>9. EntriesThere => Present(at)
  <2> SUFFICES ASSUME EntriesThere PROVE Present(at)
    OBVIOUS
  <2>1. at + 1 \in DOMAIN whole /\ whole[at + 1].byte = EntryCell
    <3>1. whole \in Seq(AnyCell)
      BY <1>1, WholeType
    <3> HIDE DEF whole, at, entry
    <3>2. DOMAIN whole = 1..Len(whole)
      BY <3>1
    <3>3. QED
      BY <3>2, <1>3, <1>4, <1>7
  <2>2. image.cells \in Seq(AnyCell)
    BY CellIs
  <2> HIDE DEF whole, at
  <2>3. at + 1 \in DOMAIN image.cells
    BY <2>1, <1>1 DEF EntriesThere
  <2>4. at + 1 \in 1..Len(image.cells) /\ Len(image.cells) \in Nat
    BY <2>2, <2>3
  <2>5. QED
    BY <2>4, <1>4 DEF Present
<1>10. place = IF ~Present(at) THEN Failure
               ELSE IF "fully present" \notin Cell(at).flags THEN Hole
               ELSE At(Cell(at).host)
  <2>1. image.top + (k - 1) + ((k - 1) \div ChunkRatio) = at
    <3> HIDE DEF at
    <3>1. QED
      BY <1>1, <1>4
  <2> HIDE DEF at
  <2>2. QED
    BY <2>1 DEF LocateInBat
<1> HIDE DEF at, whole, base, entry, place
<1>11. QED
  <2>1. CASE ~Present(at)
    <3>1. place = Failure
      BY <2>1, <1>10
    <3>2. QED
      BY <2>1, <3>1, <1>9, Kinds DEF Finds, place, base
  <2>2. CASE Present(at) /\ clusters[k].kind = "hole"
    <3>1. place = Hole
      BY <2>2, <1>7, <1>8, <1>10
    <3>2. QED
      BY <2>2, <3>1, Kinds DEF Finds, place, base
  <2>3. CASE Present(at) /\ clusters[k].kind = "data"
    <3>1. place = At(HostOf(clusters, base, k))
      BY <2>3, <1>7, <1>8, <1>10
    <3>2. QED
      BY <2>3, <3>1, Kinds DEF Finds, place, base
  <2>4. QED
    BY <2>1, <2>2, <2>3, <1>7

\* The entry of a cluster in a container with tables of two levels: its table is
\* there, or it is a hole; then its entry is there, unless it is lost.
LEMMA TableLook ==
    ASSUME NEW clusters, NEW format, NEW tail, NEW cut, NEW trait,
           Made(clusters, format, tail, cut, trait), format # "vhdx",
           NEW k \in 1..Len(clusters),
           EntrySays(clusters, format, HostBase(format, clusters), k)
    PROVE  LET topAt == image.top + ((k - 1) \div TableEntries)
               at == Cell(topAt).host + ((k - 1) % TableEntries)
           IN  /\ EntriesThere => Present(topAt)
               /\ Present(topAt) /\ Cell(topAt).host = 0 => clusters[k].kind = "hole"
               /\ Present(topAt) /\ Cell(topAt).host # 0 =>
                     /\ EntriesThere => Present(at)
                     /\ Present(at) =>
                           Cell(at) = EntryOf(format, clusters,
                                              HostBase(format, clusters), k)
<1> DEFINE whole == Whole(format, clusters, trait)
           base == HostBase(format, clusters)
           n == Tables(clusters)
           q == (k - 1) \div TableEntries
           r == (k - 1) % TableEntries
           gt == 1 + n + q * TableEntries
           entry == EntryOf(format, clusters, base, k)
<1>1. IsDisk(clusters) /\ image.top = 1 /\ stored.whole.cells = whole
  BY ImageIs DEF Imaged
<1>2. /\ n \in Nat /\ q \in Nat /\ gt \in Nat \ {0}
      /\ 2 + q \in 1..Len(whole) /\ whole[2 + q].byte = EntryCell
      /\ whole[2 + q].host \in {0, gt}
      /\ k \in Stored(clusters) => whole[2 + q].host = gt
      /\ gt + r = n + k
      /\ n + k + 1 \in 1..Len(whole) /\ whole[n + k + 1] = entry
  <2> DEFINE coded == trait = "encrypted"
  <2>1. whole = Tabled(format, clusters, coded) /\ base = Base(clusters)
    BY DEF Whole, HostBase
  <2>2. PathIs(clusters, format, whole, k)
    <3> HIDE DEF whole, coded
    <3>1. QED
      BY <2>1, <1>1, TwoLevelCells
  <2> HIDE DEF whole, base, coded
  <2>3. QED
    BY <2>1, <2>2 DEF PathIs
<1>3. /\ entry.byte = EntryCell
      /\ clusters[k].kind = "hole" \/ k \in Stored(clusters)
  BY DEF EntrySays
<1>4. whole \in Seq(AnyCell) /\ image.cells \in Seq(AnyCell)
  BY <1>1, WholeType, CellIs
<1>5. \A i \in Nat : Present(i) => Cell(i) = whole[i + 1]
  BY CellIs
<1> HIDE DEF whole, base, n, q, r, gt, entry
<1>6. ASSUME NEW i \in Nat, i + 1 \in 1..Len(whole), whole[i + 1].byte = EntryCell,
             EntriesThere
      PROVE  Present(i)
  <2>1. i + 1 \in DOMAIN whole
    BY <1>4, <1>6
  <2>2. i + 1 \in DOMAIN image.cells
    BY <2>1, <1>1, <1>6 DEF EntriesThere
  <2>3. i + 1 \in 1..Len(image.cells) /\ Len(image.cells) \in Nat
    BY <2>2, <1>4
  <2>4. QED
    BY <2>3 DEF Present
<1> DEFINE topAt == 1 + q
           at == n + k
<1>7. /\ topAt \in Nat /\ topAt + 1 = 2 + q /\ at \in Nat /\ at + 1 = n + k + 1
  BY <1>1, <1>2 DEF IsDisk
<1>8. EntriesThere => Present(topAt) /\ Present(at)
  <2> HIDE DEF topAt, at
  <2>1. QED
    BY <1>2, <1>3, <1>6, <1>7
<1>9. /\ Present(topAt) => Cell(topAt) = whole[2 + q]
      /\ Present(at) => Cell(at) = entry
  <2> HIDE DEF topAt, at
  <2>1. QED
    BY <1>2, <1>5, <1>7
<1>10. image.top + ((k - 1) \div TableEntries) = topAt
  BY <1>1 DEF q
<1>11. gt + ((k - 1) % TableEntries) = at
  BY <1>2 DEF r
<1> HIDE DEF topAt, at
<1>12. Present(topAt) /\ Cell(topAt).host = 0 => clusters[k].kind = "hole"
  BY <1>2, <1>3, <1>9
<1>13. Present(topAt) /\ Cell(topAt).host # 0 => Cell(topAt).host = gt
  BY <1>2, <1>9
<1>14. QED
  <2>1. Present(topAt) /\ Cell(topAt).host # 0 =>
           Cell(topAt).host + ((k - 1) % TableEntries) = at
    BY <1>11, <1>13
  <2>2. QED
    BY <2>1, <1>8, <1>9, <1>10, <1>12 DEF entry, base

LEMMA GrainFound ==
    ASSUME NEW clusters, NEW tail, NEW cut, NEW trait,
           Made(clusters, "vmdk", tail, cut, trait), Accepts,
           NEW k \in 1..Len(clusters), clusters[k].kind # "zeroed"
    PROVE  Finds(clusters, k, LocateGrain(k - 1), HostBase("vmdk", clusters))
<1> DEFINE base == HostBase("vmdk", clusters)
           entry == EntryOf("vmdk", clusters, base, k)
           topAt == image.top + ((k - 1) \div TableEntries)
           gt == Cell(topAt).host
           at == gt + ((k - 1) % TableEntries)
           place == LocateGrain(k - 1)
           host == HostOf(clusters, base, k)
<1>1. IsDisk(clusters)
  BY ImageIs DEF Imaged
<1>2. base \in Nat \ {0}
  BY <1>1, WholeType
<1>3. /\ clusters[k].kind \in KindsOf("vmdk") \ {"backed", "zeroed"}
      /\ clusters[k].kind # "packed"
  BY AcceptedIs
<1>4. EntrySays(clusters, "vmdk", base, k)
  <2> HIDE DEF base
  <2>1. QED
    BY <1>1, <1>2, <1>3, EntryIs
<1>5. /\ clusters[k].kind \in {"hole", "data"} /\ host # 0
      /\ clusters[k].kind = "hole" => entry.host = 0
      /\ clusters[k].kind = "data" => entry.host = host
  BY <1>3, <1>4 DEF EntrySays
<1>6. /\ EntriesThere => Present(topAt)
      /\ Present(topAt) /\ gt = 0 => clusters[k].kind = "hole"
      /\ Present(topAt) /\ gt # 0 =>
            /\ EntriesThere => Present(at)
            /\ Present(at) => Cell(at) = entry
  BY <1>4, TableLook
<1>7. place = IF ~Present(topAt)  THEN Failure
              ELSE IF gt = 0      THEN Hole
              ELSE IF ~Present(at) THEN Failure
              ELSE HostOrHole(Cell(at).host)
  BY DEF LocateGrain
<1> HIDE DEF base, entry, topAt, gt, at, place, host
<1>8. place = Failure => ~EntriesThere
  <2>1. \A h : HostOrHole(h) # Failure
    BY Kinds DEF HostOrHole
  <2>2. Hole # Failure
    BY Kinds
  <2>3. QED
    BY <2>1, <2>2, <1>6, <1>7
<1>9. /\ place \in {Failure, Hole, At(host)}
      /\ place = Hole => clusters[k].kind = "hole"
      /\ place = At(host) => clusters[k].kind = "data"
  <2>1. HostOrHole(0) = Hole /\ HostOrHole(host) = At(host)
    BY <1>5 DEF HostOrHole
  <2>2. Hole # Failure /\ Hole # At(host) /\ At(host) # Failure
    BY Kinds
  <2>3. CASE place = Failure
    BY <2>2, <2>3
  <2>4. CASE place # Failure /\ gt = 0
    BY <2>2, <2>4, <1>6, <1>7
  <2>5. CASE place # Failure /\ gt # 0
    <3>1. place = HostOrHole(entry.host)
      BY <2>5, <1>6, <1>7
    <3>2. QED
      BY <3>1, <2>1, <2>2, <1>5
  <2>6. QED
    BY <2>3, <2>4, <2>5
<1>10. QED
  BY <1>8, <1>9 DEF Finds, place, host, base

LEMMA ClusterFound ==
    ASSUME NEW clusters, NEW tail, NEW cut, NEW trait,
           Made(clusters, "qcow2", tail, cut, trait), Accepts,
           NEW k \in 1..Len(clusters), clusters[k].kind # "zeroed"
    PROVE  Finds(clusters, k, LocateCluster(k - 1), HostBase("qcow2", clusters))
<1> DEFINE base == HostBase("qcow2", clusters)
           entry == EntryOf("qcow2", clusters, base, k)
           index == (k - 1) \div TableEntries
           topAt == image.top + index
           table == Cell(topAt).host
           at == table + ((k - 1) % TableEntries)
           place == LocateCluster(k - 1)
           host == HostOf(clusters, base, k)
           kind == clusters[k].kind
<1>1. /\ IsDisk(clusters)
      /\ image.top_size = Cardinality({t \in 1..Tables(clusters) :
             \E j \in Stored(clusters) : j > (t - 1) * TableEntries})
  BY ImageIs DEF Imaged
<1>2. base \in Nat \ {0}
  BY <1>1, WholeType
<1>3. kind \in KindsOf("qcow2") \ {"backed", "zeroed"}
  BY AcceptedIs
<1>4. EntrySays(clusters, "qcow2", base, k)
  <2> HIDE DEF base
  <2>1. QED
    BY <1>1, <1>2, <1>3, EntryIs
<1>5. /\ kind \in {"hole", "data", "packed"} /\ host # 0
      /\ kind = "hole" => entry.host = 0 /\ entry.flags = {}
      /\ kind = "data" => k \in Stored(clusters) /\ entry.host = host /\ entry.flags = {}
      /\ kind = "packed" => k \in Stored(clusters) /\ entry.flags = {"compressed"}
  BY <1>4 DEF EntrySays
<1>6. /\ EntriesThere => Present(topAt)
      /\ Present(topAt) /\ table = 0 => kind = "hole"
      /\ Present(topAt) /\ table # 0 =>
            /\ EntriesThere => Present(at)
            /\ Present(at) => Cell(at) = entry
  BY <1>4, TableLook
<1>7. index >= image.top_size => kind = "hole"
  <2>1. ASSUME k \in Stored(clusters) PROVE ~(index >= image.top_size)
    <3>1. index < image.top_size
      BY <2>1, <1>1, TopReaches
    <3>2. index \in Nat /\ image.top_size \in Nat
      <4>1. k - 1 \in Nat /\ TableEntries \in Nat \ {0}
        BY <1>1, GeometryAssumption DEF IsDisk
      <4>2. IsFiniteSet(1..Tables(clusters))
        <5>1. Tables(clusters) \in Nat
          BY <1>1, TableOf
        <5>2. QED
          BY <5>1, FS_Interval
      <4>3. IsFiniteSet({t \in 1..Tables(clusters) :
                \E j \in Stored(clusters) : j > (t - 1) * TableEntries})
        BY <4>2, FS_Subset
      <4>4. image.top_size \in Nat
        BY <4>3, <1>1, FS_CardinalityType
      <4>5. QED
        BY <4>1, <4>4, Divided
    <3> HIDE DEF index
    <3>3. QED
      BY <3>1, <3>2
  <2>2. QED
    BY <2>1, <1>5
<1>8. place = IF index >= image.top_size THEN Hole
              ELSE IF ~Present(topAt)    THEN Failure
              ELSE IF table = 0          THEN Hole
              ELSE IF ~Present(at) \/ "compressed" \in Cell(at).flags THEN Failure
              ELSE HostOrHole(Cell(at).host)
  BY DEF LocateCluster
<1> HIDE DEF base, entry, index, topAt, table, at, place, host, kind
<1>9. place = Failure => kind = "packed" \/ ~EntriesThere
  <2>1. \A h : HostOrHole(h) # Failure
    BY Kinds DEF HostOrHole
  <2>2. Hole # Failure
    BY Kinds
  <2>3. QED
    BY <2>1, <2>2, <1>5, <1>6, <1>8
<1>10. /\ place \in {Failure, Hole, At(host)}
       /\ place = Hole => kind = "hole"
       /\ place = At(host) => kind = "data"
  <2>1. HostOrHole(0) = Hole /\ HostOrHole(host) = At(host)
    BY <1>5 DEF HostOrHole
  <2>2. Hole # Failure /\ Hole # At(host) /\ At(host) # Failure
    BY Kinds
  <2>3. CASE place = Failure
    BY <2>2, <2>3
  <2>4. CASE place # Failure /\ index >= image.top_size
    BY <2>2, <2>4, <1>7, <1>8
  <2>5. CASE place # Failure /\ ~(index >= image.top_size) /\ table = 0
    BY <2>2, <2>5, <1>6, <1>8
  <2>6. CASE place # Failure /\ ~(index >= image.top_size) /\ table # 0
    <3>1. /\ place = HostOrHole(entry.host) /\ "compressed" \notin entry.flags
      BY <2>6, <1>6, <1>8
    <3>2. kind \in {"hole", "data"}
      BY <3>1, <1>5
    <3>3. QED
      BY <3>1, <3>2, <2>1, <2>2, <1>5
  <2>7. QED
    BY <2>3, <2>4, <2>5, <2>6
<1>11. QED
  BY <1>9, <1>10 DEF Finds, place, host, base, kind

LEMMA Found ==
    ASSUME NEW clusters, NEW format, NEW tail, NEW cut, NEW trait,
           Made(clusters, format, tail, cut, trait), Accepts,
           NEW k \in 1..Len(clusters), clusters[k].kind # "zeroed"
    PROVE  Finds(clusters, k, Locate(k - 1), HostBase(format, clusters))
<1>1. format \in {"qcow2", "vmdk", "vhdx"} /\ image.format = format
  BY ImageIs DEF Imaged
<1>2. CASE format = "qcow2"
  <2>1. Locate(k - 1) = LocateCluster(k - 1)
    BY <1>1, <1>2 DEF Locate
  <2>2. QED
    BY <2>1, <1>2, ClusterFound
<1>3. CASE format = "vmdk"
  <2>1. Locate(k - 1) = LocateGrain(k - 1)
    BY <1>1, <1>3 DEF Locate
  <2>2. QED
    BY <2>1, <1>3, GrainFound
<1>4. CASE format = "vhdx"
  <2>1. Locate(k - 1) = LocateInBat(k - 1)
    BY <1>1, <1>4 DEF Locate
  <2>2. QED
    BY <2>1, <1>4, BlockFound
<1>5. QED
  BY <1>1, <1>2, <1>3, <1>4

(***************************************************************************)
(* The type invariant                                                      *)
(***************************************************************************)

ReadsWithin ==
    phase = "reading" /\ request.offset <= image.size => Len(buf) <= Wanted

TypeInv ==
    /\ SourceInv
    /\ phase \in {"closed", "refused", "open", "reading"}
    /\ phase \in {"open", "reading"} => Accepts
    /\ request \in [offset : Nat, len : Nat]
    /\ buf \in Seq(Int)
    /\ phase # "reading" => buf = <<>> /\ request = NoRequest
    /\ ReadsWithin
    /\ answer \in {<<"none">>, <<"error">>} \/ answer[1] = "data"

\* A container that no step changes is accepted, or not, as before.
LEMMA SourceStays ==
    UNCHANGED <<stored, image>> =>
       /\ SourceInv' = SourceInv /\ Accepts' = Accepts /\ image.size' = image.size
       /\ (UNCHANGED request => Wanted' = Wanted)
  BY DEF SourceInv, Made, Stores, Accepts, QcowRefused, VmdkRefused, VhdxRefused, Says,
         Present, Wanted

\* A cluster that is looked up is at an offset.
LEMMA PlaceType ==
    ASSUME SourceInv, NEW cluster \in Nat, Locate(cluster).kind = "at"
    PROVE  Locate(cluster).host \in Nat
<1>1. PICK clusters, format, tail, cut, trait : Made(clusters, format, tail, cut, trait)
  BY DEF SourceInv
<1>2. image.top = 1 /\ image.format = format /\ format \in {"qcow2", "vmdk", "vhdx"}
  BY <1>1, ImageIs DEF Imaged
<1>3. \A i \in Nat : Present(i) => Cell(i).host \in Nat
  <2>1. image.cells \in Seq(AnyCell)
    BY <1>1, CellIs
  <2> SUFFICES ASSUME NEW i \in Nat, Present(i) PROVE Cell(i).host \in Nat
    OBVIOUS
  <2>2. i + 1 \in 1..Len(image.cells)
    BY <2>1 DEF Present
  <2>3. image.cells[i + 1] \in AnyCell
    BY <2>1, <2>2
  <2>4. QED
    BY <2>3 DEF Cell, AnyCell
<1>4. /\ Hole.kind # "at" /\ Failure.kind # "at"
      /\ \A h : HostOrHole(h).kind = "at" => HostOrHole(h).host = h
      /\ \A h : At(h).host = h
  BY Kinds DEF HostOrHole
<1>5. \A d \in Nat \ {0} : cluster \div d \in Nat /\ cluster % d \in Nat
  <2> SUFFICES ASSUME NEW d \in Nat \ {0}
               PROVE  cluster \div d \in Nat /\ cluster % d \in Nat
    OBVIOUS
  <2>1. cluster \div d \in Nat /\ cluster % d \in 0 .. d - 1
    BY Divided
  <2>2. QED
    BY <2>1
<1>6. /\ cluster \div TableEntries \in Nat /\ cluster % TableEntries \in Nat
      /\ cluster \div ChunkRatio \in Nat
  BY <1>5, GeometryAssumption
<1> DEFINE topAt == image.top + (cluster \div TableEntries)
           at == Cell(topAt).host + (cluster % TableEntries)
<1>7. topAt \in Nat /\ (Present(topAt) => at \in Nat)
  <2>1. topAt \in Nat
    BY <1>2, <1>6
  <2> HIDE DEF topAt
  <2>2. QED
    BY <2>1, <1>3, <1>6
<1>8. CASE format = "qcow2"
  <2>1. Locate(cluster) = LocateCluster(cluster)
    BY <1>2, <1>8 DEF Locate
  <2>2. LocateCluster(cluster).kind = "at" =>
           /\ Present(topAt) /\ Present(at)
           /\ LocateCluster(cluster) = HostOrHole(Cell(at).host)
    BY <1>4 DEF LocateCluster
  <2> HIDE DEF topAt, at
  <2>3. QED
    BY <2>1, <2>2, <1>3, <1>4, <1>7
<1>9. CASE format = "vmdk"
  <2>1. Locate(cluster) = LocateGrain(cluster)
    BY <1>2, <1>9 DEF Locate
  <2>2. LocateGrain(cluster).kind = "at" =>
           /\ Present(topAt) /\ Present(at)
           /\ LocateGrain(cluster) = HostOrHole(Cell(at).host)
    BY <1>4 DEF LocateGrain
  <2> HIDE DEF topAt, at
  <2>3. QED
    BY <2>1, <2>2, <1>3, <1>4, <1>7
<1>10. CASE format = "vhdx"
  <2>1. Locate(cluster) = LocateInBat(cluster)
    BY <1>2, <1>10 DEF Locate
  <2> DEFINE bat == image.top + cluster + (cluster \div ChunkRatio)
  <2>2. LocateInBat(cluster).kind = "at" =>
           Present(bat) /\ LocateInBat(cluster) = At(Cell(bat).host)
    BY <1>4 DEF LocateInBat
  <2>3. bat \in Nat
    BY <1>2, <1>6
  <2> HIDE DEF bat
  <2>4. QED
    BY <2>1, <2>2, <2>3, <1>3, <1>4
<1>11. QED
  BY <1>2, <1>8, <1>9, <1>10

\* A turn of the loop of read_at is within one cluster, and within the range.
LEMMA TurnIs ==
    ASSUME TypeInv, Filling,
           NEW clusters, NEW format, NEW tail, NEW cut, NEW trait,
           Made(clusters, format, tail, cut, trait)
    PROVE  LET k == (Here \div ClusterSize) + 1 IN
           /\ image.unit = ClusterSize /\ ClusterSize \in Nat \ {0}
           /\ Len(buf) \in Nat /\ Here = request.offset + Len(buf) /\ Here \in Nat
           /\ Within \in 0 .. ClusterSize - 1
           /\ Take \in Nat \ {0} /\ Take <= ClusterSize - Within
           /\ Len(buf) + Take <= Wanted /\ request.offset + Wanted <= image.size
           /\ k \in 1..Len(clusters) /\ k - 1 = Here \div image.unit
           /\ Here = (k - 1) * ClusterSize + Within
<1> DEFINE k == (Here \div ClusterSize) + 1
           o == request.offset
           l == Len(buf)
           n == Len(clusters)
<1>1. /\ IsDisk(clusters) /\ tail \in 0 .. ClusterSize - 1
      /\ image.size = ClusterSize * n - tail
  BY ImageIs DEF Imaged
<1>2. image.unit = ClusterSize
  BY AcceptedIs DEF TypeInv, Filling
<1>3. ClusterSize \in Nat \ {0} /\ n \in Nat /\ ClusterSize * n \in Nat
  BY <1>1, GeometryAssumption DEF IsDisk
<1>4. o \in Nat /\ request.len \in Nat /\ l \in Nat
      /\ o <= image.size /\ l < Wanted
  BY DEF TypeInv, Filling
<1>5. image.size \in Int
  BY <1>1, <1>3
<1>6. /\ Wanted \in Int /\ Wanted <= request.len /\ Wanted <= image.size - o
  BY <1>4, <1>5 DEF Wanted, Smaller
<1>7. Here = o + l /\ Here \in Nat /\ Here < image.size
  <2>1. Here = o + l
    BY DEF Here
  <2> HIDE DEF o, l
  <2>2. QED
    BY <2>1, <1>4, <1>5, <1>6
<1>8. /\ Here \div ClusterSize \in Nat /\ Within \in 0 .. ClusterSize - 1
      /\ Here = (Here \div ClusterSize) * ClusterSize + Within
  <2>1. Within = Here % ClusterSize
    BY <1>2 DEF Within
  <2>2. QED
    BY <2>1, <1>3, <1>7, Divided
<1>9. Here \div ClusterSize < n
  <2>1. Here < n * ClusterSize
    <3> DEFINE all == ClusterSize * n
    <3>1. all \in Nat /\ image.size = all - tail /\ tail \in Nat
      BY <1>1, <1>3
    <3>2. n * ClusterSize = all
      BY <1>3
    <3> HIDE DEF all
    <3>3. QED
      BY <3>1, <3>2, <1>7
  <2>2. QED
    BY <2>1, <1>3, <1>7, DividedBelow
<1> DEFINE w == Within
           here == Here
           want == Wanted
<1>10. /\ Take \in Nat \ {0} /\ Take <= ClusterSize - w /\ l + Take <= want
  <2>1. Take = Smaller(ClusterSize - w, want - l)
    BY <1>2 DEF Take
  <2>2. ClusterSize - w \in Nat \ {0} /\ want - l \in Nat \ {0}
    <3>1. w \in 0 .. ClusterSize - 1
      BY <1>8
    <3> HIDE DEF w, want, l
    <3>2. QED
      BY <3>1, <1>3, <1>4, <1>6 DEF want, l
  <2> HIDE DEF w, want, l
  <2>3. Take \in {ClusterSize - w, want - l} /\ Take <= ClusterSize - w
        /\ Take <= want - l
    BY <2>1, <2>2 DEF Smaller
  <2>4. want \in Int /\ l \in Nat
    BY <1>4, <1>6 DEF want, l
  <2>5. QED
    BY <2>2, <2>3, <2>4
<1>11. o + want <= image.size
  <2> HIDE DEF o, want
  <2>1. want <= image.size - o /\ want \in Int /\ o \in Nat
    BY <1>4, <1>6 DEF want
  <2>2. QED
    BY <2>1, <1>5
<1>12. k \in 1..n /\ k - 1 = Here \div ClusterSize
  BY <1>3, <1>8, <1>9, SMTT(30)
<1> HIDE DEF o, l, n, w, here, want
<1>13. QED
  BY <1>2, <1>3, <1>4, <1>7, <1>8, <1>10, <1>11, <1>12 DEF o, l, n, w, want

\* A turn of the loop adds that many bytes.
LEMMA TurnAdds ==
    ASSUME TypeInv, Filling, NEW more \in [1..Take -> Int], buf' = buf \o more,
           UNCHANGED <<stored, image, phase, request, answer>>
    PROVE  TypeInv'
<1>1. PICK clusters, format, tail, cut, trait : Made(clusters, format, tail, cut, trait)
  BY DEF TypeInv, SourceInv
<1>2. /\ Len(buf) \in Nat /\ Take \in Nat \ {0} /\ Len(buf) + Take <= Wanted
      /\ buf \in Seq(Int) /\ phase = "reading"
  BY <1>1, TurnIs DEF TypeInv, Filling
<1>3. buf' \in Seq(Int) /\ Len(buf') = Len(buf) + Take
  <2>1. more \in Seq(Int) /\ Len(more) = Take
    <3>1. PICK m \in Nat : m = Take
      BY <1>2
    <3>2. more \in [1..m -> Int]
      BY <3>1
    <3>3. more \in Seq(Int) /\ Len(more) = m
      BY <3>2, FunctionIsSequence
    <3>4. QED
      BY <3>1, <3>3
  <2>2. buf \o more \in Seq(Int) /\ Len(buf \o more) = Len(buf) + Len(more)
    BY <1>2, <2>1, Behind
  <2>3. QED
    BY <2>1, <2>2
<1>4. /\ SourceInv' = SourceInv /\ Accepts' = Accepts /\ image.size' = image.size
      /\ Wanted' = Wanted
  BY SourceStays
<1>5. ReadsWithin'
  BY <1>2, <1>3, <1>4 DEF ReadsWithin
<1>6. QED
  BY <1>2, <1>3, <1>4, <1>5 DEF TypeInv

LEMMA AnswerTyped ==
    ASSUME TypeInv, phase = "reading", NEW what, Answer(what),
           what = <<"error">> \/ what[1] = "data"
    PROVE  TypeInv'
<1>1. /\ phase' = "open" /\ request' = NoRequest /\ buf' = <<>> /\ answer' = what
      /\ UNCHANGED <<stored, image>>
  BY DEF Answer
<1>2. SourceInv' = SourceInv /\ Accepts' = Accepts
  BY <1>1, SourceStays
<1>3. NoRequest \in [offset : Nat, len : Nat] /\ <<>> \in Seq(Int)
  BY DEF NoRequest
<1>4. ReadsWithin'
  BY <1>1 DEF ReadsWithin
<1>5. QED
  BY <1>1, <1>2, <1>3, <1>4 DEF TypeInv

LEMMA TypeInit == Init => TypeInv
<1> SUFFICES ASSUME Init PROVE TypeInv
  OBVIOUS
<1>1. SourceInv
  <2>1. PICK clusters \in ClusterSeqs, format \in Formats :
           \E tail \in Tails, cut \in Cuts, trait \in Traits \cap TraitsOf(format) :
              Made(clusters, format, tail, cut, trait)
    BY Zenon DEF Init, Made
  <2>2. PICK tail \in Tails, cut \in Cuts, trait \in Traits \cap TraitsOf(format) :
           Made(clusters, format, tail, cut, trait)
    BY <2>1
  <2>3. QED
    BY <2>2 DEF SourceInv
<1>2. NoRequest \in [offset : Nat, len : Nat] /\ <<>> \in Seq(Int)
  BY DEF NoRequest
<1>3. phase = "closed" /\ request = NoRequest /\ buf = <<>> /\ answer = <<"none">>
  BY DEF Init
<1>4. ReadsWithin
  BY <1>3 DEF ReadsWithin
<1>5. QED
  BY <1>1, <1>2, <1>3, <1>4 DEF TypeInv

LEMMA TypeStep == TypeInv /\ [Next]_vars => TypeInv'
<1> SUFFICES ASSUME TypeInv, [Next]_vars PROVE TypeInv'
  OBVIOUS
<1>1. CASE Open
  <2>1. /\ phase' = "open" /\ UNCHANGED <<stored, image, request, buf, answer>>
        /\ Accepts /\ phase = "closed"
    BY <1>1 DEF Open
  <2>2. SourceInv' = SourceInv /\ Accepts' = Accepts
    BY <2>1, SourceStays
  <2>3. ReadsWithin'
    BY <2>1 DEF ReadsWithin
  <2>4. QED
    BY <2>1, <2>2, <2>3 DEF TypeInv
<1>2. CASE Refuse
  <2>1. /\ phase' = "refused" /\ answer' = <<"error">>
        /\ UNCHANGED <<stored, image, request, buf>> /\ phase = "closed"
    BY <1>2 DEF Refuse
  <2>2. SourceInv' = SourceInv
    BY <2>1, SourceStays
  <2>3. ReadsWithin'
    BY <2>1 DEF ReadsWithin
  <2>4. QED
    BY <2>1, <2>2, <2>3 DEF TypeInv
<1>3. ASSUME NEW offset \in 0 .. image.size + 1, NEW len \in Lengths, ReadAt(offset, len)
      PROVE  TypeInv'
  <2>1. /\ phase = "open" /\ phase' = "reading"
        /\ request' = [offset |-> offset, len |-> len]
        /\ UNCHANGED <<stored, image, buf, answer>>
    BY <1>3 DEF ReadAt
  <2>2. SourceInv' = SourceInv /\ Accepts' = Accepts /\ image.size' = image.size
    BY <2>1, SourceStays
  <2>3. image.size \in Nat
    <3>1. PICK clusters, format, tail, cut, trait :
             Made(clusters, format, tail, cut, trait)
      BY DEF TypeInv, SourceInv
    <3>2. /\ IsDisk(clusters) /\ tail \in 0 .. ClusterSize - 1
          /\ image.size = ClusterSize * Len(clusters) - tail
      BY <3>1, ImageIs DEF Imaged
    <3>3. ClusterSize * Len(clusters) - tail \in Nat
      BY <3>2, FlatPlaced
    <3>4. QED
      BY <3>2, <3>3
  <2>4. offset \in Nat /\ len \in Nat
    BY <2>3, DisksAssumption
  <2>5. request' \in [offset : Nat, len : Nat]
    BY <2>1, <2>4
  <2>6. ReadsWithin'
    <3>1. buf' = <<>>
      BY <2>1 DEF TypeInv
    <3>2. Wanted' = Smaller(len, image.size - offset)
      BY <2>1, <2>2 DEF Wanted
    <3>3. request'.offset = offset
      BY <2>1
    <3>4. offset <= image.size => 0 <= Smaller(len, image.size - offset)
      BY <2>3, <2>4 DEF Smaller
    <3>5. QED
      BY <3>1, <3>2, <3>3, <3>4, <2>2 DEF ReadsWithin
  <2>7. QED
    BY <2>1, <2>2, <2>5, <2>6 DEF TypeInv
<1>4. CASE OutOfRange
  BY <1>4, AnswerTyped DEF OutOfRange
<1>5. CASE Copy
  <2>1. /\ Filling /\ Place.kind = "at" /\ Present(Place.host + Within + Take - 1)
        /\ buf' = buf \o [i \in 1..Take |-> Cell(Place.host + Within + i - 1).byte]
        /\ UNCHANGED <<stored, image, phase, request, answer>>
    BY <1>5 DEF Copy
  <2>2. PICK clusters, format, tail, cut, trait :
           Made(clusters, format, tail, cut, trait)
    BY DEF TypeInv, SourceInv
  <2>3. /\ image.unit = ClusterSize /\ Here \div ClusterSize \in Nat
        /\ Within \in Nat /\ Take \in Nat
    <3>1. /\ image.unit = ClusterSize /\ ClusterSize \in Nat \ {0} /\ Here \in Nat
          /\ Within \in 0 .. ClusterSize - 1 /\ Take \in Nat \ {0}
      BY <2>1, <2>2, TurnIs
    <3>2. Here \div ClusterSize \in Nat
      BY <3>1, Divided
    <3>3. QED
      BY <3>1, <3>2
  <2>4. Place.host \in Nat
    BY <2>1, <2>3, PlaceType DEF Place, TypeInv
  <2>5. ASSUME NEW i \in 1..Take PROVE Cell(Place.host + Within + i - 1).byte \in Int
    <3> DEFINE at == Place.host + Within + i
    <3>1. image.cells \in Seq(AnyCell)
      BY <2>2, CellIs
    <3>2. at \in 1..Len(image.cells) /\ (at - 1) + 1 = at
      BY <2>1, <2>3, <2>4, <3>1, SMTT(30) DEF Present
    <3> HIDE DEF at
    <3>3. image.cells[at] \in AnyCell
      BY <3>1, <3>2
    <3>4. image.cells[at].byte \in Int
      BY <3>3 DEF AnyCell
    <3>5. Cell(at - 1).byte \in Int
      BY <3>2, <3>4 DEF Cell
    <3>6. Place.host + Within + i - 1 = at - 1
      <4> DEFINE h == Place.host
                 w == Within
      <4>1. h \in Nat /\ w \in Nat /\ i \in Int /\ at = h + w + i
        BY <2>3, <2>4 DEF at
      <4> HIDE DEF h, w
      <4>2. h + w + i - 1 = at - 1
        BY <4>1
      <4>3. QED
        BY <4>2 DEF h, w
    <3>7. QED
      BY <3>5, <3>6
  <2> DEFINE more == [i \in 1..Take |-> Cell(Place.host + Within + i - 1).byte]
  <2>6. more \in [1..Take -> Int] /\ buf' = buf \o more
    BY <2>1, <2>5
  <2> HIDE DEF more
  <2>7. QED
    BY <2>1, <2>6, TurnAdds
<1>6. CASE FillZeros
  <2> DEFINE more == [i \in 1..Take |-> 0]
  <2>1. /\ Filling /\ buf' = buf \o more
        /\ UNCHANGED <<stored, image, phase, request, answer>>
    BY <1>6 DEF FillZeros
  <2>2. more \in [1..Take -> Int]
    OBVIOUS
  <2> HIDE DEF more
  <2>3. QED
    BY <2>1, <2>2, TurnAdds
<1>7. CASE ReadFails
  BY <1>7, AnswerTyped DEF ReadFails, Filling
<1>8. CASE Return
  <2>1. <<"data", buf>>[1] = "data"
    OBVIOUS
  <2>2. QED
    BY <1>8, <2>1, AnswerTyped DEF Return
<1>9. CASE UNCHANGED vars
  <2>1. UNCHANGED <<stored, image, phase, request, buf, answer>>
    BY <1>9 DEF vars
  <2>2. SourceInv' = SourceInv /\ Accepts' = Accepts /\ image.size' = image.size
        /\ Wanted' = Wanted
    BY <2>1, SourceStays
  <2>3. ReadsWithin'
    BY <2>1, <2>2 DEF ReadsWithin, TypeInv
  <2>4. QED
    BY <2>1, <2>2, <2>3 DEF TypeInv
<1>10. QED
  BY <1>1, <1>2, <1>3, <1>4, <1>5, <1>6, <1>7, <1>8, <1>9 DEF Next, Reading

LEMMA TypeInvHolds == Spec => []TypeInv
  BY TypeInit, TypeStep, PTL DEF Spec

\* In a read of any container, of any geometry, the buffer is never overrun, and
\* each turn of the loop makes progress (Source::read_at of qcow2.rs, vmdk.rs and
\* vhdx.rs).
THEOREM TypeCorrect == Spec => []TypeOK
<1>1. TypeInv => TypeOK
  <2> SUFFICES ASSUME TypeInv PROVE TypeOK
    OBVIOUS
  <2>1. phase = "reading" /\ request.offset <= image.size /\ Len(buf) < Wanted
           => Take > 0
    <3> SUFFICES ASSUME Filling PROVE Take > 0
      BY DEF Filling
    <3>1. PICK clusters, format, tail, cut, trait :
             Made(clusters, format, tail, cut, trait)
      BY DEF TypeInv, SourceInv
    <3>2. Take \in Nat \ {0}
      BY <3>1, TurnIs
    <3>3. QED
      BY <3>2
  <2>2. QED
    BY <2>1 DEF TypeInv, TypeOK, ReadsWithin
<1>2. QED
  BY <1>1, TypeInvHolds, PTL

(***************************************************************************)
(* What is read                                                            *)
(***************************************************************************)

\* No cluster is marked as zeros while a content is allocated to it: such a QCOW2
\* cluster is read as its old content, which MCDiskZeroed shows.
NoneZeroed ==
    \A clusters \in ClusterSeqs : \A k \in DOMAIN clusters : clusters[k].kind # "zeroed"

\* Where a turn of the loop reads, and what is there.
LEMMA PlaceIs ==
    ASSUME TypeInv, NoneZeroed, Filling,
           NEW clusters, NEW format, NEW tail, NEW cut, NEW trait,
           Made(clusters, format, tail, cut, trait)
    PROVE  LET k == (Here \div ClusterSize) + 1
               whole == Whole(format, clusters, trait)
           IN  /\ Place.kind \in {"hole", "at", "failure"}
               /\ Place.kind = "hole" => clusters[k].kind = "hole"
               /\ Place.kind = "failure" => clusters[k].kind = "packed" \/ ~EntriesThere
               /\ Place.kind = "at" =>
                     /\ clusters[k].kind = "data" /\ Place.host \in Nat
                     /\ \A i \in 1..Take :
                           /\ Place.host + (Within + i) \in 1..Len(whole)
                           /\ whole[Place.host + (Within + i)]
                                 = Byte(clusters[k].bytes[Within + i])
<1> DEFINE k == (Here \div ClusterSize) + 1
           whole == Whole(format, clusters, trait)
           base == HostBase(format, clusters)
           host == HostOf(clusters, base, k)
<1>1. /\ k \in 1..Len(clusters) /\ k - 1 = Here \div image.unit
      /\ Within \in 0 .. ClusterSize - 1 /\ ClusterSize \in Nat \ {0}
      /\ Take \in Nat \ {0} /\ Take <= ClusterSize - Within
  BY TurnIs
<1>2. IsDisk(clusters)
  BY ImageIs DEF Imaged
<1>3. Accepts
  BY DEF TypeInv, Filling
<1>4. clusters[k].kind # "zeroed"
  <2>1. clusters \in ClusterSeqs
    BY DEF Made
  <2>2. k \in DOMAIN clusters
    BY <1>1, <1>2 DEF IsDisk
  <2> HIDE DEF k
  <2>3. QED
    BY <2>1, <2>2 DEF NoneZeroed
<1>5. Finds(clusters, k, Place, base)
  <2>1. Place = Locate(k - 1)
    BY <1>1 DEF Place
  <2> HIDE DEF k
  <2>2. QED
    BY <2>1, <1>1, <1>3, <1>4, Found
<1> HIDE DEF k
<1>6. /\ Place \in {Failure, Hole, At(host)}
      /\ Place = Hole => clusters[k].kind = "hole"
      /\ Place = At(host) => clusters[k].kind = "data"
      /\ Place = Failure => clusters[k].kind = "packed" \/ ~EntriesThere
  BY <1>5 DEF Finds
<1>7. /\ Failure.kind = "failure" /\ Hole.kind = "hole"
      /\ At(host).kind = "at" /\ At(host).host = host
  BY Kinds
<1>8. ASSUME Place = At(host), NEW i \in 1..Take
      PROVE  /\ host + (Within + i) \in 1..Len(whole)
             /\ whole[host + (Within + i)] = Byte(clusters[k].bytes[Within + i])
  <2>1. PICK j \in 1..ClusterSize : j = Within + i
    <3> DEFINE w == Within
               t == Take
    <3>1. w \in 0 .. ClusterSize - 1 /\ t \in Nat \ {0} /\ t <= ClusterSize - w
          /\ i \in 1..t
      BY <1>1
    <3> HIDE DEF w, t
    <3>2. w + i \in 1..ClusterSize
      BY <3>1, <1>1
    <3>3. QED
      BY <3>2 DEF w
  <2> DEFINE coded == format # "vhdx" /\ trait = "encrypted"
  <2>2. /\ host + j \in 1..Len(whole) /\ whole[host + j] = Content(clusters, coded, k, j)
    <3>1. k \in Stored(clusters)
      <4>1. k \in DOMAIN clusters
        BY <1>1, <1>2 DEF IsDisk
      <4>2. QED
        BY <4>1, <1>6, <1>8 DEF Stored
    <3>2. QED
      BY <3>1, <1>2, WholeType
  <2>3. ~coded /\ clusters[k].kind # "packed"
    BY <1>3, <1>6, <1>8, AcceptedIs
  <2>4. Content(clusters, coded, k, j) = Byte(clusters[k].bytes[j])
    <3> HIDE DEF coded
    <3>1. QED
      BY <2>3 DEF Content
  <2>5. QED
    BY <2>1, <2>2, <2>4
<1>9. host \in Nat
  <2>1. base \in Nat
    BY <1>2, WholeType
  <2> HIDE DEF base
  <2>2. QED
    BY <2>1, <1>2, EntryType
<1> HIDE DEF host, whole
<1>10. QED
  BY <1>6, <1>7, <1>8, <1>9 DEF k, whole

\* The cells that a turn of the loop needs.
Needed ==
    LET cluster == stored.clusters[(Here \div ClusterSize) + 1]
        cells == stored.whole.cells
    IN  {i \in DOMAIN cells :
            \/ cells[i].byte = EntryCell
            \/ cluster.kind = "data" /\ cells[i].byte \in ToSet(cluster.bytes)}

LEMMA NotBlocked ==
    ASSUME TypeInv, NoneZeroed, Filling,
           stored.clusters[(Here \div ClusterSize) + 1].kind # "packed",
           Needed \subseteq DOMAIN image.cells
    PROVE  ~Blocked
<1>1. PICK clusters, format, tail, cut, trait : Made(clusters, format, tail, cut, trait)
  BY DEF TypeInv, SourceInv
<1> DEFINE k == (Here \div ClusterSize) + 1
           whole == Whole(format, clusters, trait)
<1>2. /\ IsDisk(clusters) /\ stored.clusters = clusters /\ stored.whole.cells = whole
  <2>1. Imaged(clusters, format, tail, cut, trait)
    BY <1>1, ImageIs
  <2>2. QED
    BY <2>1 DEF Imaged
<1>3. EntriesThere
  BY DEF EntriesThere, Needed
<1>4. /\ Place.kind \in {"hole", "at", "failure"}
      /\ Place.kind = "failure" => clusters[k].kind = "packed" \/ ~EntriesThere
      /\ Place.kind = "at" =>
            /\ clusters[k].kind = "data" /\ Place.host \in Nat
            /\ \A i \in 1..Take :
                  /\ Place.host + (Within + i) \in 1..Len(whole)
                  /\ whole[Place.host + (Within + i)] = Byte(clusters[k].bytes[Within + i])
  BY <1>1, PlaceIs
<1>5. Place.kind # "failure"
  BY <1>2, <1>3, <1>4
<1>6. ASSUME Place.kind = "at" PROVE Present(Place.host + Within + Take - 1)
  <2>1. /\ k \in 1..Len(clusters) /\ Within \in 0 .. ClusterSize - 1
        /\ Take \in Nat \ {0} /\ Take <= ClusterSize - Within
        /\ ClusterSize \in Nat \ {0}
    BY <1>1, TurnIs
  <2> DEFINE w == Within
             t == Take
             h == Place.host
             at == h + (w + t)
  <2>2. at \in 1..Len(whole) /\ whole[at] = Byte(clusters[k].bytes[w + t])
    <3>1. t \in 1..t
      BY <2>1
    <3> HIDE DEF k, whole
    <3>2. QED
      BY <3>1, <1>4, <1>6
  <2>3. w + t \in 1..ClusterSize /\ w \in Nat /\ t \in Nat /\ h \in Nat
    <3>1. w \in 0 .. ClusterSize - 1 /\ t \in Nat \ {0} /\ t <= ClusterSize - w
          /\ h \in Nat
      BY <2>1, <1>4, <1>6
    <3> HIDE DEF w, t, h
    <3>2. QED
      BY <3>1, <2>1
  <2>4. whole[at].byte = clusters[k].bytes[w + t]
    <3> HIDE DEF k, whole, at, w, t
    <3>1. QED
      BY <2>2 DEF Byte
  <2>5. clusters[k].bytes[w + t] \in ToSet(clusters[k].bytes)
    <3>1. k \in DOMAIN clusters
      BY <1>2, <2>1 DEF IsDisk
    <3> HIDE DEF k, w, t
    <3>2. clusters[k].bytes \in [1..ClusterSize -> Int]
      BY <3>1, <1>2 DEF IsDisk
    <3>3. w + t \in DOMAIN clusters[k].bytes
      BY <3>2, <2>3
    <3>4. QED
      BY <3>3 DEF ToSet
  <2>6. whole \in Seq(AnyCell) /\ image.cells \in Seq(AnyCell)
    BY <1>1, <1>2, WholeType, CellIs
  <2> HIDE DEF whole
  <2>7. at \in DOMAIN whole
    <3> HIDE DEF at
    <3>1. QED
      BY <2>2, <2>6
  <2>8. at \in Needed
    <3> HIDE DEF at
    <3>1. whole[at].byte \in ToSet(clusters[k].bytes) /\ clusters[k].kind = "data"
      BY <2>4, <2>5, <1>4, <1>6
    <3>2. QED
      BY <3>1, <2>7, <1>2 DEF Needed
  <2>9. at \in 1..Len(image.cells) /\ Len(image.cells) \in Nat
    <3> HIDE DEF at
    <3>1. at \in DOMAIN image.cells
      BY <2>8
    <3>2. QED
      BY <3>1, <2>6
  <2>10. h + w + t - 1 < Len(image.cells)
    <3> DEFINE length == Len(image.cells)
    <3> HIDE DEF h, w, t, length
    <3>1. QED
      BY <2>3, <2>9 DEF length
  <2>11. QED
    BY <2>10 DEF Present
<1>7. QED
  BY <1>5, <1>6 DEF Blocked

\* A cluster whose entries and content are still in the container can be read,
\* whatever else the container has lost (qcow2.rs locate and read_at, and those of
\* vmdk.rs and vhdx.rs).
THEOREM LossContained == NoneZeroed => (Spec => []SurvivorsReadable)
<1> SUFFICES ASSUME NoneZeroed PROVE Spec => []SurvivorsReadable
  OBVIOUS
<1>1. TypeInv => SurvivorsReadable
  BY NotBlocked DEF SurvivorsReadable, Needed
<1>2. QED
  BY <1>1, TypeInvHolds, PTL

(***************************************************************************)
(* Reading a container is reading the flat disk                            *)
(***************************************************************************)

\* What has been read so far are the bytes of the disk.
ReadInv ==
    phase = "reading" /\ request.offset <= image.size =>
       \A i \in 1..Len(buf) : buf[i] = stored.bytes[request.offset + i]

LEMMA ReadInit == Init => ReadInv
  BY DEF Init, ReadInv

\* A turn of the loop adds the bytes that come next.
LEMMA TurnReads ==
    ASSUME TypeInv, ReadInv, Filling, NEW more \in [1..Take -> Int], buf' = buf \o more,
           UNCHANGED <<stored, image, phase, request, answer>>,
           \A i \in 1..Take : more[i] = stored.bytes[Here + i]
    PROVE  ReadInv'
<1>1. PICK clusters, format, tail, cut, trait : Made(clusters, format, tail, cut, trait)
  BY DEF TypeInv, SourceInv
<1>2. /\ Len(buf) \in Nat /\ Here = request.offset + Len(buf) /\ Take \in Nat \ {0}
      /\ request.offset \in Nat
  BY <1>1, TurnIs DEF TypeInv
<1>3. buf \in Seq(Int) /\ phase = "reading" /\ request.offset <= image.size
  BY DEF TypeInv, Filling
<1>4. more \in Seq(Int) /\ Len(more) = Take
  <2>1. PICK m \in Nat : m = Take
    BY <1>2
  <2>2. more \in [1..m -> Int]
    BY <2>1
  <2>3. more \in Seq(Int) /\ Len(more) = m
    BY <2>2, FunctionIsSequence
  <2>4. QED
    BY <2>1, <2>3
<1>5. /\ Len(buf') = Len(buf) + Len(more)
      /\ \A i \in 1..Len(buf) : buf'[i] = buf[i]
      /\ \A i \in 1..Len(more) : buf'[Len(buf) + i] = more[i]
  <2>1. buf \in Seq(Int) /\ more \in Seq(Int)
    BY <1>3, <1>4
  <2>2. /\ Len(buf \o more) = Len(buf) + Len(more)
        /\ \A i \in 1..Len(buf) : (buf \o more)[i] = buf[i]
        /\ \A i \in 1..Len(more) : (buf \o more)[Len(buf) + i] = more[i]
    BY <2>1, Behind
  <2>3. buf' = buf \o more
    OBVIOUS
  <2>4. QED
    BY <2>2, <2>3
<1>6. ASSUME NEW i \in 1..Len(buf')
      PROVE  buf'[i] = stored.bytes[request.offset + i]
  <2>1. CASE i <= Len(buf)
    <3>1. i \in 1..Len(buf)
      BY <2>1, <1>2
    <3>2. QED
      BY <3>1, <1>3, <1>5 DEF ReadInv
  <2>2. CASE ~(i <= Len(buf))
    <3>1. PICK j \in 1..Len(more) : i = Len(buf) + j
      <4> DEFINE l == Len(buf)
                 t == Len(more)
      <4>1. i \in 1 .. l + t /\ l \in Nat /\ t \in Nat /\ ~(i <= l)
        BY <1>2, <1>4, <1>5, <2>2
      <4> HIDE DEF l, t
      <4>2. i - l \in 1..t /\ i = l + (i - l)
        BY <4>1
      <4>3. QED
        BY <4>2 DEF l, t
    <3>2. buf'[i] = stored.bytes[Here + j]
      BY <3>1, <1>4, <1>5
    <3>3. Here + j = request.offset + i
      <4> DEFINE l == Len(buf)
                 o == request.offset
      <4>1. Here = o + l /\ o \in Nat /\ l \in Nat /\ j \in Int /\ i = l + j
        BY <3>1, <1>2
      <4> HIDE DEF l, o
      <4>2. Here + j = o + i
        BY <4>1
      <4>3. QED
        BY <4>2 DEF o
    <3>4. QED
      BY <3>2, <3>3
  <2>3. QED
    BY <2>1, <2>2
<1>7. QED
  BY <1>6 DEF ReadInv

\* What the bytes of the disk are where a turn of the loop reads.
LEMMA BytesHere ==
    ASSUME TypeInv, Filling,
           NEW clusters, NEW format, NEW tail, NEW cut, NEW trait,
           Made(clusters, format, tail, cut, trait), NEW i \in 1..Take
    PROVE  LET k == (Here \div ClusterSize) + 1 IN
           stored.bytes[Here + i] = FlatByte(clusters, k, Within + i)
<1> DEFINE k == (Here \div ClusterSize) + 1
           w == Within
           t == Take
<1>1. /\ k \in 1..Len(clusters) /\ w \in 0 .. ClusterSize - 1 /\ ClusterSize \in Nat \ {0}
      /\ t \in Nat \ {0} /\ t <= ClusterSize - w
      /\ Here = (k - 1) * ClusterSize + w
      /\ Len(buf) \in Nat /\ Here = request.offset + Len(buf) /\ Here \in Nat
      /\ Len(buf) + t <= Wanted /\ request.offset + Wanted <= image.size
  BY TurnIs
<1>2. /\ IsDisk(clusters) /\ tail \in 0 .. ClusterSize - 1
      /\ stored.bytes = Flat(clusters, tail)
      /\ image.size = ClusterSize * Len(clusters) - tail
  BY ImageIs DEF Imaged
<1>3. image.size \in Nat
  BY <1>2, FlatPlaced
<1>4. request.offset \in Nat
  BY DEF TypeInv
<1> HIDE DEF k, w, t
<1>5. PICK j \in 1..ClusterSize : j = w + i
  <2>1. i \in 1..t
    BY DEF t
  <2>2. w + i \in 1..ClusterSize
    BY <2>1, <1>1
  <2>3. QED
    BY <2>2
<1>6. Here + i = (k - 1) * ClusterSize + j
  <2> DEFINE before == (k - 1) * ClusterSize
  <2>1. before \in Nat /\ Here = before + w /\ i \in Int /\ w \in Int
    <3>1. k - 1 \in Nat
      BY <1>1, <1>2 DEF IsDisk
    <3>2. before \in Nat
      BY <3>1, <1>1
    <3>3. QED
      BY <3>2, <1>1
  <2> HIDE DEF before
  <2>2. Here + i = before + j
    BY <2>1, <1>5
  <2>3. QED
    BY <2>2 DEF before
<1>7. Here + i <= image.size
  <2> DEFINE o == request.offset
             l == Len(buf)
             want == Wanted
             size == image.size
  <2>1. /\ Here = o + l /\ l + t <= want /\ o + want <= size /\ o \in Nat /\ l \in Nat
        /\ size \in Nat /\ i \in 1..t /\ t \in Nat
    BY <1>1, <1>3, <1>4 DEF t
  <2>2. want \in Int
    BY <1>3, <1>4 DEF Wanted, Smaller, TypeInv
  <2> HIDE DEF o, l, want, size
  <2>3. Here + i <= size
    BY <2>1, <2>2
  <2>4. QED
    BY <2>3 DEF size
<1>8. Flat(clusters, tail)[(k - 1) * ClusterSize + j] = FlatByte(clusters, k, j)
  <2>1. (k - 1) * ClusterSize + j <= ClusterSize * Len(clusters) - tail
    BY <1>2, <1>6, <1>7
  <2>2. QED
    BY <2>1, <1>1, <1>2, FlatPlaced
<1>9. stored.bytes[Here + i] = FlatByte(clusters, k, w + i)
  BY <1>2, <1>5, <1>6, <1>8
<1>10. QED
  BY <1>9 DEF k, w

LEMMA ReadStep == TypeInv /\ NoneZeroed /\ ReadInv /\ [Next]_vars => ReadInv'
<1> SUFFICES ASSUME TypeInv, NoneZeroed, ReadInv, [Next]_vars PROVE ReadInv'
  OBVIOUS
<1>1. PICK clusters, format, tail, cut, trait : Made(clusters, format, tail, cut, trait)
  BY DEF TypeInv, SourceInv
<1> DEFINE k == (Here \div ClusterSize) + 1
<1>2. CASE Open
  BY <1>2 DEF Open, ReadInv
<1>3. CASE Refuse
  BY <1>3 DEF Refuse, ReadInv
<1>4. ASSUME NEW offset, NEW len, ReadAt(offset, len) PROVE ReadInv'
  <2>1. buf' = <<>>
    BY <1>4 DEF ReadAt, TypeInv
  <2>2. QED
    BY <2>1 DEF ReadInv
<1>5. ASSUME NEW what, Answer(what) PROVE ReadInv'
  BY <1>5 DEF Answer, ReadInv
<1>6. CASE Copy
  <2> DEFINE more == [i \in 1..Take |-> Cell(Place.host + Within + i - 1).byte]
  <2>1. /\ Filling /\ Place.kind = "at" /\ Present(Place.host + Within + Take - 1)
        /\ buf' = buf \o more
        /\ UNCHANGED <<stored, image, phase, request, answer>>
    BY <1>6 DEF Copy
  <2>2. /\ clusters[k].kind = "data" /\ Place.host \in Nat
        /\ \A i \in 1..Take :
              LET whole == Whole(format, clusters, trait) IN
              /\ Place.host + (Within + i) \in 1..Len(whole)
              /\ whole[Place.host + (Within + i)] = Byte(clusters[k].bytes[Within + i])
    BY <1>1, <2>1, PlaceIs
  <2>3. /\ k \in 1..Len(clusters) /\ Within \in 0 .. ClusterSize - 1
        /\ Take \in Nat \ {0} /\ Take <= ClusterSize - Within
        /\ ClusterSize \in Nat \ {0}
    BY <1>1, <2>1, TurnIs
  <2>4. IsDisk(clusters)
    BY <1>1, ImageIs DEF Imaged
  <2> HIDE DEF k
  <2>5. ASSUME NEW i \in 1..Take
        PROVE  /\ Cell(Place.host + Within + i - 1).byte = clusters[k].bytes[Within + i]
               /\ clusters[k].bytes[Within + i] \in Int
    <3> DEFINE h == Place.host
               w == Within
               t == Take
               at == h + (w + i)
               whole == Whole(format, clusters, trait)
    <3>1. /\ h \in Nat /\ w \in Nat /\ i \in 1..t /\ t \in Nat
          /\ w \in 0 .. ClusterSize - 1 /\ t <= ClusterSize - w
      BY <2>2, <2>3
    <3>2. whole[at] = Byte(clusters[k].bytes[w + i])
      BY <2>2
    <3>3. image.cells \in Seq(AnyCell)
      BY <1>1, CellIs
    <3>4. h + w + t - 1 < Len(image.cells)
      BY <2>1 DEF Present
    <3> DEFINE length == Len(image.cells)
               last == h + w + t - 1
    <3>5. at - 1 \in Nat /\ at - 1 < length /\ h + w + i - 1 = at - 1
          /\ (at - 1) + 1 = at
      <4>1. length \in Nat /\ last < length
        BY <3>3, <3>4
      <4> HIDE DEF h, w, t, length
      <4>2. QED
        BY <4>1, <3>1
    <3>6. Cell(at - 1) = whole[at]
      <4>1. Present(at - 1)
        BY <3>5 DEF Present
      <4> HIDE DEF at, whole
      <4>2. Cell(at - 1) = Whole(format, clusters, trait)[(at - 1) + 1]
        BY <4>1, <3>5, <1>1, CellIs
      <4>3. QED
        BY <4>2, <3>5 DEF whole
    <3>7. clusters[k].bytes[w + i] \in Int
      <4>1. w + i \in 1..ClusterSize
        <5> HIDE DEF w, t
        <5>1. QED
          BY <3>1, <2>3
      <4>2. clusters[k].bytes \in [1..ClusterSize -> Int]
        BY <2>3, <2>4 DEF IsDisk
      <4> HIDE DEF w
      <4>3. QED
        BY <4>1, <4>2
    <3>8. Cell(h + w + i - 1) = whole[at]
      <4> HIDE DEF h, w, at, whole
      <4>1. QED
        BY <3>5, <3>6
    <3> HIDE DEF h, w, at, whole, t
    <3>9. Cell(h + w + i - 1).byte = clusters[k].bytes[w + i]
      BY <3>2, <3>8 DEF Byte
    <3>10. QED
      BY <3>7, <3>9 DEF h, w
  <2>6. more \in [1..Take -> Int]
    BY <2>5
  <2>7. \A i \in 1..Take : more[i] = stored.bytes[Here + i]
    <3> SUFFICES ASSUME NEW i \in 1..Take PROVE more[i] = stored.bytes[Here + i]
      OBVIOUS
    <3>1. more[i] = clusters[k].bytes[Within + i]
      BY <2>5
    <3>2. stored.bytes[Here + i] = FlatByte(clusters, k, Within + i)
      BY <1>1, <2>1, BytesHere DEF k
    <3>3. FlatByte(clusters, k, Within + i) = clusters[k].bytes[Within + i]
      BY <2>2 DEF FlatByte
    <3> HIDE DEF more
    <3>4. QED
      BY <3>1, <3>2, <3>3
  <2> HIDE DEF more
  <2>8. QED
    BY <2>1, <2>6, <2>7, TurnReads
<1>7. CASE FillZeros
  <2> DEFINE more == [i \in 1..Take |-> 0]
  <2>1. /\ Filling /\ Place.kind = "hole" /\ buf' = buf \o more
        /\ UNCHANGED <<stored, image, phase, request, answer>>
    BY <1>7 DEF FillZeros
  <2>2. clusters[k].kind = "hole"
    BY <1>1, <2>1, PlaceIs
  <2>3. \A i \in 1..Take : more[i] = stored.bytes[Here + i]
    <3> SUFFICES ASSUME NEW i \in 1..Take PROVE more[i] = stored.bytes[Here + i]
      OBVIOUS
    <3>1. stored.bytes[Here + i] = FlatByte(clusters, k, Within + i)
      BY <1>1, <2>1, BytesHere
    <3>2. FlatByte(clusters, k, Within + i) = 0
      BY <2>2 DEF FlatByte
    <3> HIDE DEF k
    <3>3. QED
      BY <3>1, <3>2
  <2>4. more \in [1..Take -> Int]
    OBVIOUS
  <2> HIDE DEF more
  <2>5. QED
    BY <2>1, <2>3, <2>4, TurnReads
<1>8. CASE UNCHANGED vars
  BY <1>8 DEF vars, ReadInv
<1>9. QED
  BY <1>2, <1>3, <1>4, <1>5, <1>6, <1>7, <1>8
     DEF Next, Reading, OutOfRange, ReadFails, Return

\* A part of a sequence.
LEMMA PartOf ==
    ASSUME NEW S, NEW s \in Seq(S), NEW o \in Nat, NEW b \in Seq(S),
           o + Len(b) <= Len(s), \A i \in 1..Len(b) : b[i] = s[o + i]
    PROVE  b = SubSeq(s, o + 1, o + Len(b))
<1> DEFINE n == Len(b)
           part == SubSeq(s, o + 1, o + n)
<1>1. n \in Nat /\ Len(s) \in Nat
  OBVIOUS
<1>2. part \in Seq(S) /\ Len(part) = n
  BY <1>1
<1>3. \A i \in 1..n : part[i] = s[o + i]
  <2> SUFFICES ASSUME NEW i \in 1..n PROVE part[i] = s[o + i]
    OBVIOUS
  <2>1. part[i] = s[(o + 1) + i - 1]
    BY <1>1
  <2>2. (o + 1) + i - 1 = o + i
    OBVIOUS
  <2>3. QED
    BY <2>1, <2>2
<1> HIDE DEF part
<1>4. \A i \in 1..n : part[i] = b[i]
  BY <1>3
<1>5. part = b
  BY <1>2, <1>4
<1>6. QED
  BY <1>5 DEF part

\* A container that is intact is accepted, and then every turn of a read finds what
\* it needs.
LEMMA IntactAccepted ==
    ASSUME SourceInv, Intact
    PROVE  Accepts
<1>1. PICK clusters, format, tail, cut, trait : Made(clusters, format, tail, cut, trait)
  BY DEF SourceInv
<1>2. /\ IsDisk(clusters) /\ format \in {"qcow2", "vmdk", "vhdx"}
      /\ image.format = format
      /\ image.unit = IF trait = "bad unit" THEN 0 ELSE ClusterSize
      /\ image.says = SaysOf(format, clusters, trait)
      /\ stored.whole.cells = Whole(format, clusters, trait)
  BY <1>1, ImageIs DEF Imaged
<1>3. image.says = {"none"} /\ image = stored.whole
  BY DEF Intact
<1>4. trait = "none"
  BY <1>2, <1>3 DEF SaysOf
<1>5. image.unit = ClusterSize /\ ClusterSize \in Nat \ {0}
  BY <1>2, <1>4, GeometryAssumption
<1>6. Present(0)
  <2>1. /\ image.cells = Whole(format, clusters, trait)
        /\ Whole(format, clusters, trait) \in Seq(AnyCell)
        /\ Len(Whole(format, clusters, trait)) >= 1
    BY <1>2, <1>3, WholeType
  <2>2. QED
    BY <2>1 DEF Present
<1>7. ~QcowRefused /\ ~VmdkRefused /\ ~VhdxRefused
  BY <1>3 DEF QcowRefused, VmdkRefused, VhdxRefused, Says
<1>8. QED
  BY <1>2, <1>5, <1>6, <1>7 DEF Accepts

LEMMA IntactReads ==
    ASSUME TypeInv, NoneZeroed, Filling, Intact
    PROVE  ~Blocked
<1>1. PICK clusters, format, tail, cut, trait : Made(clusters, format, tail, cut, trait)
  BY DEF TypeInv, SourceInv
<1>2. stored.clusters = clusters /\ IsDisk(clusters)
  BY <1>1, ImageIs DEF Imaged
<1>3. (Here \div ClusterSize) + 1 \in DOMAIN stored.clusters
  BY <1>1, <1>2, TurnIs DEF IsDisk
<1>4. stored.clusters[(Here \div ClusterSize) + 1].kind # "packed"
  BY <1>3 DEF Intact
<1>5. Needed \subseteq DOMAIN image.cells
  BY DEF Needed, Intact
<1>6. QED
  BY <1>4, <1>5, NotBlocked

\* The read in progress as the flat disk sees it.
Asked == IF phase = "reading" THEN {request} ELSE {}

LEMMA StepReads ==
    TypeInv /\ NoneZeroed /\ ReadInv /\ [Next]_vars => [Guest!Next]_Guest!vars
<1> SUFFICES ASSUME TypeInv, NoneZeroed, ReadInv, [Next]_vars
             PROVE  [Guest!Next]_Guest!vars
  OBVIOUS
<1> DEFINE same == UNCHANGED <<[bytes |-> stored.bytes, intact |-> Intact], Asked, answer>>
<1>1. same => [Guest!Next]_Guest!vars
  BY DEF Guest!vars, Asked
<1>2. UNCHANGED <<stored, image>> =>
         [bytes |-> stored.bytes, intact |-> Intact]'
            = [bytes |-> stored.bytes, intact |-> Intact]
  BY DEF Intact
<1>3. CASE Open
  <2>1. same
    BY <1>2, <1>3 DEF Open, Asked
  <2>2. QED
    BY <2>1, <1>1
<1>4. CASE Refuse
  <2>1. ~Intact
    BY <1>4, IntactAccepted DEF Refuse, TypeInv
  <2>2. Guest!Refuse
    BY <1>2, <1>4, <2>1 DEF Guest!Refuse, Guest!Error, Refuse
  <2>3. QED
    BY <2>2 DEF Guest!Next
<1>5. ASSUME NEW offset \in 0 .. image.size + 1, NEW len \in Lengths, ReadAt(offset, len)
      PROVE  [Guest!Next]_Guest!vars
  <2>1. /\ phase = "open" /\ phase' = "reading"
        /\ request' = [offset |-> offset, len |-> len]
        /\ UNCHANGED <<stored, image, buf, answer>>
    BY <1>5 DEF ReadAt
  <2>2. TypeInv'
    BY TypeStep
  <2>3. request' \in [offset : Nat, len : Nat]
    BY <2>2 DEF TypeInv
  <2>4. Guest!Ask
    BY <1>2, <2>1, <2>3 DEF Guest!Ask
  <2>5. QED
    BY <2>4 DEF Guest!Next
<1>6. PICK clusters, format, tail, cut, trait : Made(clusters, format, tail, cut, trait)
  BY DEF TypeInv, SourceInv
<1>7. /\ stored.bytes \in Seq(Int) /\ Len(stored.bytes) = image.size /\ image.size \in Nat
  <2>1. /\ IsDisk(clusters) /\ tail \in 0 .. ClusterSize - 1
        /\ stored.bytes = Flat(clusters, tail)
        /\ image.size = ClusterSize * Len(clusters) - tail
    BY <1>6, ImageIs DEF Imaged
  <2>2. QED
    BY <2>1, FlatPlaced
<1>8. CASE OutOfRange
  <2>1. /\ phase = "reading" /\ request.offset > image.size /\ phase' = "open"
        /\ answer' = <<"error">> /\ UNCHANGED <<stored, image>>
    BY <1>8 DEF OutOfRange, Answer
  <2>2. Guest!Reply
    BY <1>2, <1>7, <2>1 DEF Guest!Reply, Guest!Error
  <2>3. QED
    BY <2>2 DEF Guest!Next
<1>9. CASE Copy \/ FillZeros
  <2>1. same
    BY <1>2, <1>9 DEF Copy, FillZeros, Asked
  <2>2. QED
    BY <2>1, <1>1
<1>10. CASE ReadFails
  <2>1. /\ phase = "reading" /\ phase' = "open"
        /\ answer' = <<"error">> /\ UNCHANGED <<stored, image>>
    BY <1>10 DEF ReadFails, Answer, Filling
  <2>2. ~Intact
    BY <1>10, IntactReads DEF ReadFails
  <2>3. Guest!Fail
    BY <1>2, <2>1, <2>2 DEF Guest!Fail, Guest!Error
  <2>4. QED
    BY <2>3 DEF Guest!Next
<1>11. CASE Return
  <2>1. /\ phase = "reading" /\ request.offset <= image.size /\ Len(buf) >= Wanted
        /\ phase' = "open" /\ answer' = <<"data", buf>> /\ UNCHANGED <<stored, image>>
    BY <1>11 DEF Return, Answer
  <2> DEFINE o == request.offset
             l == request.len
             end == IF o + l <= Len(stored.bytes) THEN o + l ELSE Len(stored.bytes)
  <2>2. o \in Nat /\ l \in Nat /\ buf \in Seq(Int) /\ Len(buf) <= Wanted
    BY <2>1 DEF TypeInv, ReadsWithin
  <2>3. Len(buf) = Wanted /\ o + Wanted = end /\ end <= Len(stored.bytes)
    <3>1. Wanted \in Int /\ Wanted = IF l < image.size - o THEN l ELSE image.size - o
      BY <1>7, <2>2 DEF Wanted, Smaller
    <3> DEFINE size == image.size
               length == Len(buf)
    <3>2. /\ length \in Nat /\ length <= Wanted /\ length >= Wanted /\ size \in Nat
          /\ end = IF o + l <= size THEN o + l ELSE size
          /\ Wanted = IF l < size - o THEN l ELSE size - o
          /\ Len(stored.bytes) = size /\ o <= size
      BY <1>7, <2>1, <2>2, <3>1
    <3> HIDE DEF o, l, end, size, length
    <3>3. length = Wanted /\ o + Wanted = end /\ end <= size
      BY <2>2, <3>1, <3>2
    <3>4. QED
      BY <3>2, <3>3 DEF length
  <2>4. buf = SubSeq(stored.bytes, o + 1, o + Len(buf))
    <3>1. o + Len(buf) <= Len(stored.bytes)
      BY <2>3
    <3>2. \A i \in 1..Len(buf) : buf[i] = stored.bytes[o + i]
      BY <2>1 DEF ReadInv
    <3> HIDE DEF o
    <3>3. QED
      BY <3>1, <3>2, <2>2, <1>7, PartOf
  <2>5. buf = Guest!Slice(stored.bytes, o, l)
    BY <2>3, <2>4 DEF Guest!Slice
  <2>6. ~(o > Len(stored.bytes))
    BY <1>7, <2>1, <2>2
  <2>7. Guest!Reply
    BY <1>2, <2>1, <2>5, <2>6 DEF Guest!Reply, Guest!Data
  <2>8. QED
    BY <2>7 DEF Guest!Next
<1>12. CASE UNCHANGED vars
  <2>1. same
    BY <1>2, <1>12 DEF vars, Asked
  <2>2. QED
    BY <2>1, <1>1
<1>13. QED
  BY <1>3, <1>4, <1>5, <1>8, <1>9, <1>10, <1>11, <1>12 DEF Next, Reading

LEMMA InitReads == Init => Guest!Init
<1> SUFFICES ASSUME Init PROVE Guest!Init
  OBVIOUS
<1>1. SourceInv /\ phase = "closed" /\ answer = <<"none">>
  BY TypeInit DEF Init, TypeInv
<1>2. PICK clusters, format, tail, cut, trait : Made(clusters, format, tail, cut, trait)
  BY <1>1 DEF SourceInv
<1>3. stored.bytes \in Seq(Int)
  <2>1. /\ IsDisk(clusters) /\ tail \in 0 .. ClusterSize - 1
        /\ stored.bytes = Flat(clusters, tail)
    BY <1>2, ImageIs DEF Imaged
  <2>2. QED
    BY <2>1, FlatPlaced
<1>4. Intact \in BOOLEAN
  BY DEF Intact
<1>5. QED
  BY <1>1, <1>3, <1>4 DEF Guest!Init, Guest!None

\* Reading a container is reading the flat disk stored in it, step by step: a read
\* is answered with the very bytes of its range, or fails on a container that is cut
\* short or needs what the reader does not support (qcow2.rs:123-145,
\* vmdk.rs:110-131, vhdx.rs:110-131).  The disks are those without a cluster that is
\* zeroed and allocated, of which it is not true.
THEOREM ReadsImplementFlatDisk ==
    NoneZeroed => (Spec => Guest!Init /\ [][Guest!Next]_Guest!vars)
<1> SUFFICES ASSUME NoneZeroed
             PROVE  Spec => Guest!Init /\ [][Guest!Next]_Guest!vars
  OBVIOUS
<1>1. TypeInv /\ ReadInv /\ [Next]_vars => ReadInv'
  BY ReadStep
<1>2. TypeInv /\ ReadInv /\ [Next]_vars => [Guest!Next]_Guest!vars
  BY StepReads
<1>3. QED
  BY <1>1, <1>2, InitReads, ReadInit, TypeInit, TypeStep, PTL DEF Spec
=============================================================================
