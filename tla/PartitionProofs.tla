-------------------------- MODULE PartitionProofs --------------------------
(***************************************************************************)
(* What holds of reading a partition table, for every disk as a tool wrote *)
(* it and as damage left it, and of reading through the window of a        *)
(* partition.                                                              *)
(***************************************************************************)
EXTENDS PartitionedDisks, OperatorProofs

(***************************************************************************)
(* Sources                                                                 *)
(***************************************************************************)

AnyPartition == [kind : STRING, start : Nat, length : Nat \ {0}]

\* The sectors of a source are numbered from 0, and each is read as numbers.
LEMMA SourceType ==
    ASSUME source \in Disks
    PROVE  /\ Size \in Nat /\ DOMAIN source.sectors = 0 .. Size - 1
           /\ \A s \in 0 .. Size - 1 : SectorType(At(s))
  BY PartitionAssumption DEF Size, At

\* A sector that can be read is one of them.
LEMMA ReadableSector ==
    ASSUME source \in Disks, NEW s \in Nat, Readable(s, 1)
    PROVE  s \in 0 .. Size - 1 /\ s \notin source.bad
<1>1. s \in s .. s + 1 - 1
  OBVIOUS
<1>2. s < Size /\ s \notin source.bad
  BY <1>1 DEF Readable
<1>3. QED
  BY <1>2, SourceType

\* Each of a run of sectors that can be read can be read.
LEMMA ReadableRun ==
    ASSUME NEW first \in Nat, NEW count \in Nat, NEW s \in first .. first + count - 1
    PROVE  Readable(first, count) => s \in Nat /\ Readable(s, 1)
  BY DEF Readable

(***************************************************************************)
(* What the entries list                                                   *)
(***************************************************************************)

LEMMA PartitionType ==
    ASSUME NEW kind \in STRING, NEW start \in Nat, NEW length \in Nat \ {0}
    PROVE  /\ <<Partition(kind, start, length)>> \in Seq(AnyPartition)
           /\ Len(<<Partition(kind, start, length)>>) = 1
<1>1. Partition(kind, start, length) \in AnyPartition
  BY DEF Partition, AnyPartition
<1>2. \A p \in AnyPartition : <<p>> \in Seq(AnyPartition) /\ Len(<<p>>) = 1
  OBVIOUS
<1>3. QED
  BY <1>1, <1>2

LEMMA GptListedType ==
    ASSUME NEW e, SectorType(e)
    PROVE  GptListed(e) \in Seq(AnyPartition)
<1>1. CASE Used(e)
  <2>1. /\ e.type \in STRING /\ e.first \in Nat /\ e.last - e.first + 1 \in Nat \ {0}
    BY <1>1 DEF Used, SectorType
  <2>2. QED
    BY <1>1, <2>1, PartitionType DEF GptListed
<1>2. CASE ~Used(e)
  BY <1>2 DEF GptListed
<1>3. QED
  BY <1>1, <1>2

LEMMA PrimaryType ==
    ASSUME NEW e, e.kind \in STRING, e.start \in Nat, e.count \in Nat
    PROVE  Primary(e) \in Seq(AnyPartition)
<1>1. CASE e.count > 0
  <2>1. e.count \in Nat \ {0}
    BY <1>1
  <2>2. <<Partition(e.kind, e.start, e.count)>> \in Seq(AnyPartition)
    BY <2>1, PartitionType
  <2>3. QED
    BY <2>2 DEF Primary
<1>2. CASE ~(e.count > 0)
  BY <1>2 DEF Primary
<1>3. QED
  BY <1>1, <1>2

LEMMA LogicalType ==
    ASSUME NEW e, e.kind \in STRING, e.start \in Nat, e.count \in Nat, NEW at \in Nat
    PROVE  Logical(e, at) \in Seq(AnyPartition) /\ Len(Logical(e, at)) <= 1
<1>1. at + e.start \in Nat
  OBVIOUS
<1>2. CASE e.kind # "empty" /\ e.count # 0
  <2>1. Logical(e, at) = <<Partition(e.kind, at + e.start, e.count)>>
    BY <1>2 DEF Logical
  <2>2. e.count \in Nat \ {0}
    BY <1>2
  <2>3. PICK start \in Nat : start = at + e.start
    BY <1>1
  <2>4. /\ <<Partition(e.kind, start, e.count)>> \in Seq(AnyPartition)
        /\ Len(<<Partition(e.kind, start, e.count)>>) = 1
    BY <2>2, PartitionType
  <2>5. Logical(e, at) \in Seq(AnyPartition) /\ Len(Logical(e, at)) = 1
    BY <2>1, <2>3, <2>4
  <2>6. QED
    BY <2>5
<1>3. CASE ~(e.kind # "empty" /\ e.count # 0)
  <2>1. Logical(e, at) = <<>>
    BY <1>3 DEF Logical
  <2>2. QED
    BY <2>1
<1>4. QED
  BY <1>2, <1>3

LEMMA PrimariesType ==
    ASSUME NEW x, x.magic = "boot", SectorType(x)
    PROVE  Primaries(x.entries) \in Seq(AnyPartition)
<1> DEFINE pieces == [i \in DOMAIN x.entries |-> Primary(x.entries[i])]
<1>1. /\ DOMAIN x.entries = 1..4
      /\ \A i \in 1..4 : /\ x.entries[i].kind \in STRING
                         /\ x.entries[i].start \in Nat /\ x.entries[i].count \in Nat
  BY DEF SectorType
<1>2. \A i \in 1..4 : Primary(x.entries[i]) \in Seq(AnyPartition)
  BY <1>1, PrimaryType
<1>3. pieces \in [1..4 -> Seq(AnyPartition)]
  BY <1>1, <1>2
<1>4. pieces \in Seq(Seq(AnyPartition))
  <2> HIDE DEF pieces
  <2>1. QED
    BY <1>3, FunctionIsSequence
<1>5. QED
  <2>1. FlattenSeq(pieces) \in Seq(AnyPartition)
    <3> HIDE DEF pieces
    <3>1. QED
      BY <1>4, FlattenType
  <2>2. QED
    BY <2>1 DEF Primaries

\* The extended partition begins at a sector, if there is one.
LEMMA ExtendedBaseType ==
    ASSUME NEW x, x.magic = "boot", SectorType(x)
    PROVE  ExtendedBase(x.entries) \in Nat \cup {-1}
<1> DEFINE S == {i \in DOMAIN x.entries : x.entries[i].kind \in Extended}
<1>1. S \subseteq 1..4 /\ \A i \in 1..4 : x.entries[i].start \in Nat
  BY DEF SectorType
<1>2. CASE S = {}
  BY <1>2 DEF ExtendedBase
<1>3. CASE S # {}
  <2> HIDE DEF S
  <2>1. \E i \in S : \A j \in S : i >= j
    <3>1. CASE 4 \in S
      BY <3>1, <1>1
    <3>2. CASE 4 \notin S /\ 3 \in S
      BY <3>2, <1>1
    <3>3. CASE 4 \notin S /\ 3 \notin S /\ 2 \in S
      BY <3>3, <1>1
    <3>4. CASE 4 \notin S /\ 3 \notin S /\ 2 \notin S
      <4>1. PICK i \in S : TRUE
        BY <1>3
      <4>2. \A j \in S : j = 1
        BY <3>4, <1>1
      <4>3. QED
        BY <4>1, <4>2
    <3>5. QED
      BY <3>1, <3>2, <3>3, <3>4
  <2>2. Max(S) \in S
    BY <2>1 DEF Max
  <2>3. x.entries[Max(S)].start \in Nat
    BY <2>2, <1>1
  <2>4. QED
    BY <2>3, <1>3 DEF ExtendedBase, S
<1>4. QED
  BY <1>2, <1>3

\* The entry array lies where the header says, one entry behind the other.
LEMMA EntryPlace ==
    ASSUME NEW count \in Nat, NEW size \in Nat \ {0}, NEW i \in 1..count
    PROVE  (i - 1) * size \in 0 .. count * size - 1
<1>1. i - 1 \in Nat /\ count - i \in Nat
  OBVIOUS
<1>2. (i - 1) * size \in Nat /\ (count - i) * size \in Nat
  BY <1>1
<1>3. count * size = (i - 1) * size + size + (count - i) * size
  OBVIOUS
<1>4. count * size \in Nat
  OBVIOUS
<1>5. QED
  BY <1>2, <1>3, <1>4

LEMMA GptPartitionsType ==
    ASSUME source \in Disks, NEW h, SectorType(h), GptHeader(h), ArrayGood(h)
    PROVE  GptPartitions(h) \in Seq(AnyPartition)
<1> DEFINE at(i) == h.entry_lba + (i - 1) * h.entry_size
           pieces == [i \in 1..h.count |-> GptListed(At(at(i)))]
<1>1. /\ h.entry_lba \in Nat /\ h.count \in Nat /\ h.entry_size \in Nat \ {0}
  BY PartitionAssumption DEF SectorType, GptHeader
<1>2. ASSUME NEW i \in 1..h.count PROVE GptListed(At(at(i))) \in Seq(AnyPartition)
  <2>1. (i - 1) * h.entry_size \in 0 .. h.count * h.entry_size - 1
    BY <1>1, EntryPlace
  <2>2. h.count * h.entry_size \in Nat
    BY <1>1
  <2>3. at(i) \in Nat /\ at(i) \in h.entry_lba .. h.entry_lba + h.count * h.entry_size - 1
    BY <1>1, <2>1, <2>2
  <2>4. Readable(at(i), 1)
    <3> HIDE DEF at
    <3>1. QED
      BY <1>1, <2>2, <2>3, ReadableRun DEF ArrayGood
  <2>5. at(i) \in 0 .. Size - 1
    <3> HIDE DEF at
    <3>1. QED
      BY <2>3, <2>4, ReadableSector
  <2>6. QED
    <3> HIDE DEF at
    <3>1. QED
      BY <2>5, SourceType, GptListedType
<1>3. pieces \in [1..h.count -> Seq(AnyPartition)]
  BY <1>2
<1>4. pieces \in Seq(Seq(AnyPartition))
  <2> HIDE DEF pieces
  <2>1. QED
    BY <1>1, <1>3, FunctionIsSequence
<1>5. FlattenSeq(pieces) \in Seq(AnyPartition)
  <2> HIDE DEF pieces
  <2>1. QED
    BY <1>4, FlattenType
<1>6. QED
  BY <1>5 DEF GptPartitions

(***************************************************************************)
(* The type invariant                                                      *)
(***************************************************************************)

\* Where reading a table has got to.
Progress ==
    /\ source \in Disks
    /\ step \in {"gpt", "entries", "mbr", "logical", "listed", "done"}
    /\ scheme \in {"none", "mbr", "gpt"}
    /\ partitions \in Seq(AnyPartition)
    /\ base \in Nat \cup {-1} /\ ebr \in Nat \cup {-1} /\ seen \in 0..MaxHops
    /\ step = "logical" => base \in Nat /\ ebr \in Nat
    /\ step = "entries" => Readable(1, 1) /\ GptHeader(At(1))

\* A window lies within its partition and the source.
WindowInside ==
    window # None =>
        /\ step = "done" /\ window.of \in ToSet(partitions)
        /\ window.length \in Nat /\ window.length <= window.of.length
        /\ window.of.start + window.length <= Size

TypeInv == Progress /\ WindowInside

\* The smaller of two numbers.
LEMMA MinOfTwo ==
    ASSUME NEW a \in Int, NEW b \in Int
    PROVE  /\ Min({a, b}) \in {a, b}
           /\ Min({a, b}) <= a /\ Min({a, b}) <= b
<1>1. CASE a <= b
  <2>1. Min({a, b}) = a
    BY <1>1, MinIs
  <2>2. QED
    BY <1>1, <2>1
<1>2. CASE b <= a
  <2>1. Min({a, b}) = b
    BY <1>2, MinIs
  <2>2. QED
    BY <1>2, <2>1
<1>3. QED
  BY <1>1, <1>2

LEMMA InitType == Init => TypeInv
<1> SUFFICES ASSUME Init PROVE TypeInv
  OBVIOUS
<1>1. <<>> \in Seq(AnyPartition)
  OBVIOUS
<1>2. 0 \in 0..MaxHops
  BY PartitionAssumption
<1>3. QED
  BY <1>1, <1>2 DEF Init, TypeInv, Progress, WindowInside

\* No step of reading a table is taken once a window is open.
LEMMA NoWindowYet ==
    ASSUME TypeInv, ReadTable
    PROVE  window = None /\ window' = None /\ WindowInside'
  BY DEF TypeInv, WindowInside, ReadTable, ReadGptHeader, ReadGptEntries, ReadMbr,
         ReadLogical, Conclude, view, None

\* What is listed is a stretch of sectors.
LEMMA ListedType ==
    ASSUME TypeInv, NEW p \in ToSet(partitions)
    PROVE  p.start \in Nat /\ p.length \in Nat \ {0}
<1>1. PICK i \in DOMAIN partitions : p = partitions[i]
  BY DEF ToSet
<1>2. partitions \in Seq(AnyPartition)
  BY DEF TypeInv, Progress
<1>3. p \in AnyPartition
  BY <1>1, <1>2
<1>4. QED
  BY <1>3 DEF AnyPartition

LEMMA HeaderType == TypeInv /\ ReadGptHeader => Progress'
<1> SUFFICES ASSUME TypeInv, ReadGptHeader PROVE Progress'
  OBVIOUS
<1>1. UNCHANGED <<source, scheme, partitions, base, ebr, seen>>
  BY DEF ReadGptHeader, walk
<1>2. (step' = "entries" /\ Readable(1, 1) /\ GptHeader(At(1))) \/ step' = "mbr"
  BY DEF ReadGptHeader
<1>3. Readable(1, 1)' = Readable(1, 1) /\ GptHeader(At(1))' = GptHeader(At(1))
  BY <1>1 DEF Readable, Size, GptHeader, At
<1>4. QED
  BY <1>1, <1>2, <1>3 DEF TypeInv, Progress

LEMMA EntriesType == TypeInv /\ ReadGptEntries => Progress'
<1> SUFFICES ASSUME TypeInv, ReadGptEntries PROVE Progress'
  OBVIOUS
<1>1. UNCHANGED <<source, base, ebr, seen>> /\ step' \in {"done", "mbr"}
  BY DEF ReadGptEntries, walk
<1>2. source \in Disks /\ step = "entries" /\ Readable(1, 1) /\ GptHeader(At(1))
  BY DEF TypeInv, Progress, ReadGptEntries
<1>3. SectorType(At(1))
  <2>1. 1 \in 0 .. Size - 1
    BY <1>2, ReadableSector
  <2>2. QED
    BY <1>2, <2>1, SourceType
<1>4. ArrayGood(At(1)) => GptPartitions(At(1)) \in Seq(AnyPartition)
  BY <1>2, <1>3, GptPartitionsType
<1>5. partitions' \in Seq(AnyPartition) /\ scheme' \in {"none", "mbr", "gpt"}
  BY <1>4 DEF ReadGptEntries, TypeInv, Progress
<1>6. QED
  BY <1>1, <1>5 DEF TypeInv, Progress

LEMMA BootType ==
    ASSUME source \in Disks, NEW s \in Nat, Boot(s)
    PROVE  SectorType(At(s)) /\ At(s).magic = "boot"
<1>1. s \in 0 .. Size - 1
  BY ReadableSector DEF Boot
<1>2. QED
  BY <1>1, SourceType DEF Boot

LEMMA MbrType == TypeInv /\ ReadMbr => Progress'
<1> SUFFICES ASSUME TypeInv, ReadMbr PROVE Progress'
  OBVIOUS
<1>1. UNCHANGED <<source, scheme, seen>> /\ source \in Disks
  BY DEF ReadMbr, TypeInv, Progress
<1>2. CASE Boot(0)
  <2>1. SectorType(At(0)) /\ At(0).magic = "boot"
    BY <1>1, <1>2, BootType
  <2>2. /\ Primaries(At(0).entries) \in Seq(AnyPartition)
        /\ ExtendedBase(At(0).entries) \in Nat \cup {-1}
    BY <2>1, PrimariesType, ExtendedBaseType
  <2>3. /\ partitions' = Primaries(At(0).entries)
        /\ base' = ExtendedBase(At(0).entries) /\ ebr' = base'
        /\ step' = IF base' >= 0 THEN "logical" ELSE "listed"
    BY <1>2 DEF ReadMbr
  <2>4. step' = "logical" => base' \in Nat
    BY <2>2, <2>3
  <2>5. step' \in {"logical", "listed"}
    BY <2>3
  <2>6. QED
    BY <1>1, <2>2, <2>3, <2>4, <2>5 DEF TypeInv, Progress
<1>3. CASE ~Boot(0)
  BY <1>1, <1>3 DEF ReadMbr, TypeInv, Progress
<1>4. QED
  BY <1>2, <1>3

\* What one turn of the walk lists, and where it leads.
LEMMA TurnType ==
    ASSUME TypeInv, step = "logical", Boot(ebr)
    PROVE  /\ Logical(At(ebr).entries[1], ebr) \in Seq(AnyPartition)
           /\ Len(Logical(At(ebr).entries[1], ebr)) <= 1
           /\ NextEbr(At(ebr).entries[2].start) \in Nat \cup {-1}
<1>1. source \in Disks /\ ebr \in Nat /\ base \in Nat
  BY DEF TypeInv, Progress
<1>2. SectorType(At(ebr)) /\ At(ebr).magic = "boot"
  BY <1>1, BootType
<1>3. \A i \in 1..4 : /\ At(ebr).entries[i].kind \in STRING
                      /\ At(ebr).entries[i].start \in Nat
                      /\ At(ebr).entries[i].count \in Nat
  BY <1>2 DEF SectorType
<1>4. /\ At(ebr).entries[1].kind \in STRING
      /\ At(ebr).entries[1].start \in Nat /\ At(ebr).entries[1].count \in Nat
      /\ At(ebr).entries[2].start \in Nat
  BY <1>3
<1>5. NextEbr(At(ebr).entries[2].start) \in Nat \cup {-1}
  BY <1>1, <1>4 DEF NextEbr
<1>6. QED
  BY <1>1, <1>4, <1>5, LogicalType

LEMMA WalkType == TypeInv /\ ReadLogical => Progress'
<1> SUFFICES ASSUME TypeInv, ReadLogical PROVE Progress'
  OBVIOUS
<1>1. /\ UNCHANGED <<source, scheme, base>> /\ step = "logical"
      /\ base \in Nat /\ ebr \in Nat /\ seen \in 0..MaxHops /\ MaxHops \in Nat
  BY PartitionAssumption DEF ReadLogical, TypeInv, Progress
<1>2. CASE seen < MaxHops /\ Boot(ebr)
  <2> DEFINE more == Logical(At(ebr).entries[1], ebr)
             next == NextEbr(At(ebr).entries[2].start)
  <2>1. more \in Seq(AnyPartition) /\ next \in Nat \cup {-1}
    BY <1>1, <1>2, TurnType
  <2>2. /\ seen' = seen + 1 /\ partitions' = partitions \o more
        /\ ebr' = IF next < 0 THEN ebr ELSE next
        /\ step' = IF next < 0 THEN "listed" ELSE step
    BY <1>2 DEF ReadLogical
  <2> HIDE DEF more, next
  <2>3. partitions' \in Seq(AnyPartition)
    BY <2>1, <2>2 DEF TypeInv, Progress
  <2>4. ebr' \in Nat /\ seen' \in 0..MaxHops /\ step' \in {"logical", "listed"}
    BY <1>1, <1>2, <2>1, <2>2
  <2>5. QED
    BY <1>1, <2>3, <2>4 DEF TypeInv, Progress
<1>3. CASE ~(seen < MaxHops /\ Boot(ebr))
  BY <1>1, <1>3 DEF ReadLogical, TypeInv, Progress
<1>4. QED
  BY <1>2, <1>3

\* A window that is opened ends where its partition or the source does.
LEMMA OpenInside ==
    ASSUME TypeInv, NEW i \in DOMAIN partitions, OpenWindow(i)
    PROVE  Progress' /\ WindowInside'
<1>1. UNCHANGED <<source, step, scheme, partitions, base, ebr, seen>>
  BY DEF OpenWindow, walk
<1>2. Progress'
  BY <1>1 DEF TypeInv, Progress, Readable, Size, At, GptHeader, HeaderSum
<1>3. Size \in Nat /\ Size' = Size
  BY <1>1, SourceType DEF TypeInv, Progress, Size
<1> DEFINE p == partitions[i]
<1>4. p \in ToSet(partitions) /\ p.start \in Nat /\ p.length \in Nat
  <2>1. p \in ToSet(partitions)
    BY DEF ToSet
  <2>2. QED
    BY <2>1, ListedType
<1>5. /\ p.start <= Size
      /\ window' = [kind |-> "window", of |-> p, length |-> Min({p.length, Size - p.start})]
  BY <1>3, <1>4 DEF OpenWindow, WindowRange
<1> HIDE DEF p
<1>6. Size - p.start \in Nat
  BY <1>3, <1>4, <1>5
<1> DEFINE m == Min({p.length, Size - p.start})
<1>7. m \in Nat /\ m <= p.length /\ m <= Size - p.start
  <2>1. m \in {p.length, Size - p.start} /\ m <= p.length /\ m <= Size - p.start
    <3>1. p.length \in Int /\ Size - p.start \in Int
      BY <1>4, <1>6
    <3>2. QED
      BY <3>1, MinOfTwo
  <2> HIDE DEF m
  <2>2. QED
    BY <2>1, <1>4, <1>6
<1>8. window'.of = p /\ window'.length = m
  BY <1>5
<1> HIDE DEF m
<1>9. p.start + m <= Size
  BY <1>3, <1>4, <1>7
<1>10. step' = "done" /\ p \in ToSet(partitions')
  BY <1>1, <1>4 DEF OpenWindow
<1>11. QED
  BY <1>2, <1>3, <1>7, <1>8, <1>9, <1>10 DEF WindowInside

LEMMA NextType == TypeInv /\ [Next]_vars => TypeInv'
<1> SUFFICES ASSUME TypeInv, [Next]_vars PROVE TypeInv'
  OBVIOUS
<1>1. CASE ReadTable
  <2>1. CASE Conclude
    BY <2>1, <1>1, NoWindowYet
       DEF Conclude, TypeInv, Progress, walk, Readable, Size, At, GptHeader, HeaderSum
  <2>2. QED
    BY <1>1, <2>1, HeaderType, EntriesType, MbrType, WalkType, NoWindowYet
       DEF ReadTable, TypeInv
<1>2. ASSUME NEW i \in DOMAIN partitions, OpenWindow(i) PROVE TypeInv'
  BY <1>2, OpenInside DEF TypeInv
<1>3. ASSUME UNCHANGED <<source, step, scheme, partitions, walk, window>> PROVE TypeInv'
  BY <1>3 DEF TypeInv, Progress, WindowInside, walk, Readable, Size, At, GptHeader,
              HeaderSum
<1>4. CASE UNCHANGED vars
  BY <1>3, <1>4 DEF vars, view
<1>5. CASE \E offset, n \in 0 .. Size + 1 : \E m \in 0..n : ReadWindow(offset, n, m)
  BY <1>3, <1>5 DEF ReadWindow
<1>6. QED
  BY <1>1, <1>2, <1>4, <1>5 DEF Next

LEMMA Typed == Spec => []TypeInv
<1>1. QED
  BY InitType, NextType, PTL DEF Spec

\* The partitions listed are stretches of sectors, whatever the sectors of the
\* disk hold, at most MaxHops records are followed, and a window ends within the
\* source.
THEOREM TypeCorrect == Spec => []TypeOK
<1>1. TypeInv => TypeOK
  <2> SUFFICES ASSUME TypeInv PROVE TypeOK
    OBVIOUS
  <2>1. \A p \in ToSet(partitions) : p.start \in Nat /\ p.length \in Nat \ {0}
    BY ListedType
  <2>2. QED
    BY <2>1 DEF TypeOK, TypeInv, Progress, WindowInside
<1>2. QED
  BY <1>1, Typed, PTL

(***************************************************************************)
(* Reading through a window                                                *)
(***************************************************************************)

ReadInside == WindowReadsItsPartition /\ (got # None => window # None)

LEMMA InitRead == Init => ReadInside
  BY DEF Init, ReadInside, WindowReadsItsPartition

LEMMA NextRead == TypeInv /\ ReadInside /\ [Next]_vars => ReadInside'
<1> SUFFICES ASSUME TypeInv, ReadInside, [Next]_vars PROVE ReadInside'
  OBVIOUS
<1>1. ASSUME UNCHANGED <<source, window, got>> PROVE ReadInside'
  BY <1>1 DEF ReadInside, WindowReadsItsPartition, At, None
<1>2. CASE ReadTable
  <2>1. UNCHANGED <<source, window, got>>
    BY <1>2 DEF ReadTable, ReadGptHeader, ReadGptEntries, ReadMbr, ReadLogical, Conclude,
                view
  <2>2. QED
    BY <1>1, <2>1
<1>3. ASSUME NEW i \in DOMAIN partitions, OpenWindow(i) PROVE ReadInside'
  BY <1>3 DEF OpenWindow, ReadInside, WindowReadsItsPartition, None
<1>4. ASSUME NEW offset \in 0 .. Size + 1, NEW n \in 0 .. Size + 1, NEW m \in 0..n,
             ReadWindow(offset, n, m)
      PROVE  ReadInside'
  <2> DEFINE from == window.of.start + offset
             len == Clamp(offset, n)
             back(k) == [i \in 1..k |-> At(from + i - 1)]
  <2>8. DOMAIN back(0) = 1..0 /\ DOMAIN back(m) = 1..m
    OBVIOUS
  <2>9. /\ window # None /\ window' = window
        /\ \/ got' = [at |-> offset, asked |-> n, outcome |-> "out of range",
                     sectors |-> back(0)]
           \/ got' = [at |-> offset, asked |-> n, outcome |-> "failed",
                     sectors |-> back(0)]
           \/ /\ got' = [at |-> offset, asked |-> n, outcome |-> "read",
                        sectors |-> back(m)]
              /\ offset <= window.length /\ m <= len /\ (m = 0 => len = 0)
    BY <1>4 DEF ReadWindow
  <2> HIDE DEF back
  <2>1. /\ window # None /\ window' = window
        /\ \/ /\ got'.outcome \in {"out of range", "failed"}
              /\ DOMAIN got'.sectors = 1..0
           \/ /\ got'.outcome = "read" /\ DOMAIN got'.sectors = 1..m
              /\ offset <= window.length /\ m <= len /\ (m = 0 => len = 0)
        /\ got'.at = offset /\ got'.asked = n
    <3>1. ASSUME NEW outcome, NEW sectors,
                 got' = [at |-> offset, asked |-> n, outcome |-> outcome,
                         sectors |-> sectors]
          PROVE  /\ got'.at = offset /\ got'.asked = n /\ got'.outcome = outcome
                 /\ got'.sectors = sectors
      BY <3>1
    <3>2. window # None /\ window' = window
      BY <2>9
    <3>3. CASE got' = [at |-> offset, asked |-> n, outcome |-> "out of range",
                       sectors |-> back(0)]
      BY <2>8, <3>1, <3>2, <3>3
    <3>4. CASE got' = [at |-> offset, asked |-> n, outcome |-> "failed",
                       sectors |-> back(0)]
      BY <2>8, <3>1, <3>2, <3>4
    <3>5. CASE /\ got' = [at |-> offset, asked |-> n, outcome |-> "read",
                          sectors |-> back(m)]
               /\ offset <= window.length /\ m <= len /\ (m = 0 => len = 0)
      BY <2>8, <3>1, <3>2, <3>5
    <3>6. QED
      BY <2>9, <3>3, <3>4, <3>5
  <2>2. /\ Size \in Nat /\ window.of.length \in Nat
        /\ window.length \in Nat /\ window.length <= window.of.length
    <3>1. source \in Disks /\ window.of \in ToSet(partitions)
          /\ window.length \in Nat /\ window.length <= window.of.length
      BY <2>1 DEF TypeInv, Progress, WindowInside
    <3>2. QED
      BY <3>1, SourceType, ListedType
  <2>3. offset \in Nat /\ n \in Nat /\ m \in Nat
    BY <2>2
  <2>4. /\ len \in Int /\ len <= window.length - offset
        /\ len = n \/ len = window.length - offset
    <3>1. n \in Int /\ window.length - offset \in Int
      BY <2>2, <2>3
    <3>2. QED
      BY <3>1, MinOfTwo DEF Clamp
  <2> HIDE DEF from, len
  <2>5. CASE got'.outcome \in {"out of range", "failed"} /\ DOMAIN got'.sectors = 1..0
    <3>4. 1..0 = {}
      OBVIOUS
    <3>1. (\A i \in DOMAIN got'.sectors : FALSE) /\ got'.outcome # "read"
      BY <2>5, <3>4, Zenon
    <3>2. WindowReadsItsPartition'
      BY <3>1 DEF WindowReadsItsPartition
    <3>3. QED
      BY <2>1, <3>2 DEF ReadInside
  <2>6. CASE /\ got'.outcome = "read" /\ DOMAIN got'.sectors = 1..m
             /\ offset <= window.length /\ m <= len /\ (m = 0 => len = 0)
    <3>1. \A i \in DOMAIN got'.sectors : got'.at + i <= window'.of.length
      BY <2>1, <2>2, <2>3, <2>4, <2>6
    <3>2. got'.sectors = <<>> => m = 0
      <4>1. DOMAIN <<>> = 1..0
        OBVIOUS
      <4>2. 1..m = 1..0 => m = 0
        BY <2>3
      <4>3. QED
        BY <2>6, <4>1, <4>2
    <3>3. m = 0 => n = 0 \/ offset = window.length
      BY <2>2, <2>3, <2>4, <2>6
    <3>4. WindowReadsItsPartition'
      BY <2>1, <3>1, <3>2, <3>3 DEF WindowReadsItsPartition
    <3>5. QED
      BY <2>1, <3>4 DEF ReadInside
  <2>7. QED
    BY <2>1, <2>5, <2>6
<1>5. CASE UNCHANGED vars
  BY <1>1, <1>5 DEF vars, view
<1>6. QED
  BY <1>2, <1>3, <1>4, <1>5 DEF Next

\* Whatever the disk and its table, and whatever part of a request the source
\* delivers, a read through the window of a partition returns sectors of that
\* partition and of no other, and returns nothing only if nothing was asked for
\* or at the end of the window (window.rs:54-66).
THEOREM WindowExact == Spec => []WindowReadsItsPartition
<1>1. Spec => []ReadInside
  BY InitRead, NextRead, Typed, PTL DEF Spec
<1>2. ReadInside => WindowReadsItsPartition
  BY DEF ReadInside
<1>3. QED
  BY <1>1, <1>2, PTL

(***************************************************************************)
(* The chain as it was written                                             *)
(***************************************************************************)

Links == Len(source.chain)
Place(k) == source.chain[k].sector
Written(k) == source.written[Place(k)]
Lists(k) == source.chain[k].lists

\* What the first k records of the chain list.
UpTo(k) == FlattenSeq([i \in 1..k |-> source.chain[i].lists])

\* The chain of a disk, said of its records one by one.
LEMMA ChainFacts ==
    ASSUME source \in Disks
    PROVE  /\ Links \in 1 .. MaxHops + 1 /\ DOMAIN source.chain = 1..Links
           /\ \A k \in 1..Links :
                 Place(k) \in Nat /\ SectorType(Written(k)) /\ Written(k).magic = "boot"
           /\ Place(1) = 0 /\ Lists(1) = Primaries(Written(1).entries)
           /\ ExtendedBase(Written(1).entries) = IF Links = 1 THEN -1 ELSE Place(2)
           /\ \A k \in 2..Links :
                 /\ Lists(k) = Logical(Written(k).entries[1], Place(k))
                 /\ k = Links => Written(k).entries[2].start = 0
                 /\ k # Links =>
                       LET link == Written(k).entries[2].start IN
                       /\ link # 0 /\ Place(k + 1) # Place(k)
                       /\ Place(k + 1) = ExtendedBase(Written(1).entries) + link
<1>1. ChainWritten(source)
  BY DisksAssumption
<1>2. QED
  BY <1>1 DEF ChainWritten, Links, Place, Written, Lists

LEMMA ListsType ==
    ASSUME source \in Disks, NEW k \in 1..Links
    PROVE  Lists(k) \in Seq(AnyPartition)
<1>1. Place(k) \in Nat /\ SectorType(Written(k)) /\ Written(k).magic = "boot"
  BY ChainFacts
<1>2. CASE k = 1
  BY <1>1, <1>2, ChainFacts, PrimariesType
<1>3. CASE k # 1
  <2>1. k \in 2..Links
    BY <1>3, ChainFacts
  <2>2. /\ Written(k).entries[1].kind \in STRING
        /\ Written(k).entries[1].start \in Nat /\ Written(k).entries[1].count \in Nat
    <3>1. 1 \in 1..4
      OBVIOUS
    <3>2. QED
      BY <1>1, <3>1 DEF SectorType
  <2>3. Logical(Written(k).entries[1], Place(k)) \in Seq(AnyPartition)
    BY <1>1, <2>2, LogicalType
  <2>4. Lists(k) = Logical(Written(k).entries[1], Place(k))
    BY <2>1, ChainFacts
  <2>5. QED
    BY <2>3, <2>4
<1>4. QED
  BY <1>2, <1>3

\* One record more lists its partitions behind the others.
LEMMA UpToMore ==
    ASSUME source \in Disks
    PROVE  /\ UpTo(0) = <<>>
           /\ \A k \in 0 .. Links - 1 : UpTo(k + 1) = UpTo(k) \o Lists(k + 1)
           /\ \A k \in 0..Links : UpTo(k) \in Seq(AnyPartition)
<1> DEFINE pieces(k) == [i \in 1..k |-> source.chain[i].lists]
<1>1. Links \in Nat
  BY ChainFacts, PartitionAssumption
<1>2. ASSUME NEW k \in 0..Links
      PROVE  pieces(k) \in Seq(Seq(AnyPartition)) /\ Len(pieces(k)) = k
  <2>1. k \in Nat /\ \A i \in 1..k : source.chain[i].lists \in Seq(AnyPartition)
    BY <1>1, ListsType DEF Lists
  <2>2. pieces(k) \in [1..k -> Seq(AnyPartition)]
    BY <2>1
  <2> HIDE DEF pieces
  <2>3. QED
    BY <2>1, <2>2, FunctionIsSequence
<1>3. UpTo(0) = <<>>
  <2>1. pieces(0) = <<>>
    OBVIOUS
  <2>2. FlattenSeq(pieces(0)) = <<>>
    BY <2>1, FlattenNone
  <2>3. QED
    BY <2>2 DEF UpTo
<1>4. ASSUME NEW k \in 0 .. Links - 1 PROVE UpTo(k + 1) = UpTo(k) \o Lists(k + 1)
  <2>1. k \in 0..Links /\ k + 1 \in 0..Links
    BY <1>1
  <2>2. /\ \A i \in 1..k : pieces(k + 1)[i] = pieces(k)[i]
        /\ pieces(k + 1)[k + 1] = Lists(k + 1)
    BY <2>1 DEF Lists
  <2>3. FlattenSeq(pieces(k + 1)) = FlattenSeq(pieces(k)) \o pieces(k + 1)[k + 1]
    <3> HIDE DEF pieces
    <3>1. /\ pieces(k) \in Seq(Seq(AnyPartition)) /\ Len(pieces(k)) = k
          /\ pieces(k + 1) \in Seq(Seq(AnyPartition)) /\ Len(pieces(k + 1)) = k + 1
      BY <1>2, <2>1
    <3>2. QED
      BY <2>2, <3>1, FlattenMore
  <2>4. QED
    BY <2>2, <2>3 DEF UpTo
<1>5. ASSUME NEW k \in 0..Links PROVE UpTo(k) \in Seq(AnyPartition)
  <2>1. FlattenSeq(pieces(k)) \in Seq(AnyPartition)
    <3> HIDE DEF pieces
    <3>1. QED
      BY <1>2, FlattenType
  <2>2. QED
    BY <2>1 DEF UpTo
<1>6. QED
  BY <1>3, <1>4, <1>5

\* What is listed up to the damage is what the records before the first damaged
\* one list.
LEMMA UpToDamageIs ==
    ASSUME source \in Disks, NEW k \in 0..Links, \A i \in 1..k : Kept(Place(i)),
           k < Links => ~Kept(Place(k + 1))
    PROVE  UpToDamage = UpTo(k)
<1> DEFINE lost == {i \in DOMAIN source.chain : ~Kept(source.chain[i].sector)}
           n == IF lost = {} THEN Len(source.chain) ELSE Min(lost) - 1
<1>1. Links \in Nat /\ DOMAIN source.chain = 1..Links
  BY ChainFacts, PartitionAssumption
<1>2. lost = {i \in 1..Links : ~Kept(Place(i))}
  BY <1>1 DEF Place
<1>3. n = k
  <2>1. CASE k = Links
    <3>1. lost = {}
      BY <1>2, <2>1
    <3>2. QED
      BY <3>1, <2>1 DEF Links
  <2>2. CASE k < Links
    <3>1. k + 1 \in lost
      BY <1>1, <1>2, <2>2
    <3>2. lost \subseteq Int /\ \A i \in lost : k + 1 <= i
      BY <1>1, <1>2
    <3>3. Min(lost) = k + 1
      <4> HIDE DEF lost
      <4>1. QED
        BY <3>1, <3>2, MinIs
    <3>4. QED
      <4> HIDE DEF lost
      <4>1. n = Min(lost) - 1
        BY <3>1
      <4>2. QED
        BY <3>3, <4>1
  <2>3. QED
    BY <1>1, <2>1, <2>2
<1>4. UpToDamage = UpTo(n)
  BY DEF UpToDamage, UpTo
<1>5. QED
  BY <1>3, <1>4

\* Some number of records are kept before the first that is not.
LEMMA UpToDamageType ==
    ASSUME source \in Disks
    PROVE  UpToDamage \in Seq(AnyPartition)
<1> DEFINE lost == {i \in 1..Links : ~Kept(Place(i))}
<1>1. Links \in Nat
  BY ChainFacts, PartitionAssumption
<1>2. CASE lost = {}
  <2>1. UpToDamage = UpTo(Links)
    BY <1>1, <1>2, UpToDamageIs
  <2>2. QED
    BY <1>1, <2>1, UpToMore
<1>3. CASE lost # {}
  <2>1. PICK i \in lost : \A j \in lost : i <= j
    <3>1. lost \subseteq Nat
      BY <1>1
    <3> HIDE DEF lost
    <3>2. QED
      BY <1>3, <3>1, LeastNumber
  <2>2. /\ i - 1 \in 0..Links /\ i - 1 < Links
        /\ \A j \in 1 .. i - 1 : Kept(Place(j))
        /\ ~Kept(Place((i - 1) + 1))
    <3>1. i \in 1..Links /\ ~Kept(Place(i)) /\ (i - 1) + 1 = i
      BY <1>1, <2>1
    <3>2. ASSUME NEW j \in 1 .. i - 1 PROVE Kept(Place(j))
      <4>1. j \in 1..Links /\ ~(i <= j)
        BY <1>1, <3>1
      <4>2. QED
        BY <2>1, <4>1
    <3>3. QED
      BY <1>1, <3>1, <3>2
  <2>3. UpToDamage = UpTo(i - 1)
    BY <2>2, UpToDamageIs
  <2>4. QED
    BY <2>2, <2>3, UpToMore
<1>4. QED
  BY <1>2, <1>3

\* A record of the chain that is kept is read as it was written; behind another
\* one there is no boot record, unless it is a link that is another one.
LEMMA KeptOrDamaged ==
    ASSUME source \in Disks, NEW k \in 1..Links
    PROVE  /\ Kept(Place(k)) => Boot(Place(k)) /\ At(Place(k)) = Written(k)
           /\ ~Kept(Place(k)) /\ Boot(Place(k)) => source.relinked /\ k # 1
<1>1. /\ Place(k) \in Nat /\ Written(k).magic = "boot" /\ Place(1) = 0
  BY ChainFacts
<1>2. Kept(Place(k)) => Boot(Place(k)) /\ At(Place(k)) = Written(k)
  BY <1>1 DEF Kept, Boot, Written
<1>3. ASSUME ~Kept(Place(k)), Boot(Place(k)) PROVE source.relinked /\ k # 1
  <2>1. OnlyDamaged(source)
    BY DisksAssumption
  <2>2. Place(k) \in DOMAIN source.sectors
    BY <1>1, <1>3, ReadableSector, SourceType DEF Boot
  <2>3. /\ source.sectors[Place(k)] # source.written[Place(k)]
        /\ source.sectors[Place(k)].magic = "boot"
        /\ source.written[Place(k)].magic = "boot"
    BY <1>1, <1>3 DEF Kept, Boot, At, Written
  <2>4. IF source.relinked THEN Place(k) # 0
        ELSE source.sectors[Place(k)].magic # "boot"
    BY <2>1, <2>2, <2>3 DEF OnlyDamaged
  <2>5. QED
    BY <2>3, <2>4, <1>1
<1>4. QED
  BY <1>2, <1>3

(***************************************************************************)
(* The GPT                                                                 *)
(***************************************************************************)

\* The numbers in the header of a GPT.
LEMMA GptNumbers ==
    ASSUME NEW h, SectorType(h), GptHeader(h)
    PROVE  h.entry_lba \in Nat /\ h.count \in Nat /\ h.entry_size \in Nat \ {0}
<1>1. h.magic = "gpt" /\ h.entry_size \in 1..MaxEntry /\ h.count \in 1..MaxEntries
  BY DEF GptHeader
<1>2. MaxEntry \in Nat /\ MaxEntries \in Nat
  BY PartitionAssumption
<1>3. h.entry_lba \in Nat
  BY <1>1 DEF SectorType
<1>4. QED
  BY <1>1, <1>2, <1>3

\* A GPT is believed exactly if its header and its entries are as they were
\* written.
LEMMA HeaderBelieved ==
    ASSUME source \in Disks, GptKept
    PROVE  /\ Readable(1, 1) /\ GptHeader(At(1)) /\ ArrayGood(At(1))
           /\ GptPartitions(At(1)) = source.listed
<1> DEFINE h == source.written[1]
           size == h.count * h.entry_size
<1>1. /\ SectorType(h) /\ GptHeader(h)
      /\ source.gpt = {1} \cup {h.entry_lba + i : i \in 0 .. size - 1}
      /\ h.entries = [i \in 1..size |-> source.written[h.entry_lba + (i - 1)]]
      /\ source.listed = FlattenSeq([i \in 1..h.count |->
             GptListed(source.written[h.entry_lba + (i - 1) * h.entry_size])])
  BY DisksAssumption DEF GptWritten, GptKept
<1>2. Kept(1) /\ \A i \in 0 .. size - 1 : Kept(h.entry_lba + i)
  <2>1. \A s \in source.gpt : Kept(s)
    BY DEF GptKept
  <2>2. \A i \in 0 .. size - 1 : h.entry_lba + i \in source.gpt
    BY <1>1
  <2>3. 1 \in source.gpt
    BY <1>1
  <2> HIDE DEF h, size
  <2>4. QED
    BY <2>1, <2>2, <2>3
<1>3. At(1) = h /\ Readable(1, 1)
  BY <1>2 DEF Kept
<1>4. h.entry_lba \in Nat /\ h.count \in Nat /\ h.entry_size \in Nat \ {0} /\ size \in Nat
  <2>1. h.entry_lba \in Nat /\ h.count \in Nat /\ h.entry_size \in Nat \ {0}
    BY <1>1, GptNumbers
  <2>2. QED
    BY <2>1
<1> HIDE DEF h
<1>5. Readable(h.entry_lba, size)
  <2> HIDE DEF size
  <2> SUFFICES ASSUME NEW s \in h.entry_lba .. h.entry_lba + size - 1
               PROVE  s < Size /\ s \notin source.bad
    BY DEF Readable
  <2>1. s - h.entry_lba \in 0 .. size - 1 /\ h.entry_lba + (s - h.entry_lba) = s
    BY <1>4
  <2>2. Kept(s)
    BY <1>2, <2>1
  <2>3. s \in s .. s + 1 - 1
    BY <1>4
  <2>4. QED
    BY <2>2, <2>3 DEF Kept, Readable
<1>6. \A i \in 1..size : At(h.entry_lba + i - 1) = source.written[h.entry_lba + (i - 1)]
  <2> HIDE DEF size
  <2> SUFFICES ASSUME NEW i \in 1..size
               PROVE  At(h.entry_lba + i - 1) = source.written[h.entry_lba + (i - 1)]
    OBVIOUS
  <2>1. i - 1 \in 0 .. size - 1 /\ h.entry_lba + i - 1 = h.entry_lba + (i - 1)
    BY <1>4
  <2>2. QED
    BY <1>2, <2>1 DEF Kept
<1>7. ArrayGood(h)
  BY <1>1, <1>5, <1>6 DEF ArrayGood
<1>8. GptPartitions(h) = source.listed
  <2>1. ASSUME NEW i \in 1..h.count
        PROVE  At(h.entry_lba + (i - 1) * h.entry_size)
               = source.written[h.entry_lba + (i - 1) * h.entry_size]
    <3>1. (i - 1) * h.entry_size \in 0 .. size - 1
      BY <1>4, EntryPlace
    <3>2. QED
      BY <1>2, <3>1 DEF Kept
  <2>2. [i \in 1..h.count |-> GptListed(At(h.entry_lba + (i - 1) * h.entry_size))]
        = [i \in 1..h.count |->
             GptListed(source.written[h.entry_lba + (i - 1) * h.entry_size])]
    BY <2>1
  <2>3. QED
    BY <1>1, <2>2 DEF GptPartitions
<1>9. QED
  BY <1>1, <1>3, <1>7, <1>8

LEMMA BelievedKept ==
    ASSUME source \in Disks, Readable(1, 1), GptHeader(At(1)), ArrayGood(At(1))
    PROVE  GptKept /\ ~source.relinked
<1> DEFINE h == source.written[1]
           size == h.count * h.entry_size
<1>1. 1 \in DOMAIN source.sectors /\ At(1).magic = "gpt" /\ At(1) = source.sectors[1]
  BY ReadableSector, SourceType DEF GptHeader, At
<1>2. OnlyDamaged(source) /\ GptWritten(source)
  BY DisksAssumption
<1>3. source.gpt # {}
  BY <1>1, <1>2 DEF OnlyDamaged
<1>4. ~source.relinked
  BY <1>2, <1>3 DEF OnlyDamaged
<1>5. /\ SectorType(h) /\ GptHeader(h)
      /\ source.gpt = {1} \cup {h.entry_lba + i : i \in 0 .. size - 1}
      /\ h.entries = [i \in 1..size |-> source.written[h.entry_lba + (i - 1)]]
  BY <1>2, <1>3 DEF GptWritten
<1>6. At(1) = h
  <2>1. SUFFICES ASSUME source.sectors[1] # source.written[1] PROVE FALSE
    BY <1>1
  <2>2. /\ source.sectors[1].sum = h.sum
        /\ HeaderSum(source.sectors[1]) # HeaderSum(h)
    BY <1>1, <1>2, <1>3, <2>1 DEF OnlyDamaged
  <2>3. h.sum = HeaderSum(h) /\ source.sectors[1].sum = HeaderSum(source.sectors[1])
    BY <1>1, <1>5 DEF GptHeader
  <2>4. QED
    BY <2>2, <2>3
<1>7. h.entry_lba \in Nat /\ size \in Nat
  <2>1. h.entry_lba \in Nat /\ h.count \in Nat /\ h.entry_size \in Nat \ {0}
    BY <1>5, GptNumbers
  <2>2. QED
    BY <2>1
<1> HIDE DEF h
<1>8. /\ Readable(h.entry_lba, size)
      /\ h.entries = [i \in 1..size |-> At(h.entry_lba + i - 1)]
  BY <1>6 DEF ArrayGood
<1> HIDE DEF size
<1>9. ASSUME NEW i \in 0 .. size - 1 PROVE Kept(h.entry_lba + i)
  <2>1. /\ i + 1 \in 1..size /\ h.entry_lba + (i + 1) - 1 = h.entry_lba + i
        /\ h.entry_lba + ((i + 1) - 1) = h.entry_lba + i
        /\ h.entry_lba + i \in h.entry_lba .. h.entry_lba + size - 1
    BY <1>7
  <2>2. h.entries[i + 1] = source.written[h.entry_lba + i]
    BY <1>5, <2>1
  <2>3. h.entries[i + 1] = At(h.entry_lba + i)
    BY <1>8, <2>1
  <2>4. Readable(h.entry_lba + i, 1)
    BY <1>7, <1>8, <2>1, ReadableRun
  <2>5. QED
    BY <2>2, <2>3, <2>4 DEF Kept
<1>10. Kept(1)
  BY <1>6 DEF Kept, h
<1>11. \A s \in source.gpt : Kept(s)
  BY <1>5, <1>9, <1>10
<1>12. QED
  BY <1>3, <1>4, <1>11 DEF GptKept

(***************************************************************************)
(* The walk                                                                *)
(***************************************************************************)

\* The walk has followed the records as they were written, and is at the next.
OnTheChain ==
    /\ seen + 2 <= Links /\ \A k \in 1 .. seen + 1 : Kept(Place(k))
    /\ partitions = UpTo(seen + 1) /\ ebr = Place(seen + 2) /\ base = Place(2)

\* What the records up to the damage list has been listed, and maybe more.
Begun == \E rest \in Seq(AnyPartition) : partitions = UpToDamage \o rest

Ended == IF source.relinked THEN Begun ELSE partitions = UpToDamage

TableInv ==
    /\ step \in {"gpt", "entries", "mbr"} => partitions = <<>> /\ seen = 0
    /\ step # "done" => scheme = "none"
    /\ step \in {"mbr", "logical", "listed"} => ~GptKept
    /\ step = "logical" => OnTheChain \/ (source.relinked /\ Begun)
    /\ step = "listed" => Ended
    /\ step = "done" =>
          IF GptKept THEN ~source.relinked /\ scheme = "gpt" /\ partitions = source.listed
          ELSE Ended /\ scheme = IF partitions = <<>> THEN "none" ELSE "mbr"
    /\ source.relinked => Len(partitions) <= Len(Lists(1)) + seen

\* What is said of the source and its table stays while those do.
Frame == <<source, step, scheme, partitions, base, ebr, seen>>

\* What the chain is and lists is said of the source alone.
LEMMA SourceStays ==
    ASSUME UNCHANGED source
    PROVE  /\ Links' = Links /\ GptKept' = GptKept /\ UpToDamage' = UpToDamage
           /\ \A k : /\ Place(k)' = Place(k) /\ UpTo(k)' = UpTo(k)
                     /\ Lists(k)' = Lists(k) /\ Kept(Place(k))' = Kept(Place(k))
  BY DEF Links, GptKept, UpToDamage, Place, UpTo, Lists, Kept, Readable, Size, At

\* What has been listed in full.
LEMMA EndedThen ==
    ASSUME source \in Disks, UNCHANGED source
    PROVE  /\ partitions' = UpToDamage => Ended'
           /\ \A rest \in Seq(AnyPartition) :
                 partitions' = UpToDamage \o rest => Begun'
<1>1. ASSUME NEW rest \in Seq(AnyPartition), partitions' = UpToDamage \o rest
      PROVE  Begun'
  <2>1. partitions' = UpToDamage' \o rest
    BY <1>1, SourceStays
  <2>2. QED
    BY <2>1 DEF Begun
<1>2. ASSUME partitions' = UpToDamage PROVE Ended'
  <2>1. UpToDamage \o <<>> = UpToDamage /\ <<>> \in Seq(AnyPartition)
    BY UpToDamageType
  <2>2. Begun'
    BY <1>1, <1>2, <2>1
  <2>3. partitions' = UpToDamage'
    BY <1>2, SourceStays
  <2>4. QED
    BY <2>2, <2>3 DEF Ended
<1>3. QED
  BY <1>1, <1>2

LEMMA EndedStays ==
    ASSUME UNCHANGED <<source, partitions>>
    PROVE  Ended' = Ended /\ Begun' = Begun
<1>1. UpToDamage' = UpToDamage
  BY SourceStays
<1>2. Begun' = Begun
  BY <1>1 DEF Begun
<1>3. QED
  BY <1>1, <1>2 DEF Ended

LEMMA TableStays == TableInv /\ UNCHANGED Frame => TableInv'
<1> SUFFICES ASSUME TableInv, UNCHANGED Frame PROVE TableInv'
  OBVIOUS
<1>1. UNCHANGED <<source, step, scheme, partitions, base, ebr, seen>>
  BY DEF Frame
<1>2. Ended' = Ended /\ Begun' = Begun
  BY <1>1, EndedStays
<1>3. OnTheChain => OnTheChain'
  BY <1>1, SourceStays DEF OnTheChain
<1>4. QED
  BY <1>1, <1>2, <1>3, SourceStays DEF TableInv

LEMMA InitTable == Init => TableInv
<1> SUFFICES ASSUME Init PROVE TableInv
  OBVIOUS
<1>1. source \in Disks /\ Links \in 1 .. MaxHops + 1 /\ MaxHops \in Nat
  BY ChainFacts, PartitionAssumption DEF Init
<1>2. Lists(1) \in Seq(AnyPartition)
  BY <1>1, ListsType
<1>3. Len(<<>>) <= Len(Lists(1)) + 0
  BY <1>2
<1>4. QED
  BY <1>3 DEF Init, TableInv

LEMMA HeaderTable == TypeInv /\ TableInv /\ ReadGptHeader => TableInv'
<1> SUFFICES ASSUME TypeInv, TableInv, ReadGptHeader PROVE TableInv'
  OBVIOUS
<1>1. UNCHANGED <<source, scheme, partitions, base, ebr, seen>> /\ step = "gpt"
  BY DEF ReadGptHeader, walk
<1>2. source \in Disks
  BY DEF TypeInv, Progress
<1>3. GptKept' = GptKept /\ Lists(1)' = Lists(1)
  BY <1>1 DEF GptKept, Kept, Readable, Size, At, Lists
<1>4. step' = "entries" \/ (step' = "mbr" /\ ~GptKept)
  BY <1>2, HeaderBelieved DEF ReadGptHeader
<1>5. QED
  BY <1>1, <1>3, <1>4 DEF TableInv

LEMMA EntriesTable == TypeInv /\ TableInv /\ ReadGptEntries => TableInv'
<1> SUFFICES ASSUME TypeInv, TableInv, ReadGptEntries PROVE TableInv'
  OBVIOUS
<1>1. UNCHANGED <<source, base, ebr, seen>> /\ step = "entries"
  BY DEF ReadGptEntries, walk
<1>2. source \in Disks /\ Readable(1, 1) /\ GptHeader(At(1))
  BY <1>1 DEF TypeInv, Progress
<1>3. GptKept' = GptKept /\ Lists(1)' = Lists(1)
  BY <1>1 DEF GptKept, Kept, Readable, Size, At, Lists
<1>4. CASE ArrayGood(At(1))
  <2>1. GptKept /\ ~source.relinked
    BY <1>2, <1>4, BelievedKept
  <2>2. partitions' = source.listed /\ scheme' = "gpt" /\ step' = "done"
    BY <1>2, <1>4, <2>1, HeaderBelieved DEF ReadGptEntries
  <2>3. QED
    BY <1>1, <1>3, <2>1, <2>2 DEF TableInv
<1>5. CASE ~ArrayGood(At(1))
  <2>1. ~GptKept /\ step' = "mbr" /\ UNCHANGED <<scheme, partitions>>
    BY <1>2, <1>5, HeaderBelieved DEF ReadGptEntries
  <2>2. QED
    BY <1>1, <1>3, <2>1 DEF TableInv
<1>6. QED
  BY <1>4, <1>5

LEMMA MbrTable == TypeInv /\ TableInv /\ ReadMbr => TableInv'
<1> SUFFICES ASSUME TypeInv, TableInv, ReadMbr PROVE TableInv'
  OBVIOUS
<1>1. UNCHANGED <<source, scheme, seen>> /\ step = "mbr"
  BY DEF ReadMbr
<1>2. source \in Disks /\ seen = 0 /\ partitions = <<>> /\ scheme = "none" /\ ~GptKept
  BY <1>1 DEF TypeInv, Progress, TableInv
<1>3. /\ Links \in 1 .. MaxHops + 1 /\ MaxHops \in Nat /\ Place(1) = 0
      /\ Lists(1) = Primaries(Written(1).entries)
      /\ ExtendedBase(Written(1).entries) = IF Links = 1 THEN -1 ELSE Place(2)
  BY <1>2, ChainFacts, PartitionAssumption
<1>4. Lists(1) \in Seq(AnyPartition)
  BY <1>2, <1>3, ListsType
<1>5. UpTo(0) = <<>> /\ UpTo(1) = Lists(1)
  <2>1. 0 \in 0 .. Links - 1 /\ 0 + 1 = 1
    BY <1>3
  <2>2. UpTo(0) = <<>> /\ UpTo(0 + 1) = UpTo(0) \o Lists(0 + 1)
    BY <1>2, <2>1, UpToMore
  <2>3. UpTo(0 + 1) = UpTo(1) /\ Lists(0 + 1) = Lists(1)
    BY <2>1
  <2>4. <<>> \o Lists(1) = Lists(1)
    BY <1>4
  <2>5. QED
    BY <2>2, <2>3, <2>4
<1>6. CASE Boot(0)
  <2>1. Kept(Place(1)) /\ At(0) = Written(1)
    BY <1>2, <1>3, <1>6, KeptOrDamaged
  <2>2. /\ partitions' = Lists(1) /\ base' = ExtendedBase(Written(1).entries)
        /\ ebr' = base' /\ step' = IF base' >= 0 THEN "logical" ELSE "listed"
    BY <1>3, <1>6, <2>1 DEF ReadMbr
  <2>3. source.relinked => Len(partitions') <= Len(Lists(1)) + seen
    BY <1>2, <1>4, <2>2
  <2>4. CASE Links = 1
    <3>1. step' = "listed"
      BY <1>3, <2>2, <2>4
    <3>2. UpToDamage = UpTo(1)
      BY <1>2, <1>3, <2>1, <2>4, UpToDamageIs
    <3>3. partitions' = UpToDamage
      BY <1>5, <2>2, <3>2
    <3>4. Ended'
      BY <1>1, <1>2, <3>3, EndedThen
    <3>5. QED
      BY <1>1, <1>2, <2>3, <3>1, <3>4, SourceStays DEF TableInv
  <2>5. CASE Links # 1
    <3>1. base' = Place(2) /\ Place(2) \in Nat /\ 2 <= Links
      BY <1>2, <1>3, <2>2, <2>5, ChainFacts
    <3>2. step' = "logical"
      BY <2>2, <3>1
    <3>3. OnTheChain'
      <4>1. seen' = 0 /\ \A k \in 1 .. seen' + 1 : Kept(Place(k))
        BY <1>1, <1>2, <2>1
      <4>2. partitions' = UpTo(seen' + 1) /\ ebr' = Place(seen' + 2) /\ seen' + 2 <= Links
        BY <1>5, <2>2, <3>1, <4>1
      <4>3. QED
        BY <1>1, <3>1, <4>1, <4>2, SourceStays DEF OnTheChain
    <3>4. QED
      BY <1>1, <1>2, <2>3, <3>2, <3>3, SourceStays DEF TableInv
  <2>6. QED
    BY <2>4, <2>5
<1>7. CASE ~Boot(0)
  <2>1. ~Kept(Place(1))
    BY <1>2, <1>3, <1>7, KeptOrDamaged
  <2>2. step' = "listed" /\ UNCHANGED <<partitions, base, ebr>>
    BY <1>7 DEF ReadMbr
  <2>3. UpToDamage = UpTo(0)
    <3>1. 0 \in 0..Links /\ 0 + 1 = 1 /\ \A i \in 1..0 : Kept(Place(i))
      BY <1>3
    <3>2. QED
      BY <1>2, <2>1, <3>1, UpToDamageIs
  <2>4. partitions' = UpToDamage
    BY <1>2, <1>5, <2>2, <2>3
  <2>5. Ended'
    BY <1>1, <1>2, <2>4, EndedThen
  <2>6. QED
    BY <1>1, <1>2, <2>2, <2>5, SourceStays DEF TableInv
<1>8. QED
  BY <1>6, <1>7

LEMMA WalkTable == TypeInv /\ TableInv /\ ReadLogical => TableInv'
<1> SUFFICES ASSUME TypeInv, TableInv, ReadLogical PROVE TableInv'
  OBVIOUS
<1>1. UNCHANGED <<source, scheme, base>> /\ step = "logical"
  BY DEF ReadLogical
<1>2. /\ source \in Disks /\ seen \in 0..MaxHops /\ MaxHops \in Nat
      /\ ebr \in Nat /\ base \in Nat /\ partitions \in Seq(AnyPartition)
      /\ scheme = "none" /\ ~GptKept
  BY <1>1, PartitionAssumption DEF TypeInv, Progress, TableInv
<1>3. /\ Links \in 1 .. MaxHops + 1 /\ Lists(1) \in Seq(AnyPartition)
      /\ UpToDamage \in Seq(AnyPartition)
  <2>1. Links \in 1 .. MaxHops + 1
    BY <1>2, ChainFacts
  <2>2. 1 \in 1..Links
    BY <2>1, <1>2
  <2>3. QED
    BY <1>2, <2>1, <2>2, ListsType, UpToDamageType
<1>4. source.relinked => Len(partitions) <= Len(Lists(1)) + seen
  BY DEF TableInv
<1> DEFINE more == Logical(At(ebr).entries[1], ebr)
           next == NextEbr(At(ebr).entries[2].start)
           turn == seen < MaxHops /\ Boot(ebr)
<1>5. turn => /\ more \in Seq(AnyPartition) /\ Len(more) <= 1
              /\ next \in Nat \cup {-1}
  BY <1>1, TurnType
<1>6. /\ turn => /\ seen' = seen + 1 /\ partitions' = partitions \o more
                 /\ ebr' = IF next < 0 THEN ebr ELSE next
                 /\ step' = IF next < 0 THEN "listed" ELSE step
      /\ ~turn => step' = "listed" /\ UNCHANGED <<seen, partitions, ebr>>
  BY DEF ReadLogical
<1> HIDE DEF more, next
<1>7. step' \in {"logical", "listed"}
  BY <1>1, <1>6
<1>8. source.relinked => Len(partitions') <= Len(Lists(1)) + seen'
  BY <1>2, <1>3, <1>4, <1>5, <1>6
<1>9. ASSUME step' = "logical" => OnTheChain' \/ (source.relinked /\ Begun'),
             step' = "listed" => Ended'
      PROVE  TableInv'
  BY <1>1, <1>2, <1>7, <1>8, <1>9, SourceStays DEF TableInv
<1>10. CASE source.relinked /\ Begun
  <2>1. PICK rest \in Seq(AnyPartition) : partitions = UpToDamage \o rest
    BY <1>10 DEF Begun
  <2>2. \E longer \in Seq(AnyPartition) : partitions' = UpToDamage \o longer
    <3>1. CASE turn
      <4>1. rest \o more \in Seq(AnyPartition)
        BY <1>5, <2>1, <3>1
      <4>2. (UpToDamage \o rest) \o more = UpToDamage \o (rest \o more)
        <5>1. UpToDamage \in Seq(AnyPartition) /\ rest \in Seq(AnyPartition)
              /\ more \in Seq(AnyPartition)
          BY <1>3, <1>5, <2>1, <3>1
        <5>2. QED
          BY <5>1, Associates
      <4>3. QED
        BY <4>1, <4>2, <1>6, <2>1, <3>1
    <3>2. CASE ~turn
      BY <1>6, <2>1, <3>2
    <3>3. QED
      BY <3>1, <3>2
  <2>3. Begun'
    BY <1>1, <1>2, <2>2, EndedThen
  <2>4. QED
    BY <1>1, <1>9, <1>10, <2>3 DEF Ended
<1>11. CASE OnTheChain
  <2> DEFINE k == seen + 2
  <2>1. /\ k \in 2..Links /\ \A i \in 1 .. k - 1 : Kept(Place(i))
        /\ partitions = UpTo(k - 1) /\ ebr = Place(k) /\ base = Place(2)
    BY <1>2, <1>3, <1>11 DEF OnTheChain
  <2>2. seen < MaxHops /\ k \in 1..Links /\ Links # 1
    BY <1>2, <1>3, <2>1
  <2>3. UpTo(k) = UpTo(k - 1) \o Lists(k)
    <3>1. k - 1 \in 0 .. Links - 1 /\ (k - 1) + 1 = k
      BY <1>3, <2>1
    <3>2. UpTo((k - 1) + 1) = UpTo(k - 1) \o Lists((k - 1) + 1)
      BY <1>2, <3>1, UpToMore
    <3>3. QED
      BY <3>1, <3>2
  <2>4. CASE Kept(Place(k))
    <3>1. turn /\ At(ebr) = Written(k)
      BY <1>2, <2>1, <2>2, <2>4, KeptOrDamaged
    <3>2. /\ Lists(k) = Logical(Written(k).entries[1], Place(k))
          /\ k = Links => Written(k).entries[2].start = 0
          /\ k # Links => /\ Written(k).entries[2].start # 0
                          /\ Place(k + 1) # Place(k)
                          /\ Place(k + 1) = base + Written(k).entries[2].start
      BY <1>2, <2>1, <2>2, ChainFacts
    <3>3. partitions' = UpTo(k)
      BY <1>6, <2>1, <2>3, <3>1, <3>2 DEF more
    <3>4. \A i \in 1..k : Kept(Place(i))
      BY <2>1, <2>4
    <3>5. CASE k = Links
      <4>1. next = -1
        BY <3>1, <3>2, <3>5 DEF next, NextEbr
      <4>2. step' = "listed"
        BY <1>6, <3>1, <4>1
      <4>3. UpToDamage = UpTo(k)
        <5>1. k \in 0..Links /\ ~(k < Links)
          BY <1>3, <3>5, <2>2
        <5>2. QED
          BY <1>2, <3>4, <5>1, UpToDamageIs
      <4>4. Ended'
        BY <1>1, <1>2, <3>3, <4>3, EndedThen
      <4>5. QED
        BY <1>9, <4>2, <4>4
    <3>6. CASE k # Links
      <4>1. next = Place(k + 1)
        BY <2>1, <3>1, <3>2, <3>6 DEF next, NextEbr
      <4>2. k + 1 \in 1..Links /\ Place(k + 1) \in Nat
        <5>1. k + 1 \in 1..Links
          BY <1>3, <2>1, <3>6
        <5>2. QED
          BY <1>2, <5>1, ChainFacts
      <4>3. step' = "logical" /\ ebr' = Place(k + 1) /\ seen' = seen + 1
        BY <1>1, <1>6, <3>1, <4>1, <4>2
      <4>4. /\ seen' + 1 = k /\ seen' + 2 = k + 1 /\ seen' + 2 <= Links
        BY <1>2, <1>3, <4>2, <4>3
      <4>5. /\ \A i \in 1 .. seen' + 1 : Kept(Place(i))
            /\ partitions' = UpTo(seen' + 1) /\ ebr' = Place(seen' + 2)
            /\ base' = Place(2)
        BY <1>1, <2>1, <3>3, <3>4, <4>3, <4>4
      <4>6. OnTheChain'
        BY <1>1, <4>4, <4>5, SourceStays DEF OnTheChain
      <4>7. QED
        BY <1>9, <4>3, <4>6
    <3>7. QED
      BY <3>5, <3>6
  <2>5. CASE ~Kept(Place(k))
    <3>1. UpToDamage = partitions
      <4>1. k - 1 \in 0..Links /\ (k - 1) + 1 = k
        BY <1>3, <2>1
      <4>2. UpToDamage = UpTo(k - 1)
        BY <1>2, <2>1, <2>5, <4>1, UpToDamageIs
      <4>3. QED
        BY <2>1, <4>2
    <3>2. CASE turn
      <4>1. source.relinked
        BY <1>2, <2>1, <2>2, <2>5, <3>2, KeptOrDamaged
      <4>2. Begun'
        <5>1. more \in Seq(AnyPartition) /\ partitions' = UpToDamage \o more
          BY <1>5, <1>6, <3>1, <3>2
        <5>2. QED
          BY <1>1, <1>2, <5>1, EndedThen
      <4>3. QED
        BY <1>1, <1>9, <4>1, <4>2 DEF Ended
    <3>3. CASE ~turn
      <4>1. step' = "listed" /\ partitions' = UpToDamage
        BY <1>6, <3>1, <3>3
      <4>2. Ended'
        BY <1>1, <1>2, <4>1, EndedThen
      <4>3. QED
        BY <1>9, <4>1, <4>2
    <3>4. QED
      BY <3>2, <3>3
  <2>6. QED
    BY <2>4, <2>5
<1>12. QED
  BY <1>1, <1>10, <1>11 DEF TableInv

LEMMA ConcludeTable == TypeInv /\ TableInv /\ Conclude => TableInv'
<1> SUFFICES ASSUME TypeInv, TableInv, Conclude PROVE TableInv'
  OBVIOUS
<1>1. /\ UNCHANGED <<source, partitions, base, ebr, seen>>
      /\ step = "listed" /\ step' = "done"
      /\ scheme' = IF partitions = <<>> THEN "none" ELSE "mbr"
  BY DEF Conclude, walk
<1>2. Ended'
  BY <1>1, EndedStays DEF TableInv
<1>3. QED
  BY <1>1, <1>2, SourceStays DEF TableInv

LEMMA NextTable == TypeInv /\ TableInv /\ [Next]_vars => TableInv'
<1> SUFFICES ASSUME TypeInv, TableInv, [Next]_vars PROVE TableInv'
  OBVIOUS
<1>1. CASE ReadTable
  BY <1>1, HeaderTable, EntriesTable, MbrTable, WalkTable, ConcludeTable DEF ReadTable
<1>2. CASE UNCHANGED Frame
  BY <1>2, TableStays
<1>3. ASSUME NEW i \in DOMAIN partitions, OpenWindow(i) PROVE UNCHANGED Frame
  BY <1>3 DEF OpenWindow, walk, Frame
<1>4. CASE \E offset, n \in 0 .. Size + 1 : \E m \in 0..n : ReadWindow(offset, n, m)
  <2>1. UNCHANGED Frame
    BY <1>4 DEF ReadWindow, walk, Frame
  <2>2. QED
    BY <1>2, <2>1
<1>5. CASE UNCHANGED vars
  BY <1>2, <1>5 DEF vars, walk, Frame
<1>6. QED
  BY <1>1, <1>2, <1>3, <1>4, <1>5 DEF Next

LEMMA Listed == Spec => [](TypeInv /\ TableInv)
  BY InitTable, NextTable, Typed, PTL DEF Spec

\* A GPT that is as it was written gives its partitions, and one with any damage
\* none of them; the boot record then gives the primary partitions and those of
\* the chain, in its order, up to the first record that is damaged.
THEOREM TableRead == Spec => []TableExact
<1>1. TableInv => TableExact
  BY DEF TableInv, TableExact, Ended
<1>2. QED
  BY <1>1, Listed, PTL

\* Wherever a damaged link leads, even in a circle, what was listed before it
\* stays, and at most MaxHops partitions are listed behind the primary ones.
THEOREM LinkContained == Spec => []LinkCostsOnlyTheRest
<1>1. TypeInv /\ TableInv => LinkCostsOnlyTheRest
  <2> SUFFICES ASSUME TypeInv, TableInv, source.relinked
               PROVE  /\ step = "done" => IsPrefix(UpToDamage, partitions)
                      /\ Len(partitions) <= Len(source.chain[1].lists) + MaxHops
    BY DEF LinkCostsOnlyTheRest
  <2>1. /\ source \in Disks /\ seen \in 0..MaxHops /\ MaxHops \in Nat
        /\ partitions \in Seq(AnyPartition)
    BY PartitionAssumption DEF TypeInv, Progress
  <2>2. Lists(1) \in Seq(AnyPartition) /\ UpToDamage \in Seq(AnyPartition)
    <3>1. 1 \in 1..Links
      BY <2>1, ChainFacts
    <3>2. QED
      BY <2>1, <3>1, ListsType, UpToDamageType
  <2>3. Len(partitions) <= Len(Lists(1)) + MaxHops
    <3>1. Len(partitions) <= Len(Lists(1)) + seen
      BY DEF TableInv
    <3>2. QED
      BY <2>1, <2>2, <3>1
  <2>4. ASSUME step = "done" PROVE IsPrefix(UpToDamage, partitions)
    <3>1. PICK rest \in Seq(AnyPartition) : partitions = UpToDamage \o rest
      BY <2>4 DEF TableInv, Ended, Begun
    <3> DEFINE n == Len(UpToDamage)
    <3>2. /\ n \in Nat /\ Len(partitions) \in Nat /\ n <= Len(partitions)
          /\ \A i \in 1..n : partitions[i] = UpToDamage[i]
      BY <2>2, <3>1
    <3>3. SubSeq(UpToDamage, 1, n) = SubSeq(partitions, 1, n)
      BY <2>1, <2>2, <3>2
    <3>4. QED
      BY <3>2, <3>3 DEF IsPrefix
  <2>5. QED
    BY <2>3, <2>4 DEF Lists
<1>2. QED
  BY <1>1, Listed, PTL
=============================================================================
