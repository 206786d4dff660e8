--------------------------- MODULE PartitionTable ---------------------------
(***************************************************************************)
(* How latent-source finds the partitions of a disk, and the sub-source    *)
(* through which one is read: a GUID partition table whose checksums hold, *)
(* else a master boot record and its chain of extended boot records, else  *)
(* nothing, and the source is one volume.                                  *)
(*                                                                         *)
(* The unit is the sector.  A sector is a record with a magic: "boot" (the *)
(* signature 55AA, with four entries), "gpt" (a header), "entry" (of the   *)
(* entry array) or "data".  A checksum is what it was computed over.       *)
(***************************************************************************)
EXTENDS Integers, Sequences, FiniteSets, SequencesExt, FiniteSetsExt

CONSTANTS
    Disks,       \* the sources to read, records with (at least) the sectors
                 \* of the source, from 0, and those that cannot be read
    MaxHops,     \* extended boot records followed at most (1024 in the code)
    MaxSector,   \* number of sectors whose bytes a u64 can count
    MaxEntry,    \* the largest entry of a GPT, in sectors (4096 bytes)
    MaxEntries   \* the largest number of them (4096)

\* The fields of a sector are read from its bytes as unsigned numbers.
SectorType(x) ==
    /\ x.magic = "boot" =>
          /\ DOMAIN x.entries = 1..4
          /\ \A i \in 1..4 : /\ x.entries[i].kind \in STRING
                             /\ {x.entries[i].start, x.entries[i].count} \subseteq Nat
    /\ x.magic = "gpt" => x.entry_lba \in Nat
    /\ x.magic = "entry" => x.type \in STRING /\ {x.first, x.last} \subseteq Nat

ASSUME PartitionAssumption ==
    /\ {MaxHops, MaxSector, MaxEntry, MaxEntries} \subseteq Nat \ {0}
    /\ \A d \in Disks :
          LET size == Cardinality(DOMAIN d.sectors) IN
          /\ size \in Nat /\ DOMAIN d.sectors = 0 .. size - 1
          /\ \A s \in DOMAIN d.sectors : SectorType(d.sectors[s])

VARIABLES
    source,      \* the source that is read
    step,        \* what read does next: "gpt", "entries", "mbr", "logical",
                 \* "listed", or "done"
    scheme,      \* PartitionTable::scheme
    partitions,  \* PartitionTable::partitions: [kind, start, length]
    base,        \* extended_base, None if there is no extended partition
    ebr, seen,   \* the walk of the logical partitions
    window,      \* the Window on a partition, None if none is open
    got          \* what a read through it returned.  Reads share no state, so
                 \* one of them stands for all

walk == <<base, ebr, seen>>
view == <<window, got>>
vars == <<source, step, scheme, partitions, walk, view>>

None == [kind |-> "none"]
Size == Cardinality(DOMAIN source.sectors)
Readable(first, count) ==
    \A s \in first .. first + count - 1 : s < Size /\ s \notin source.bad
At(s) == source.sectors[s]
Partition(kind, start, length) == [kind |-> kind, start |-> start, length |-> length]

Init ==
    /\ source \in Disks
    /\ step = "gpt" /\ scheme = "none" /\ partitions = <<>>
    /\ base = -1 /\ ebr = 0 /\ seen = 0
    /\ window = None /\ got = None
-----------------------------------------------------------------------------
(* read_gpt                                                                *)

HeaderSum(h) == <<h.size, h.entry_lba, h.count, h.entry_size, h.entries>>

\* The header is one, its size is within a sector, its checksum is right, and the
\* entry array it describes is neither absurd nor beyond what can be addressed.
GptHeader(h) ==
    /\ h.magic = "gpt" /\ h.size = "fits" /\ h.sum = HeaderSum(h)
    /\ h.entry_size \in 1..MaxEntry /\ h.count \in 1..MaxEntries
    /\ h.entry_lba <= MaxSector

\* Mutant of ArrayGood: the checksum of the array is not looked at.
ArrayReadable(h) == Readable(h.entry_lba, h.count * h.entry_size)

\* The entry array can be read and has the checksum the header gives.
ArrayGood(h) ==
    /\ Readable(h.entry_lba, h.count * h.entry_size)
    /\ h.entries = [i \in 1 .. h.count * h.entry_size |-> At(h.entry_lba + i - 1)]

\* An entry without a type is free; one that overflows is skipped.
Used(e) ==
    /\ e.magic = "entry" /\ e.type # "unused"
    /\ e.first <= MaxSector /\ e.first <= e.last
    /\ e.last - e.first + 1 <= MaxSector

GptListed(e) ==
    IF Used(e) THEN <<Partition(e.type, e.first, e.last - e.first + 1)>> ELSE <<>>

GptPartitions(h) ==
    FlattenSeq([i \in 1..h.count |->
                   GptListed(At(h.entry_lba + (i - 1) * h.entry_size))])

ReadGptHeader ==
    /\ step = "gpt"
    /\ step' = IF Readable(1, 1) /\ GptHeader(At(1)) THEN "entries" ELSE "mbr"
    /\ UNCHANGED <<source, scheme, partitions, walk, view>>

ReadGptEntries ==
    /\ step = "entries"
    /\ LET h == At(1)
       IN  IF ArrayGood(h)
           THEN /\ step' = "done" /\ scheme' = "gpt"
                /\ partitions' = GptPartitions(h)
           ELSE step' = "mbr" /\ UNCHANGED <<scheme, partitions>>
    /\ UNCHANGED <<source, walk, view>>
-----------------------------------------------------------------------------
(* read_mbr and read_logical                                               *)

Boot(s) == Readable(s, 1) /\ At(s).magic = "boot"

\* The kinds 0x00 and 0xEE (protective); 0x05, 0x0F and 0x85.
Ignored == {"empty", "protective"}
Extended == {"extended"}

Primary(e) ==
    IF e.kind \notin Ignored \cup Extended /\ e.count > 0
    THEN <<Partition(e.kind, e.start, e.count)>> ELSE <<>>

Primaries(entries) == FlattenSeq([i \in DOMAIN entries |-> Primary(entries[i])])

\* The last extended entry counts, whatever its length.
ExtendedBase(entries) ==
    LET S == {i \in DOMAIN entries : entries[i].kind \in Extended}
    IN  IF S = {} THEN -1 ELSE entries[Max(S)].start

ReadMbr ==
    /\ step = "mbr"
    /\ IF Boot(0)
       THEN /\ partitions' = Primaries(At(0).entries)
            /\ base' = ExtendedBase(At(0).entries) /\ ebr' = base'
            /\ step' = IF base' >= 0 THEN "logical" ELSE "listed"
       ELSE step' = "listed" /\ UNCHANGED <<partitions, base, ebr>>
    /\ UNCHANGED <<source, scheme, seen, view>>

\* Where the second entry of an extended boot record leads, -1 for nowhere: the
\* chain ends, or the record is linked to itself.
NextEbr(link) ==
    IF link = 0 \/ base + link = ebr THEN -1 ELSE base + link

\* The partition behind an extended boot record, whose first entry is e.
Logical(e, at) ==
    IF e.kind # "empty" /\ e.count # 0
    THEN <<Partition(e.kind, at + e.start, e.count)>> ELSE <<>>

\* Mutant of ReadLogical: the records followed are not counted.
ReadLogicalUncounted ==
    /\ step = "logical"
    /\ IF Boot(ebr)
       THEN LET next == NextEbr(At(ebr).entries[2].start)
            IN  /\ partitions' = partitions \o Logical(At(ebr).entries[1], ebr)
                /\ ebr' = IF next < 0 THEN ebr ELSE next
                /\ step' = IF next < 0 THEN "listed" ELSE step
       ELSE step' = "listed" /\ UNCHANGED <<partitions, ebr>>
    /\ seen' = 0
    /\ UNCHANGED <<source, scheme, base, view>>

\* One turn of the loop.
ReadLogical ==
    /\ step = "logical"
    /\ IF seen < MaxHops /\ Boot(ebr)
       THEN LET next == NextEbr(At(ebr).entries[2].start)
            IN  /\ seen' = seen + 1
                /\ partitions' = partitions \o Logical(At(ebr).entries[1], ebr)
                /\ ebr' = IF next < 0 THEN ebr ELSE next
                /\ step' = IF next < 0 THEN "listed" ELSE step
       ELSE step' = "listed" /\ UNCHANGED <<seen, partitions, ebr>>
    /\ UNCHANGED <<source, scheme, base, view>>

\* An empty list is no table: the whole source is one volume.
Conclude ==
    /\ step = "listed"
    /\ step' = "done"
    /\ scheme' = IF partitions = <<>> THEN "none" ELSE "mbr"
    /\ UNCHANGED <<source, partitions, walk, view>>
-----------------------------------------------------------------------------
(* Partition::window, Window::range and Window::read_at.  Opening the      *)
(* window of a partition that begins behind the end fails: no step.        *)

\* Mutant of WindowRange: the length is the partition's, wherever the disk ends.
WindowRangeUnclamped(p) == IF p.start > Size THEN None
                     ELSE [kind |-> "window", of |-> p, length |-> p.length]

WindowRange(p) ==
    IF p.start > Size THEN None
    ELSE [kind |-> "window", of |-> p, length |-> Min({p.length, Size - p.start})]

OpenWindow(i) ==
    /\ step = "done" /\ window = None
    /\ window' = WindowRange(partitions[i]) /\ window' # None
    /\ UNCHANGED <<source, step, scheme, partitions, walk, got>>

\* Mutant of Clamp: the buffer is not cut at the end of the window.
ClampNot(offset, n) == Min({n, Size - window.of.start - offset})

Clamp(offset, n) == Min({n, window.length - offset})

\* A read past the end is refused.  Of what is asked of it, the source below
\* delivers m sectors, at least one, or it fails; it is not asked for nothing.
ReadWindow(offset, n, m) ==
    /\ window # None /\ got = None
    /\ LET from == window.of.start + offset
           len  == Clamp(offset, n)
           Return(outcome, k) ==
               got' = [at |-> offset, asked |-> n, outcome |-> outcome,
                       sectors |-> [i \in 1..k |-> At(from + i - 1)]]
       IN  \/ offset > window.length /\ Return("out of range", 0)
           \/ /\ offset <= window.length /\ m <= len /\ Readable(from, m)
              /\ m = 0 => len = 0
              /\ Return("read", m)
           \/ /\ offset <= window.length /\ ~Readable(from, len)
              /\ Return("failed", 0)
    /\ UNCHANGED <<source, step, scheme, partitions, walk, window>>
-----------------------------------------------------------------------------
ReadTable ==
    \/ ReadGptHeader \/ ReadGptEntries
    \/ ReadMbr \/ ReadLogical \/ Conclude

Next ==
    \/ ReadTable
    \/ \E i \in DOMAIN partitions : OpenWindow(i)
    \/ \E offset, n \in 0 .. Size + 1 : \E m \in 0..n : ReadWindow(offset, n, m)

\* read runs to its end once it is called; nobody is obliged to open a window.
Spec == Init /\ [][Next]_vars /\ WF_vars(ReadTable)
=============================================================================
