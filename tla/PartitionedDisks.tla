-------------------------- MODULE PartitionedDisks --------------------------
(***************************************************************************)
(* Disks as partitioning tools leave them and as damage leaves those, and  *)
(* what reading their tables has to find.  The disks are external to the   *)
(* repository: laid out as its tests do (and sfdisk, in one of them).      *)
(*                                                                         *)
(* The sectors are numbered from 0.  Sector 0 is the boot record; an MBR's *)
(* chain has extended boot records in 3, 5, 7, each before its partition;  *)
(* a GPT has its header in 1 and its two entries in 2 and 3.               *)
(***************************************************************************)
EXTENDS PartitionTable, TLC

CONSTANTS
    MbrLayouts,  \* [slots, chain]: the entries of the boot record in order, and
                 \* for each extended boot record whether it has a partition
    GptLayouts   \* [slots, entries]: the same, and the entry array

Bottom == 9
Data(s) == [magic |-> "data", id |-> s]
Entry(kind, start, count) == [kind |-> kind, start |-> start, count |-> count]
Unused == Entry("empty", 0, 0)
BootRecord(slots) ==
    [magic |-> "boot",
     entries |-> [i \in 1..4 |-> IF i <= Len(slots) THEN slots[i] ELSE Unused]]

EbrAt(i) == 1 + 2 * i
Ebr(chain, i) ==
    BootRecord(<<IF chain[i] THEN Entry("linux", 1, 1) ELSE Unused,
                 IF i < Len(chain) THEN Entry("extended", 2 * i, 2) ELSE Unused>>)

\* What is on the disk, and what its table says: for a GPT the sectors it is in
\* and its partitions, for an MBR the records of its chain and what each lists.
MbrDisk(l) ==
    LET n == Len(l.chain) IN
    [sectors |-> [s \in 0..Bottom |->
        IF s = 0 THEN BootRecord(l.slots)
        ELSE IF \E i \in 1..n : s = EbrAt(i) THEN Ebr(l.chain, (s - 1) \div 2)
        ELSE Data(s)],
     gpt |-> {}, listed |-> <<>>,
     chain |-> <<[sector |-> 0, lists |-> Primaries(l.slots)]>>
               \o [i \in 1..n |->
                     [sector |-> EbrAt(i),
                      lists |-> IF l.chain[i]
                                THEN <<Partition("linux", EbrAt(i) + 1, 1)>>
                                ELSE <<>>]]]

GptDisk(l) ==
    LET entries == [i \in 1..2 |-> [magic |-> "entry"] @@ l.entries[i]]
        bare    == [magic |-> "gpt", size |-> "fits", entry_lba |-> 2, count |-> 2,
                    entry_size |-> 1, entries |-> entries]
        lists(e) == IF e.type # "unused" /\ e.first <= e.last /\ e.last <= Bottom
                    THEN <<Partition(e.type, e.first, e.last + 1 - e.first)>>
                    ELSE <<>>
    IN
    [sectors |-> [s \in 0..Bottom |->
        CASE s = 0 -> BootRecord(l.slots)
          [] s = 1 -> [sum |-> HeaderSum(bare)] @@ bare
          [] s \in {2, 3} -> entries[s - 1]
          [] OTHER -> Data(s)],
     gpt |-> 1..3,
     listed |-> FlattenSeq([i \in 1..2 |-> lists(entries[i])]),
     chain |-> <<[sector |-> 0, lists |-> Primaries(l.slots)]>>]

\* One sector with a field changed.
Altered(sector) ==
    IF sector.magic = "gpt"
    THEN {[sector EXCEPT !.count = 1], [sector EXCEPT !.count = MaxEntries + 1],
          [sector EXCEPT !.entry_lba = 3], [sector EXCEPT !.entry_size = 2],
          [sector EXCEPT !.size = "too large"], [sector EXCEPT !.entry_lba = MaxSector + 1]}
    ELSE IF sector.magic = "entry" THEN {[sector EXCEPT !.last = @ + 1]}
    ELSE {}

\* A record of the chain linked to any other, or to one that is none.
Relinked(d) ==
    {[d.sectors EXCEPT ![EbrAt(i)].entries[2].start = link] :
        i \in 1 .. Len(d.chain) - 1, link \in 0 .. Bottom + 1 - EbrAt(1)}

Damaged(d) ==
    LET Case(sectors, bad, relinked) ==
            [sectors |-> sectors, bad |-> bad, relinked |-> relinked,
             written |-> d.sectors, gpt |-> d.gpt, listed |-> d.listed,
             chain |-> d.chain]
    IN  {Case(d.sectors, bad, FALSE) : bad \in {{}} \cup {{s} : s \in 0..Bottom}}
        \cup {Case([s \in 0..n |-> d.sectors[s]], {}, FALSE) : n \in 0 .. Bottom - 1}
        \cup {Case(x, {}, TRUE) : x \in Relinked(d)}
        \cup UNION {{Case([d.sectors EXCEPT ![s] = x], {}, FALSE) :
                        x \in {Data(Bottom + 1)} \cup Altered(d.sectors[s])} :
                    s \in 0..Bottom}

AllDisks == (UNION {Damaged(MbrDisk(l)) : l \in MbrLayouts})
            \cup UNION {Damaged(GptDisk(l)) : l \in GptLayouts}
(***************************************************************************)
(* What a tool wrote, and what can become of it.  A disk d is a source     *)
(* with the sectors as they were written, those that its GPT is in, and    *)
(* what the table lists.                                                   *)
(***************************************************************************)

\* The boot record and the records of the chain, each linked to the next one.
ChainWritten(d) ==
    LET n     == Len(d.chain)
        at(i) == d.written[d.chain[i].sector]
        first == ExtendedBase(at(1).entries)
        \* From the start of the chain to the next record of it.
        link(i) == at(i).entries[2].start
    IN  /\ n \in 1 .. MaxHops + 1 /\ DOMAIN d.chain = 1..n
        /\ \A i \in 1..n : /\ d.chain[i].sector \in Nat /\ SectorType(at(i))
                          /\ at(i).magic = "boot"
        /\ d.chain[1].sector = 0 /\ d.chain[1].lists = Primaries(at(1).entries)
        /\ first = IF n = 1 THEN -1 ELSE d.chain[2].sector
        /\ \A i \in 2..n :
              /\ d.chain[i].lists = Logical(at(i).entries[1], d.chain[i].sector)
              /\ IF i = n THEN link(i) = 0
                 ELSE /\ link(i) # 0 /\ d.chain[i + 1].sector = first + link(i)
                      /\ d.chain[i + 1].sector # d.chain[i].sector

\* The header, and the entries where and as it says.
GptWritten(d) ==
    LET h     == d.written[1]
        at(i) == d.written[h.entry_lba + i]
        size  == h.count * h.entry_size
    IN  d.gpt # {} =>
            /\ SectorType(h) /\ GptHeader(h)
            /\ d.gpt = {1} \cup {h.entry_lba + i : i \in 0 .. size - 1}
            /\ h.entries = [i \in 1..size |-> at(i - 1)]
            /\ d.listed = FlattenSeq([i \in 1..h.count |->
                                         GptListed(at((i - 1) * h.entry_size))])

\* Damage makes no boot record and no GPT, and does not correct the checksum of
\* a header; only a link may be another one, behind a boot record that is there.
OnlyDamaged(d) ==
    /\ 1 \in DOMAIN d.sectors /\ d.gpt = {} => d.sectors[1].magic # "gpt"
    /\ d.relinked => d.gpt = {}
    /\ \A s \in DOMAIN d.sectors :
          LET now == d.sectors[s]
              was == d.written[s]
          IN  now # was =>
                 /\ IF d.relinked THEN s # 0
                    ELSE was.magic = "boot" => now.magic # "boot"
                 /\ s = 1 /\ d.gpt # {} /\ now.magic = "gpt" =>
                       now.sum = was.sum /\ HeaderSum(now) # HeaderSum(was)

ASSUME DisksAssumption ==
    \A d \in Disks : ChainWritten(d) /\ GptWritten(d) /\ OnlyDamaged(d)
-----------------------------------------------------------------------------
(* Properties                                                              *)

Kept(s) == Readable(s, 1) /\ At(s) = source.written[s]

\* What the records of the chain list, up to the first that is not as written.
UpToDamage ==
    LET lost == {i \in DOMAIN source.chain : ~Kept(source.chain[i].sector)}
        n    == IF lost = {} THEN Len(source.chain) ELSE Min(lost) - 1
    IN  FlattenSeq([i \in 1..n |-> source.chain[i].lists])

GptKept == source.gpt # {} /\ \A s \in source.gpt : Kept(s)

TypeOK ==
    /\ step \in {"gpt", "entries", "mbr", "logical", "listed", "done"}
    /\ scheme \in {"none", "mbr", "gpt"}
    /\ \A p \in ToSet(partitions) : p.start \in Nat /\ p.length \in Nat \ {0}
    /\ base \in Int /\ ebr \in Int /\ seen \in 0..MaxHops
    /\ window # None =>
          window.of \in ToSet(partitions) /\ window.of.start + window.length <= Size

\* A GPT whose header and entries are as they were written gives its partitions;
\* one with any damage gives none of them, and the boot record is believed, with
\* the primary partitions first and then those of the chain, in its order, up to
\* where it is damaged.  A source without either is one volume (partition.rs:58-76,
\* CHANGELOG.md:13).
TableExact ==
    step = "done" /\ ~source.relinked =>
        LET expected == IF GptKept THEN source.listed ELSE UpToDamage
        IN  /\ partitions = expected
            /\ scheme = IF GptKept THEN "gpt"
                        ELSE IF expected = <<>> THEN "none" ELSE "mbr"

\* Wherever a damaged link leads, what was listed before it stays, and the walk
\* takes at most MaxHops records, each listing one partition at most.
LinkCostsOnlyTheRest ==
    source.relinked =>
        /\ step = "done" => IsPrefix(UpToDamage, partitions)
        /\ Len(partitions) <= Len(source.chain[1].lists) + MaxHops

\* A chain that is a cycle does not keep the table from being read.
TableEndsUp == step = "gpt" ~> step = "done"

\* Reading through the window of a partition gives sectors of that partition and
\* none of another (a_partition_window_reads_only_its_bytes), wherever the disk
\* ends; and a read that succeeds and gives nothing, which callers take for the
\* end, is one for nothing or at the end of the window (window.rs:54-66).
WindowReadsItsPartition ==
    window # None /\ got # None =>
        /\ \A i \in DOMAIN got.sectors : got.at + i <= window.of.length
        /\ got.outcome = "read" /\ got.sectors = <<>> =>
              got.asked = 0 \/ got.at = window.length
=============================================================================
