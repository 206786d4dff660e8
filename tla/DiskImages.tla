----------------------------- MODULE DiskImages -----------------------------
(***************************************************************************)
(* Containers as qemu-img and the hypervisors lay them out: how a flat     *)
(* disk is stored in a QCOW2, VMDK or VHDX file.  One cell stands for one  *)
(* table entry or one byte; offsets count from 0.                          *)
(*                                                                         *)
(* A cluster (QCOW2), grain (VMDK) or block (VHDX) of a disk is of a kind: *)
(*   "hole"    never written, reads as zeros                               *)
(*   "data"    stored                                                      *)
(*   "zeroed"  marked as zeros, an old content still allocated to it       *)
(*   "packed"  stored in a compressed form                                 *)
(*   "backed"  only in the backing file or parent                          *)
(* A container may have a trait that a reader has to deal with, or refuse. *)
(***************************************************************************)
EXTENDS Integers, Sequences, SequencesExt, FiniteSets

CONSTANTS Formats,       \* the container formats met
          ClusterSize,   \* cells of a cluster
          TableEntries,  \* entries of a second level table
          ChunkRatio     \* VHDX: payload blocks per sector bitmap block

ASSUME GeometryAssumption ==
    /\ ClusterSize \in Nat \ {0} /\ TableEntries \in Nat \ {0}
    /\ ChunkRatio \in Nat \ {0}

ASSUME FormatsAssumption == Formats \subseteq {"qcow2", "vmdk", "vhdx"}

KindsOf(format) == {"hole", "data", "zeroed", "backed"} \cup
                   IF format = "vhdx" THEN {} ELSE {"packed"}

TraitsOf(format) ==
    CASE format = "qcow2" -> {"none", "encrypted", "snapshots", "version 2",
                              "bad unit"}
      [] format = "vmdk"  -> {"none", "no tables", "bad unit"}
      [] format = "vhdx"  -> {"none", "no tables", "no metadata", "bad unit"}

EntryCell == -1      \* what a table entry, or coded content, is as a byte
CodedCell == -2
Entry(host, flags) == [host |-> host, flags |-> flags, byte |-> EntryCell]
Byte(value) == [host |-> 0, flags |-> {}, byte |-> value]
Zeros == [i \in 1..ClusterSize |-> 0]

Stored(clusters) ==
    {k \in DOMAIN clusters : clusters[k].kind \in {"data", "zeroed", "packed"}}

\* The flat content, without the tail that the virtual size leaves out.
Flat(clusters, tail) ==
    LET all == FlattenSeq([k \in DOMAIN clusters |->
                  IF clusters[k].kind \in {"hole", "zeroed"} THEN Zeros
                                                    ELSE clusters[k].bytes])
    IN  SubSeq(all, 1, Len(all) - tail)

\* The data area begins at `base`; clusters are allocated from the last to the
\* first, as a guest may well write them.
HostOf(clusters, base, k) ==
    base + ClusterSize * Cardinality({j \in Stored(clusters) : j > k})

DataArea(clusters, coded) ==
    LET cells(k) == [i \in 1..ClusterSize |->
                        IF coded \/ clusters[k].kind = "packed"
                        THEN Byte(CodedCell) ELSE Byte(clusters[k].bytes[i])]
        held(k) == IF k \in Stored(clusters) THEN cells(k) ELSE <<>>
    IN  FlattenSeq([n \in 1..Len(clusters) |-> held(Len(clusters) + 1 - n)])

FlagsOf(format, kind) ==
    CASE format = "vhdx" /\ kind = "data" -> {"fully present"}
      [] format = "qcow2" /\ kind = "packed" -> {"compressed"}
      [] kind = "zeroed" -> {"zero"}
      [] OTHER -> {}

\* VMDK marks a grain as zeros by naming sector 1, and keeps nothing of it.
EntryOf(format, clusters, base, k) ==
    IF k \notin Stored(clusters) THEN Entry(0, {})
    ELSE IF format = "vmdk" /\ clusters[k].kind = "zeroed" THEN Entry(1, {})
    ELSE Entry(HostOf(clusters, base, k), FlagsOf(format, clusters[k].kind))

\* The tables of QCOW2 and VMDK: a top table, then the second level tables.  The
\* top entry of a table without a stored cluster is 0.
Tables(clusters) == (Len(clusters) + TableEntries - 1) \div TableEntries
Member(clusters, t, i) == (t - 1) * TableEntries + i

TwoLevels(format, clusters, coded) ==
    LET tables == Tables(clusters)
        base == 1 + tables + tables * TableEntries
        used(t) == \E i \in 1..TableEntries :
                       Member(clusters, t, i) \in Stored(clusters)
        top == [t \in 1..tables |->
                   Entry(IF used(t) THEN 1 + tables + (t - 1) * TableEntries
                                    ELSE 0, {})]
        table(t) == [i \in 1..TableEntries |->
                        EntryOf(format, clusters, base, Member(clusters, t, i))]
    IN  top \o FlattenSeq([t \in 1..tables |-> table(t)])
            \o DataArea(clusters, coded)

\* The block allocation table of VHDX: the payload blocks of a chunk, then the
\* entry of its sector bitmap.
BlockTable(clusters) ==
    LET size == Len(clusters) + (Len(clusters) \div ChunkRatio)
        entries(k) == <<EntryOf("vhdx", clusters, 1 + size, k)>> \o
                        IF k % ChunkRatio = 0 THEN <<Entry(0, {"bitmap"})>>
                                              ELSE <<>>
    IN  FlattenSeq([k \in DOMAIN clusters |-> entries(k)]) \o DataArea(clusters, FALSE)

\* A container: what its header and descriptor say, and its cells, of which cell 0
\* stands for the header.  A QCOW2 image need not have top entries for trailing
\* holes.
Image(format, clusters, tail, trait) ==
    LET kinds == {clusters[k].kind : k \in DOMAIN clusters}
        cells == <<Entry(0, {})>> \o
                 IF format = "vhdx" THEN BlockTable(clusters)
                 ELSE TwoLevels(format, clusters, trait = "encrypted")
    IN  [format |-> format,
         says |-> {trait}
                  \cup (IF "backed" \in kinds THEN {"parent"} ELSE {})
                  \cup (IF format = "vmdk" /\ "packed" \in kinds
                        THEN {"compressed"} ELSE {}),
         unit |-> IF trait = "bad unit" THEN 0 ELSE ClusterSize,
         top |-> 1,
         top_size |-> Cardinality({t \in 1..Tables(clusters) :
                         \E k \in Stored(clusters) :
                             k > (t - 1) * TableEntries}),
         size |-> ClusterSize * Len(clusters) - tail,
         cells |-> cells]
=============================================================================
