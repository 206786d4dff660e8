---------------------------- MODULE VirtualDisk ----------------------------
(***************************************************************************)
(* The virtual disk sources of latent-source (vdisk/): opening a QCOW2,    *)
(* VMDK or VHDX container, and read_at, which walks the clusters of a      *)
(* range, looks each one up in the tables and copies it or fills in zeros. *)
(* The three read_at are the same loop, modelled once; open and locate are *)
(* not.  Reads keep no state between them, so one at a time stands for the *)
(* reads of all threads.                                                   *)
(***************************************************************************)
EXTENDS DiskImages

CONSTANTS ClusterSeqs,  \* the disks: sequences of clusters [kind, bytes]
          Tails,        \* how much shorter the virtual size may be
          Cuts,         \* how many cells the container may have lost
          Traits,       \* the traits of containers met
          Lengths       \* the lengths of the reads

\* A disk has a cluster at least, and the virtual size ends within the last one.
ASSUME DisksAssumption ==
    /\ \A clusters \in ClusterSeqs :
          /\ Len(clusters) \in Nat \ {0} /\ DOMAIN clusters = 1..Len(clusters)
          /\ \A k \in DOMAIN clusters : clusters[k].bytes \in [1..ClusterSize -> Int]
    /\ Tails \subseteq 0 .. ClusterSize - 1 /\ Cuts \cup Lengths \subseteq Nat

VARIABLES stored,    \* what was stored: the clusters, their flat bytes, and the
                     \* container as it was made
          image,     \* the container as it is
          phase,     \* "closed", "refused", "open" or "reading"
          request,   \* the read_at call: its offset and length
          buf,       \* the bytes it has filled in so far
          answer     \* of the last call: <<"data", bytes>> or <<"error">>

vars == <<stored, image, phase, request, buf, answer>>

NoRequest == [offset |-> 0, len |-> 0]

\* What is read is what was made of the clusters, without the cells it has lost.
Stores(clusters, format, tail, cut, trait) ==
    LET whole == Image(format, clusters, tail, trait)
    IN  /\ \A k \in DOMAIN clusters : clusters[k].kind \in KindsOf(format)
        /\ cut <= Len(whole.cells)
        /\ stored = [clusters |-> clusters, bytes |-> Flat(clusters, tail),
                     whole |-> whole]
        /\ image = [whole EXCEPT !.cells = SubSeq(@, 1, Len(@) - cut)]

Init ==
    /\ \E clusters \in ClusterSeqs, format \in Formats, tail \in Tails, cut \in Cuts :
       \E trait \in Traits \cap TraitsOf(format) :
          Stores(clusters, format, tail, cut, trait)
    /\ phase = "closed" /\ request = NoRequest /\ buf = <<>>
    /\ answer = <<"none">>
-----------------------------------------------------------------------------
(* open                                                                    *)

Cell(i) == image.cells[i + 1]
Present(i) == i < Len(image.cells)

Says(traits) == image.says \cap traits # {}

\* A unit of 0 stands for any cluster, grain or block size out of range.
QcowRefused == Says({"version 2", "parent", "encrypted", "snapshots"})

\* The parent of a VMDK image is named by its descriptor, a text in the image.
VmdkRefused == Says({"compressed", "no tables", "parent"})

\* The region table names the block allocation table and the metadata.
VhdxRefused == Says({"no tables", "no metadata", "parent"})

Accepts ==
    /\ Present(0) /\ image.unit # 0
    /\ ~ CASE image.format = "qcow2" -> QcowRefused
          [] image.format = "vmdk"  -> VmdkRefused
          [] image.format = "vhdx"  -> VhdxRefused

Open ==
    /\ phase = "closed" /\ Accepts
    /\ phase' = "open"
    /\ UNCHANGED <<stored, image, request, buf, answer>>

Refuse ==
    /\ phase = "closed" /\ ~Accepts
    /\ phase' = "refused" /\ answer' = <<"error">>
    /\ UNCHANGED <<stored, image, request, buf>>
-----------------------------------------------------------------------------
(* locate                                                                  *)

Hole == [kind |-> "hole"]
At(host) == [kind |-> "at", host |-> host]
Failure == [kind |-> "failure"]
HostOrHole(host) == IF host = 0 THEN Hole ELSE At(host)

\* QCOW2: flags other than "compressed" are masked out.
LocateCluster(cluster) ==
    LET l1_index == cluster \div TableEntries
        l1_at == image.top + l1_index
        l2_table == Cell(l1_at).host
        at == l2_table + (cluster % TableEntries)
    IN  IF l1_index >= image.top_size THEN Hole
        ELSE IF ~Present(l1_at)       THEN Failure
        ELSE IF l2_table = 0          THEN Hole
        ELSE IF ~Present(at) \/ "compressed" \in Cell(at).flags THEN Failure
        ELSE HostOrHole(Cell(at).host)

\* VMDK: the size of the grain directory is not known.
LocateGrain(grain) ==
    LET gde_at == image.top + (grain \div TableEntries)
        gt == Cell(gde_at).host
        gte_at == gt + (grain % TableEntries)
    IN  IF ~Present(gde_at)      THEN Failure
        ELSE IF gt = 0           THEN Hole
        ELSE IF ~Present(gte_at) THEN Failure
        ELSE HostOrHole(Cell(gte_at).host)

\* Mutant of LocateInBat: payload entries taken to be contiguous.
LocateInBat_Contiguous(block) ==
    LET at == image.top + block
    IN  IF ~Present(at)                               THEN Failure
        ELSE IF "fully present" \notin Cell(at).flags THEN Hole
        ELSE At(Cell(at).host)

\* VHDX: the sector bitmap entries are stepped over.
LocateInBat(block) ==
    LET at == image.top + block + (block \div ChunkRatio)
    IN  IF ~Present(at)                               THEN Failure
        ELSE IF "fully present" \notin Cell(at).flags THEN Hole
        ELSE At(Cell(at).host)

Locate(cluster) ==
    CASE image.format = "qcow2" -> LocateCluster(cluster)
      [] image.format = "vmdk"  -> LocateGrain(cluster)
      [] image.format = "vhdx"  -> LocateInBat(cluster)
-----------------------------------------------------------------------------
(* read_at                                                                 *)

Smaller(a, b) == IF a < b THEN a ELSE b
Wanted == Smaller(request.len, image.size - request.offset)

\* The part of the range that the next turn of the loop deals with.
Here == request.offset + Len(buf)
Within == Here % image.unit
\* Mutants of Take: not held to the cluster, not held to the rest of the range.
Take_PastCluster == Wanted - Len(buf)
Take_PastRange == image.unit - Within

Take == Smaller(image.unit - Within, Wanted - Len(buf))
Place == Locate(Here \div image.unit)

Filling == phase = "reading" /\ request.offset <= image.size
           /\ Len(buf) < Wanted

Answer(what) ==
    /\ answer' = what
    /\ phase' = "open" /\ request' = NoRequest /\ buf' = <<>>
    /\ UNCHANGED <<stored, image>>

ReadAt(offset, len) ==
    /\ phase = "open"
    /\ phase' = "reading" /\ request' = [offset |-> offset, len |-> len]
    /\ UNCHANGED <<stored, image, buf, answer>>

OutOfRange ==
    /\ phase = "reading" /\ request.offset > image.size
    /\ Answer(<<"error">>)

Copy ==
    /\ Filling /\ Place.kind = "at"
    /\ Present(Place.host + Within + Take - 1)
    /\ buf' = buf \o [i \in 1..Take |-> Cell(Place.host + Within + i - 1).byte]
    /\ UNCHANGED <<stored, image, phase, request, answer>>

FillZeros ==
    /\ Filling /\ Place.kind = "hole"
    /\ buf' = buf \o [i \in 1..Take |-> 0]
    /\ UNCHANGED <<stored, image, phase, request, answer>>

\* A table entry or a part of the cluster is past the end of the container, or
\* the cluster is compressed: what was filled in so far is given up.
Blocked ==
    \/ Place.kind = "failure"
    \/ Place.kind = "at" /\ ~Present(Place.host + Within + Take - 1)

ReadFails ==
    /\ Filling /\ Blocked
    /\ Answer(<<"error">>)

Return ==
    /\ phase = "reading" /\ request.offset <= image.size
    /\ Len(buf) >= Wanted
    /\ Answer(<<"data", buf>>)
-----------------------------------------------------------------------------
Reading == OutOfRange \/ Copy \/ FillZeros \/ ReadFails \/ Return

Next ==
    \/ Open \/ Refuse
    \/ \E offset \in 0 .. image.size + 1, len \in Lengths : ReadAt(offset, len)
    \/ Reading
    \/ phase = "refused" /\ UNCHANGED vars

\* read_at runs to its end once called.
Spec == Init /\ [][Next]_vars /\ WF_vars(Reading)
-----------------------------------------------------------------------------
(* Properties                                                              *)

\* The type invariant: a read in progress stays within the buffer, and each turn
\* of its loop has something to do.
TypeOK ==
    /\ phase \in {"closed", "refused", "open", "reading"}
    /\ request.offset \in Nat /\ request.len \in Nat
    /\ phase # "reading" => buf = <<>> /\ request = NoRequest
    /\ phase = "reading" /\ request.offset <= image.size =>
          Len(buf) <= Wanted /\ (Len(buf) < Wanted => Take > 0)
    /\ answer \in {<<"none">>, <<"error">>} \/ answer[1] = "data"

\* The container holds all of a disk that the reader supports.
Intact ==
    /\ image = stored.whole /\ image.says = {"none"}
    /\ \A k \in DOMAIN stored.clusters : stored.clusters[k].kind # "packed"

Guest == INSTANCE FlatDisk WITH
            disk <- [bytes |-> stored.bytes, intact |-> Intact],
            request <- IF phase = "reading" THEN {request} ELSE {}

\* Reading a container is reading the flat guest address space: unwritten regions
\* as zeros, every other byte from its own cluster, whatever clusters the range
\* crosses; a damaged container, or one that needs a parent or decompression,
\* fails the read rather than answer other bytes; every read is answered
\* (CHANGELOG.md:14, qcow2.rs:123-145, vmdk.rs:110-131, vhdx.rs:110-131).
ReadsTheGuestDisk == Guest!Spec

\* In a container that lost cells, the clusters whose tables and content are still
\* there can be read: the loss of others does not take them along.
SurvivorsReadable ==
    Filling =>
        LET cluster == stored.clusters[Here \div ClusterSize + 1]
            cells == stored.whole.cells
            needed == {i \in DOMAIN cells :
                          \/ cells[i].byte = EntryCell
                          \/ cluster.kind = "data"
                             /\ cells[i].byte \in ToSet(cluster.bytes)}
        IN  cluster.kind # "packed" /\ needed \subseteq DOMAIN image.cells
            => ~Blocked
=============================================================================
