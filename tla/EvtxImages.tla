----------------------------- MODULE EvtxImages -----------------------------
(***************************************************************************)
(* Disk images that hold parts of event logs, as Windows writes them and   *)
(* time damages them.  External to the repository: the layout is the one   *)
(* its test fixtures build.                                                *)
(*                                                                         *)
(* A layout is a lead-in, then chunks.  A chunk holds records of ascending *)
(* identifiers; behind its last one is free space, zeros or a record of an *)
(* earlier use of the chunk.  The body of a record is anything but the     *)
(* header of a chunk or a file: any words, and headers of records.  An     *)
(* image is a layout with one cell damaged, or one cell unreadable, or its *)
(* end missing.                                                            *)
(***************************************************************************)
EXTENDS Evtx, SequencesExt

CONSTANTS
    Layouts,     \* [lead, chunks]: the cells before, and per chunk
                 \* [id, sizes, bodies, stale, remains]: the first identifier,
                 \* the sizes and bodies of its records, and the size and body
                 \* of the stale one (0 for none)
    StaleId,     \* the identifier of a stale record
    GoodTime     \* the time stamp of every record

None(word) == [magic |-> "none", word |-> word]
Zeros(n) == [i \in 1..n |-> None(0)]

\* The cells records are made of.
Cell == [magic : {"record"}, size : Int, id : Int, time : Int]
        \cup [magic : {"none"}, word : Int]

RecordHeader(size, id) ==
    [magic |-> "record", size |-> size, id |-> id, time |-> GoodTime]

RecordCells(size, id, body) ==
    <<RecordHeader(size, id)>> \o body \o <<None(size)>>

\* The cells of the first n records of a chunk.
RecordsOf(c, n) ==
    FlattenSeq([i \in 1..n |->
                   RecordCells(c.sizes[i], c.id + i - 1, c.bodies[i])])

HeaderOf(c) ==
    LET n       == Len(c.sizes)
        records == RecordsOf(c, n)
        bare    == [free |-> 1 + Len(records), records |-> records,
                    first |-> c.id, last |-> c.id + n - 1]
    IN  [magic |-> "chunk", free |-> bare.free, records |-> records,
         first |-> bare.first, last |-> bare.last, header |-> HeaderSum(bare)]

Stale(c) ==
    IF c.stale > 0 THEN RecordCells(c.stale, StaleId, c.remains) ELSE <<>>

ChunkCells(c) ==
    LET used == <<HeaderOf(c)>> \o RecordsOf(c, Len(c.sizes)) \o Stale(c)
    IN  used \o Zeros(ChunkSize - Len(used))

ImageOf(l) == l.lead \o FlattenSeq([i \in DOMAIN l.chunks |->
                                       ChunkCells(l.chunks[i])])

RecordSizes == {n \in MinRecord..MaxRecord : n % Align = 0}

\* The lead-in has headers by chance, one of a record with a size that none has.
\* A chunk has a record, room for its records and the stale one, and a body for
\* each of them that fills it.
ASSUME LayoutsAssumption ==
    /\ GoodTime \in MinTime..MaxTime /\ StaleId \in Int
    /\ \A l \in Layouts :
          /\ l.lead \in Seq([magic : {"record"}, size : Int, id : Int, time : Int]
                            \cup [magic : {"file"}, first : Int, last : Int,
                                  header : Seq(Int)])
          /\ \A cell \in ToSet(l.lead) : cell.magic = "record" => cell.size > ChunkSize
          /\ l.chunks \in Seq([id : Int, sizes : Seq(RecordSizes) \ {<<>>},
                               bodies : Seq(Seq(Cell)),
                               stale : RecordSizes \cup {0}, remains : Seq(Cell)])
          /\ \A c \in ToSet(l.chunks) :
                /\ Len(c.bodies) = Len(c.sizes)
                /\ \A n \in DOMAIN c.sizes : Len(c.bodies[n]) = c.sizes[n] - 2
                /\ c.stale # 0 => Len(c.remains) = c.stale - 2
                /\ 1 + Len(RecordsOf(c, Len(c.sizes))) + c.stale <= ChunkSize

\* What was written there: chunks, whose used part is what counts, and records.
ChunkAt(l, i) == Len(l.lead) + (i - 1) * ChunkSize
RecordAt(l, i, n) == ChunkAt(l, i) + 1 + Len(RecordsOf(l.chunks[i], n - 1))

Structure(kind, offset, size) == [kind |-> kind, offset |-> offset, size |-> size]

WrittenIn(l, i) ==
    LET c     == l.chunks[i]
        stale == RecordAt(l, i, Len(c.sizes) + 1)
    IN  {Structure("chunk", ChunkAt(l, i), stale - ChunkAt(l, i))}
        \cup {Structure("record", RecordAt(l, i, n), c.sizes[n]) : n \in DOMAIN c.sizes}
        \cup {Structure("stale", stale, size) : size \in {c.stale} \ {0}}

Written(l) == UNION {WrittenIn(l, i) : i \in DOMAIN l.chunks}
-----------------------------------------------------------------------------
\* What one damaged sector may make of a cell: rubbish, or one field changed.
Altered(cell) ==
    {None(1)} \cup
    CASE cell.magic = "record" ->
            {[cell EXCEPT !.id = StaleId], [cell EXCEPT !.id = 99],
             [cell EXCEPT !.time = MaxTime + 1], [cell EXCEPT !.time = MinTime - 1]}
            \cup {[cell EXCEPT !.size = n] : n \in {0, 2, 3, 4, 6, MaxRecord + 1}}
      [] cell.magic = "chunk" ->
            {[cell EXCEPT !.free = n] : n \in {0, 3, ChunkSize + 1}}
            \cup {[cell EXCEPT !.first = 99]}
      [] cell.magic = "file" -> {[cell EXCEPT !.first = 99]}
      [] OTHER -> {None(4)}

EvtxCase(l, bytes, bad) ==
    [kinds |-> <<EvtxExtractor>>, threads |-> 1, strays |-> {},
     bytes |-> bytes, bad |-> bad,
     pristine |-> ImageOf(l), written |-> Written(l)]

Images(l) ==
    LET image == ImageOf(l)
    IN  {EvtxCase(l, SubSeq(image, 1, n), {}) : n \in 0 .. Len(image) - 1}
        \cup {EvtxCase(l, image, {i - 1}) : i \in DOMAIN image}
        \cup UNION {{EvtxCase(l, [image EXCEPT ![i] = cell], {}) :
                         cell \in {image[i]} \cup Altered(image[i])} : i \in DOMAIN image}

EvtxCases == UNION {Images(l) : l \in Layouts}
=============================================================================
