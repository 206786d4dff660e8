-------------------------------- MODULE Evtx --------------------------------
(***************************************************************************)
(* The EVTX extractor of latent-carve: how a candidate chunk, event record *)
(* or file header is validated, and what is carved of it.                  *)
(*                                                                         *)
(* A window is a sequence of cells.  A cell is a structure's header (its   *)
(* fields are those of the cell) or a word; the last cell of a record is   *)
(* the word that repeats its size.  A checksum is what it was computed     *)
(* over: two of them are equal when the bytes are.                         *)
(***************************************************************************)
EXTENDS Integers, Sequences, FiniteSetsExt

CONSTANTS
    ChunkSize,         \* CHUNK_SIZE, also the largest structure
    MinRecord,         \* a record's header and its trailer
    MaxRecord,         \* EvtxConfig::max_record_size
    Align,             \* what a record's size is a multiple of
    MinTime, MaxTime   \* EvtxConfig's plausible timestamps

ASSUME EvtxAssumption ==
    /\ ChunkSize \in Nat \ {0} /\ Align \in Nat \ {0}
    /\ MinRecord \in Nat /\ MinRecord >= 2 /\ MaxRecord \in Nat
    /\ MinTime \in Int /\ MaxTime \in Int

Starts(magic, data) == data # <<>> /\ data[1].magic = magic

\* A cell read as a word: a header begins with its magic, which is no size.
Word(cell) == IF cell.magic = "none" THEN cell.word ELSE 1
-----------------------------------------------------------------------------
\* Everything in the header but its own checksum, and the cells from the header
\* to the free space.
HeaderSum(h) == <<h.free, h.records, h.first, h.last>>
RecordsSum(data, free) == SubSeq(data, 2, free)

\* Mutant of ValidChunk: the records are not compared with their checksum.
ValidChunkHeader(data) ==
    LET h == data[1]
    IN  /\ h.free \in 1..ChunkSize /\ h.header = HeaderSum(h)
        /\ h.free <= Len(data) /\ h.first <= h.last

ValidChunk(data) ==
    LET h == data[1]
    IN  /\ h.free \in 1..ChunkSize
        /\ h.header = HeaderSum(h)
        /\ h.free <= Len(data)
        /\ h.records = RecordsSum(data, h.free)
        /\ h.first <= h.last

ChunkLength(data) == Min({ChunkSize, Len(data)})
-----------------------------------------------------------------------------
\* Mutant of Framed: the size is believed without its copy at the end.
FramedByHead(data) ==
    LET size == data[1].size
    IN  /\ Starts("record", data)
        /\ size >= MinRecord /\ size % Align = 0 /\ size <= Len(data)

\* The record at the head of data says its size, within data, on both ends.
Framed(data) ==
    /\ Starts("record", data) /\ Len(data) >= MinRecord
    /\ LET size == data[1].size
       IN  /\ size >= MinRecord /\ size % Align = 0 /\ size <= Len(data)
           /\ Word(data[size]) = size

After(data) == SubSeq(data, data[1].size + 1, Len(data))

\* Mutant of ValidRecord: only a record followed by another is believed.
ValidRecordCorroborated(data) ==
    /\ Framed(data) /\ data[1].size <= MaxRecord
    /\ data[1].time >= MinTime /\ data[1].time <= MaxTime
    /\ Framed(After(data)) /\ After(data)[1].id > data[1].id

\* A record whose size and time are plausible, and whose identifier is below that
\* of the well-formed record that immediately follows, if one does.
ValidRecord(data) ==
    /\ Framed(data) /\ data[1].size <= MaxRecord
    /\ data[1].time >= MinTime /\ data[1].time <= MaxTime
    /\ Framed(After(data)) => After(data)[1].id > data[1].id
-----------------------------------------------------------------------------
FileSum(h) == <<h.first, h.last>>

ValidFileHeader(data) ==
    data[1].header = FileSum(data[1]) /\ data[1].first <= data[1].last
-----------------------------------------------------------------------------
Carved(offset, kind, data, size) ==
    [offset |-> offset, kind |-> kind, bytes |-> SubSeq(data, 1, size)]

Refused == [ok |-> FALSE, carved |-> <<>>]
If(valid, artefact) == IF valid THEN [ok |-> TRUE, carved |-> <<artefact>>]
                                ELSE Refused

\* The extractor looks at the magic that is there, not at the pattern of the hit.
ExtractEvtx(offset, data) ==
    IF Starts("chunk", data)
    THEN If(ValidChunk(data), Carved(offset, "chunk", data, ChunkLength(data)))
    ELSE IF Starts("file", data)
    THEN If(ValidFileHeader(data), Carved(offset, "file", data, 1))
    ELSE IF Starts("record", data)
    THEN If(ValidRecord(data), Carved(offset, "record", data, data[1].size))
    ELSE Refused

EvtxExtractor == [name |-> "evtx", window |-> ChunkSize,
                  signatures |-> << <<"chunk">>, <<"record">>, <<"file">> >>]
=============================================================================
