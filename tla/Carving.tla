------------------------------ MODULE Carving ------------------------------
(***************************************************************************)
(* The registry run over images of event logs with the EVTX extractor, on  *)
(* the hits the scan reports: what is recovered of what was written there. *)
(***************************************************************************)
EXTENDS Registry, EvtxImages

\* What is processed are images of event logs, with the EVTX extractor, or sources
\* without any, with extractors that carve neither chunks nor records.
ASSUME CarvingAssumption ==
    \A c \in Cases :
        LET Ahead(kind, offset) == SubSeq(c.bytes, offset + 1,
                                          offset + Reach(kind, c.bytes, offset))
        IN  \/ /\ c \in EvtxCases
               /\ \A offset \in 0 .. Len(c.bytes) - 1 :
                     Extract(EvtxExtractor, offset, Ahead(EvtxExtractor, offset))
                         = ExtractEvtx(offset, Ahead(EvtxExtractor, offset))
            \/ /\ c.written = {}
               /\ \A kind \in ToSet(c.kinds) :
                     \A offset \in 0..Len(c.bytes) \cup {h.offset : h \in c.strays} :
                        \A a \in ToSet(Extract(kind, offset,
                                               Ahead(kind, offset)).carved) :
                           a.kind \notin {"chunk", "record"}

\* What was carved, when all the hits are processed.
Artefacts(kind) ==
    {a \in UNION {ToSet(results[h]) : h \in DOMAIN results} : a.kind = kind}
Offsets(S) == {s.offset : s \in S}

Was(kind) == {s \in run.written : s.kind = kind}
Place(s) == s.offset + 1 .. s.offset + s.size
Body(s) == s.offset + 2 .. s.offset + s.size - 1

\* Every byte of structure s is in the source as it was written.
Intact(s) ==
    \A i \in Place(s) : i <= Len(run.bytes) /\ run.bytes[i] = run.pristine[i]

\* The lookahead of the structure can be read: the registry asks for as much as
\* the largest structure takes, whatever is there.
Legible(s) == run.bad \cap s.offset .. s.offset + ChunkSize - 1 = {}

\* The source has a well-formed record immediately behind s that does not have a
\* greater identifier: a stale one, or one whose identifier was damaged.
Contradicted(s) ==
    LET next == SubSeq(run.bytes, s.offset + s.size + 1,
                       Min({s.offset + ChunkSize, Len(run.bytes)}))
    IN  Framed(next) /\ next[1].id <= run.bytes[s.offset + 1].id
-----------------------------------------------------------------------------
\* A chunk is carved exactly when its header and all its records are as they were
\* written and can be read; damage to its free space, or the end of the source in
\* there, does not cost it (evtx/mod.rs:18-20, format.rs:82-86).
ChunksExact ==
    phase = "joined" =>
        Offsets(Artefacts("chunk")) =
            {s.offset : s \in {c \in Was("chunk") : Intact(c) /\ Legible(c)}}

\* Whatever became of the chunk around it, a record that is as it was written is
\* carved, whole and at its place, unless its lookahead cannot be read or what
\* follows contradicts its identifier.
RecordsSurvive ==
    phase = "joined" =>
        \A s \in Was("record") \cup Was("stale") :
            Intact(s) /\ Legible(s) /\ ~Contradicted(s) =>
                \E a \in Artefacts("record") :
                    a.offset = s.offset
                    /\ a.bytes = SubSeq(run.pristine, s.offset + 1,
                                        s.offset + s.size)

\* The body of a record holds what makes an artefact: the header it begins with,
\* or the word that repeats its size at its end.
Imitated(a) ==
    LET end == a.offset + Len(a.bytes)
    IN  \E s \in Was("record") \cup Was("stale") :
           \/ a.offset + 1 \in Body(s) /\ run.pristine[a.offset + 1].magic = "record"
           \/ end \in Body(s) /\ Word(run.pristine[end]) = Len(a.bytes)

\* Head and tail of a record agree, and nothing else is compared
\* (format.rs:187-188).  That is enough for one damaged cell: what is carved as a
\* record begins and ends where one was written, unless the body of a record says
\* otherwise.  By itself damage forges no record, it only makes one of what a
\* body holds.
NoForgedRecord ==
    \A a \in Artefacts("record") :
        \/ \E s \in Was("record") \cup Was("stale") :
               a.offset = s.offset /\ Len(a.bytes) = s.size
        \/ Imitated(a)

\* evtx/mod.rs:23-26 "the individual records inside a damaged chunk are still
\* recovered separately through the record signature, so a partly-corrupt chunk
\* is never discarded whole": a record as it was written, in a source that can be
\* read, is recovered by itself or with its chunk.
NoIntactRecordLost ==
    phase = "joined" =>
        \A s \in Was("record") :
            Intact(s) /\ run.bad = {} =>
                \E a \in Artefacts("record") \cup Artefacts("chunk") :
                    Place(s) \subseteq a.offset + 1 .. a.offset + Len(a.bytes)
=============================================================================
