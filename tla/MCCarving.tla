----------------------------- MODULE MCCarving -----------------------------
(* A finite instance of the registry: two toy extractors whose hits two      *)
(* threads process, and the EVTX extractor over damaged images.              *)
EXTENDS Carving

\* A toy extractor accepts a window that begins with its own magic and holds a
\* second byte; it emits one artefact per repetition of the magic there.
Toy(name, signatures, window) ==
    [name |-> name, signatures |-> signatures, window |-> window]

MCExtract(kind, offset, data) ==
    IF kind.name = "evtx" THEN ExtractEvtx(offset, data)
    ELSE LET copies == SelectSeq(data, LAMBDA byte : byte.magic = kind.name)
         IN  IF Len(data) >= 2 /\ Starts(kind.name, data)
             THEN [ok |-> TRUE,
                   carved |-> [i \in DOMAIN copies |->
                                  Carved(offset, "toy", data, i)]]
             ELSE Refused

ToyCase(kinds, magics, bad, strays) ==
    LET bytes == [i \in DOMAIN magics |-> [magic |-> magics[i]]]
    IN  [kinds |-> kinds, threads |-> 2, bytes |-> bytes, bad |-> bad,
         strays |-> strays, pristine |-> bytes, written |-> {}]

ToyC == Toy("c", << <<"c">> >>, 3)
ToyR == Toy("r", << <<"r">>, <<"r", "c">> >>, 2)
Stray == {[offset |-> 1, pattern |-> 3]}

ToyCases ==
    { ToyCase(<<ToyC>>, <<"c", "c">>, {}, Stray),
      ToyCase(<<ToyC, ToyR>>, <<"r", "c">>, {}, {}),
      ToyCase(<<ToyR, ToyC>>, <<"c", "r">>, {1}, Stray),
      ToyCase(<<>>, <<"c">>, {}, Stray) }

\* Cells before the first chunk: none, a record's header by chance, a file header.
Leads ==
    { <<>>,
      <<[magic |-> "record", size |-> 98, id |-> 2, time |-> 2]>>,
      <<[magic |-> "file", first |-> 1, last |-> 1, header |-> <<1, 1>>]>> }

\* A chunk of records of those bodies, and what is left of an older record.
Holding(bodies, stale, remains) ==
    [id |-> 5, sizes |-> [n \in DOMAIN bodies |-> Len(bodies[n]) + 2],
     bodies |-> bodies, stale |-> stale, remains |-> remains]

Full(sizes, stale) ==
    Holding([n \in DOMAIN sizes |-> Zeros(sizes[n] - 2)], stale,
            Zeros(IF stale = 0 THEN 0 ELSE stale - 2))

\* Bodies with a word that repeats what damage may make of a size, with a record
\* of their own, and with the header of one that ends where the body does not.
Words == <<None(2), None(0)>>
Inner == <<RecordHeader(2, 7), None(2)>>
Deceiving ==
    { Holding(<<Words>>, 2, <<>>), Holding(<< <<>>, Inner>>, 0, <<>>),
      Holding(<<Inner, <<>> >>, 0, <<>>), Holding(<< <<>> >>, 4, Words),
      Holding(<< <<None(0), None(0), None(4), None(0)>> >>, 0, <<>>),
      Holding(<< <<RecordHeader(4, 7), None(0), None(0), None(4)>> >>, 0, <<>>),
      Holding(<< <<None(0), RecordHeader(4, 7), None(2), None(0)>> >>, 0, <<>>) }

\* Records of one and two lines, in a chunk with no, little and more free space.
Contents ==
    { Full(<<2>>, 0), Full(<<2>>, 4), Full(<<4>>, 0),
      Full(<<4>>, 2), Full(<<2, 2>>, 0), Full(<<2, 2>>, 2), Full(<<2, 4>>, 0),
      Full(<<4, 2>>, 0), Full(<<2, 2, 2>>, 0) }

MCLayouts ==
    { [lead |-> <<>>, chunks |-> <<c>>] : c \in Contents \cup Deceiving }
    \cup { [lead |-> l, chunks |-> <<Full(<<2, 2>>, 2)>>] : l \in Leads }
    \cup { [lead |-> <<>>,
            chunks |-> <<c, [Full(<<2>>, 0) EXCEPT !.id = 8]>>] :
              c \in {Full(<<2, 2>>, 2), Full(<<2, 2, 2>>, 0)} }

MCCases == ToyCases \cup EvtxCases
=============================================================================
