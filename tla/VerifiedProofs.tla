--------------------------- MODULE VerifiedProofs ---------------------------
(***************************************************************************)
(* What two hashes prove, for files of any length and content and however  *)
(* often other processes change them: what a run that ends well has        *)
(* processed is what was hashed, and what was expected.                    *)
(***************************************************************************)
EXTENDS VerifiedSource, SequenceTheorems, TLAPS

\* Piece i holds c, or did.
Held(i, c) == c = Piece(i) \/ c \in past[i]

\* What a digest says piece i holds.
Vouched(digest, i) ==
    IF i <= Len(digest.sha256) THEN digest.sha256[i] ELSE Absent

Unread == {"start", "sized", "opened", "hashing open"}
Verified == {"processing", "hashing close"}

\* What the processing read at i is what the open hash read there, or the piece
\* has changed since the hash.
Consistent(pair) ==
    /\ pair[1] <= handle.size
    /\ \/ pair[2] = Vouched(openHash, pair[1])
       \/ Vouched(openHash, pair[1]) \in past[pair[1]]

\* The inductive invariant.
RunInvariant ==
    /\ phase \in {"start", "sized", "opened", "processing"} => hashed = <<>>
    /\ ~reverted => \A i \in Pieces : Piece(i) \notin past[i]
    /\ phase \in Unread \/ outcome = "expected mismatch" => seen = {}
    /\ phase = "hashing open" =>
          \A i \in DOMAIN hashed : Held(i, hashed[i])
    /\ phase \in Verified =>
          /\ \A i \in 1 .. handle.size : Held(i, Vouched(openHash, i))
          /\ \A pair \in seen : Consistent(pair)
    /\ phase = "hashing close" /\ ~reverted =>
          \A i \in DOMAIN hashed : hashed[i] = Vouched(openHash, i) =>
              \A pair \in seen : pair[1] = i => pair[2] = hashed[i]
    /\ phase \in Verified \/ outcome = "unchanged" => expected \subseteq {openHash}

EvidenceInvariant == TypeOK /\ RunInvariant /\ ProcessedWhatWasHashed
-----------------------------------------------------------------------------
\* A file is a sequence of contents that is not too long.
LEMMA FilesAreSequences ==
    \A s : s \in Files <=> s \in Seq(Contents) /\ Len(s) <= MaxPieces
<1>1. ASSUME NEW s \in Files PROVE s \in Seq(Contents) /\ Len(s) <= MaxPieces
  <2>1. PICK n \in 0 .. MaxPieces : s \in [1 .. n -> Contents]
    BY DEF Files
  <2>2. n \in Nat /\ n <= MaxPieces
    BY <2>1, EvidenceAssumption
  <2>3. QED
    BY <2>1, <2>2
<1>2. ASSUME NEW s \in Seq(Contents), Len(s) <= MaxPieces PROVE s \in Files
  <2>1. Len(s) \in 0 .. MaxPieces /\ s \in [1 .. Len(s) -> Contents]
    BY <1>2, LenProperties, EvidenceAssumption
  <2>2. QED
    BY <2>1 DEF Files
<1>3. QED
  BY <1>1, <1>2

\* How long the file is.
LEMMA FileLength ==
    ASSUME NEW s \in Files
    PROVE  /\ s \in Seq(Contents) /\ Len(s) \in 0 .. MaxPieces
           /\ DOMAIN s = 1 .. Len(s) /\ 1 .. Len(s) \subseteq Pieces
<1>1. s \in Seq(Contents) /\ Len(s) <= MaxPieces
  BY FilesAreSequences
<1>2. Len(s) \in Nat /\ DOMAIN s = 1 .. Len(s)
  BY <1>1, LenProperties
<1>3. Len(s) \in 0 .. MaxPieces
  BY <1>1, <1>2, EvidenceAssumption
<1>4. 1 .. Len(s) \subseteq Pieces
  BY <1>3, EvidenceAssumption DEF Pieces
<1>5. QED
  BY <1>1, <1>2, <1>3, <1>4

\* The content of a piece is never the absent one.
LEMMA PieceType ==
    ASSUME TypeOK, NEW i \in Pieces
    PROVE  /\ i <= Len(evidence) => evidence[i] \in Contents /\ Piece(i) = evidence[i]
           /\ i > Len(evidence) => Piece(i) = Absent
           /\ Piece(i) \in Contents \cup {Absent}
<1>1. evidence \in Seq(Contents) /\ Len(evidence) \in Nat /\ i \in Nat /\ i >= 1
  <2>1. i \in Nat /\ i >= 1
    BY EvidenceAssumption DEF Pieces
  <2>2. QED
    BY <2>1, FilesAreSequences, LenProperties DEF TypeOK
<1>2. i <= Len(evidence) => evidence[i] \in Contents
  BY <1>1, ElementOfSeq
<1>3. QED
  BY <1>1, <1>2 DEF Piece

\* Another process changes the file: each piece that is different keeps what it
\* held among what it has held.
LEMMA EditKeepsHeld ==
    ASSUME TypeOK, Edit
    PROVE  /\ evidence' \in Files
           /\ past' \in [Pieces -> SUBSET (Contents \cup {Absent})]
           /\ edits' \in 0 .. MaxEdits /\ reverted' \in BOOLEAN
           /\ reverted => reverted'
           /\ \A i \in Pieces : past[i] \subseteq past'[i]
           /\ \A i \in Pieces : \A c : Held(i, c) => Held(i, c)'
           /\ ~reverted' /\ (\A i \in Pieces : Piece(i) \notin past[i]) =>
                  \A i \in Pieces : Piece(i)' \notin past'[i]
<1>1. PICK after \in Files : Become(after)
  <2>1. evidence \in Seq(Contents) /\ Len(evidence) \in Nat /\ Len(evidence) <= MaxPieces
    BY FilesAreSequences, LenProperties DEF TypeOK
  <2>2. ASSUME NEW i \in DOMAIN evidence, NEW c \in Contents
        PROVE  [evidence EXCEPT ![i] = c] \in Files
    BY <2>1, <2>2, FilesAreSequences, ExceptSeq, LenProperties
  <2>3. ASSUME NEW n \in 0 .. Len(evidence) - 1
        PROVE  SubSeq(evidence, 1, n) \in Files
    <3>1. n \in Nat /\ n <= Len(evidence) /\ n <= MaxPieces
      BY <2>1, EvidenceAssumption
    <3>2. \A i \in 1 .. n : evidence[i] \in Contents
      BY <2>1, <3>1, ElementOfSeq
    <3>3. SubSeq(evidence, 1, n) \in Seq(Contents) /\ Len(SubSeq(evidence, 1, n)) = n
      BY <3>1, <3>2, SubSeqProperties
    <3>4. QED
      BY <3>1, <3>3, FilesAreSequences
  <2>4. ASSUME NEW c \in Contents, Len(evidence) < MaxPieces
        PROVE  Append(evidence, c) \in Files
    <3>1. /\ Append(evidence, c) \in Seq(Contents)
          /\ Len(Append(evidence, c)) = Len(evidence) + 1
      BY <2>1, AppendProperties
    <3>2. Len(evidence) + 1 <= MaxPieces
      BY <2>1, <2>4, EvidenceAssumption
    <3>3. QED
      BY <3>1, <3>2, FilesAreSequences
  <2>5. QED
    BY <2>2, <2>3, <2>4 DEF Edit
<1>2. evidence' = after
  BY <1>1 DEF Become
<1>3. \A i \in Pieces : Piece(i)' = IF i <= Len(after) THEN after[i] ELSE Absent
  BY <1>2 DEF Piece
<1>4. \A i \in Pieces :
         past'[i] = IF Piece(i)' # Piece(i) THEN past[i] \cup {Piece(i)} ELSE past[i]
  BY <1>1, <1>3 DEF Become
<1>5. past' \in [Pieces -> SUBSET (Contents \cup {Absent})]
  <2>1. \A i \in Pieces : past'[i] \in SUBSET (Contents \cup {Absent})
    BY <1>4, PieceType DEF TypeOK
  <2>2. past' = [i \in Pieces |-> past'[i]]
    BY <1>1 DEF Become
  <2>3. QED
    BY <2>1, <2>2
<1>6. reverted' <=>
        (reverted \/ \E i \in Pieces : Piece(i)' # Piece(i) /\ Piece(i)' \in past[i])
  BY <1>1, <1>3 DEF Become
<1>7. reverted' \in BOOLEAN /\ (reverted => reverted')
  BY <1>1, <1>6 DEF TypeOK, Become
<1>8. edits' \in 0 .. MaxEdits
  <2>1. edits \in 0 .. MaxEdits /\ edits < MaxEdits /\ edits' = edits + 1
    BY DEF TypeOK, Edit
  <2>2. edits + 1 \in 0 .. MaxEdits
    BY <2>1, EvidenceAssumption
  <2>3. QED
    BY <2>1, <2>2
<1>9. ASSUME NEW i \in Pieces, NEW c, Held(i, c) PROVE Held(i, c)'
  BY <1>4, <1>9 DEF Held
<1>10. ASSUME ~reverted', \A i \in Pieces : Piece(i) \notin past[i], NEW i \in Pieces
       PROVE  Piece(i)' \notin past'[i]
  BY <1>4, <1>6, <1>10
<1>11. QED
  BY <1>1, <1>2, <1>4, <1>5, <1>7, <1>8, <1>9, <1>10
-----------------------------------------------------------------------------
LEMMA EvidenceStarts == Init => EvidenceInvariant
<1> SUFFICES ASSUME Init PROVE EvidenceInvariant
  OBVIOUS
<1>1. <<>> \in Files /\ <<>> \in Seq(Event) /\ Len(<<>>) = 0 /\ DOMAIN <<>> = {}
  <2>1. <<>> \in Seq(Contents) /\ <<>> \in Seq(Event) /\ Len(<<>>) = 0
    BY EmptySeq
  <2>2. 0 <= MaxPieces /\ DOMAIN <<>> = {}
    BY EvidenceAssumption
  <2>3. QED
    BY <2>1, <2>2, FilesAreSequences, Zenon
<1>2. Digest(<<>>) \in DigestType /\ \A f \in Files : Digest(f) \in DigestType
  BY <1>1 DEF Digest, DigestType
<1>3. expected \subseteq DigestType
  BY <1>2 DEF Init
<1>4. /\ evidence \in Files /\ hashed \in Files /\ seen = {} /\ trail \in Seq(Event)
      /\ openHash \in DigestType /\ phase = "start" /\ outcome = "pending"
      /\ past \in [Pieces -> SUBSET (Contents \cup {Absent})]
      /\ edits \in 0..MaxEdits /\ reverted \in BOOLEAN
      /\ hashed = <<>> /\ Len(hashed) = 0 /\ handle = NoHandle
      /\ \A i \in Pieces : past[i] = {}
  <2>1. 0 \in 0..MaxEdits
    BY EvidenceAssumption
  <2>2. past = [i \in Pieces |-> {}]
    BY DEF Init
  <2>3. QED
    BY <1>1, <1>2, <2>1, <2>2 DEF Init
<1>5. /\ handle \in [backing : {"none", "empty", "mapped", "positioned"},
                     size : 0..MaxPieces, length : 0..MaxPieces]
      /\ handle.size = 0
  BY <1>4, EvidenceAssumption DEF NoHandle
<1>6. TypeOK
  BY <1>3, <1>4, <1>5 DEF TypeOK
<1>7. RunInvariant
  BY <1>4 DEF RunInvariant, Unread, Verified, Init
<1>8. QED
  BY <1>4, <1>6, <1>7 DEF EvidenceInvariant, ProcessedWhatWasHashed

\* What other processes do to the file keeps the invariant.
LEMMA EditKeeps ==
    ASSUME EvidenceInvariant, Edit
    PROVE  EvidenceInvariant'
<1>1. /\ UNCHANGED <<expected, phase, handle, hashed, openHash, seen, trail, outcome>>
      /\ TypeOK /\ RunInvariant
  BY DEF Edit, EvidenceInvariant
<1>2. /\ evidence' \in Files
      /\ past' \in [Pieces -> SUBSET (Contents \cup {Absent})]
      /\ edits' \in 0 .. MaxEdits /\ reverted' \in BOOLEAN /\ (reverted => reverted')
      /\ \A i \in Pieces : past[i] \subseteq past'[i]
      /\ ~reverted' /\ (\A i \in Pieces : Piece(i) \notin past[i]) =>
             \A i \in Pieces : Piece(i)' \notin past'[i]
  BY <1>1, EditKeepsHeld
<1>3. \A i \in Pieces : \A c : Held(i, c) => Held(i, c)'
  BY <1>1, EditKeepsHeld
<1>4. TypeOK'
  BY <1>1, <1>2 DEF TypeOK
<1>5. /\ \A i : Vouched(openHash, i)' = Vouched(openHash, i)
      /\ handle.size \in 0 .. MaxPieces
      /\ \A pair \in seen : pair[1] \in Pieces
      /\ DOMAIN hashed \subseteq Pieces
  <2>1. DOMAIN hashed \subseteq Pieces
    BY <1>1, FileLength DEF TypeOK
  <2>2. QED
    BY <1>1, <2>1 DEF Vouched, TypeOK
<1>6. 1 .. handle.size \subseteq Pieces
  BY <1>5, EvidenceAssumption DEF Pieces
<1>7. ASSUME NEW pair \in seen, Consistent(pair) PROVE Consistent(pair)'
  BY <1>1, <1>2, <1>5, <1>7 DEF Consistent
<1>8. RunInvariant'
  <2>1. ~reverted' => \A i \in Pieces : (Piece(i) \notin past[i])'
    BY <1>1, <1>2 DEF RunInvariant
  <2>2. phase = "hashing open" => \A i \in DOMAIN hashed : Held(i, hashed[i])'
    BY <1>1, <1>3, <1>5 DEF RunInvariant
  <2>3. phase \in Verified =>
          /\ \A i \in 1 .. handle.size : Held(i, Vouched(openHash, i))'
          /\ \A pair \in seen : Consistent(pair)'
    BY <1>1, <1>3, <1>5, <1>6, <1>7 DEF RunInvariant
  <2>4. phase = "hashing close" /\ ~reverted' =>
          \A i \in DOMAIN hashed : hashed[i] = Vouched(openHash, i) =>
              \A pair \in seen : pair[1] = i => pair[2] = hashed[i]
    BY <1>1, <1>2 DEF RunInvariant
  <2>5. QED
    BY <1>1, <1>5, <2>1, <2>2, <2>3, <2>4 DEF RunInvariant
<1>9. ProcessedWhatWasHashed'
  BY <1>1, <1>2 DEF EvidenceInvariant, ProcessedWhatWasHashed
<1>10. QED
  BY <1>4, <1>8, <1>9 DEF EvidenceInvariant

\* A step that reads nothing: the run goes on to open, to recognise the format or
\* to hash for the second time, or it breaks off.
QuietStep ==
    \/ OpenFails \/ OpenFile \/ ChooseBacking \/ RecogniseRaw \/ RecogniseDies
    \/ HashDies \/ ReadFails \/ Abandon \/ Finish
    \/ \E i \in Pieces : ProcessDies(i)

\* So does a step that leaves the evidence and what was read of it alone.
LEMMA QuietKeeps ==
    ASSUME EvidenceInvariant, QuietStep
    PROVE  EvidenceInvariant'
<1>1. /\ TypeOK /\ RunInvariant /\ ProcessedWhatWasHashed
      /\ UNCHANGED <<evidence, past, edits, reverted, expected, hashed, openHash, seen>>
  BY DEF QuietStep, EvidenceInvariant, file, OpenFails, OpenFile, ChooseBacking,
         RecogniseRaw, RecogniseDies, HashDies, ReadFails, Abandon, Finish,
         ProcessDies
<1>2. /\ phase # "over" /\ outcome = "pending"
      /\ \/ phase' = "over" /\ outcome' \in Broken
         \/ outcome' = "pending" /\ <<phase, phase'>> \in
              {<<"start", "sized">>, <<"sized", "opened">>,
               <<"opened", "hashing open">>, <<"processing", "hashing close">>}
  BY <1>1 DEF QuietStep, OpenFails, OpenFile, ChooseBacking, RecogniseRaw,
         RecogniseDies, HashDies, ReadFails, Abandon, Finish, ProcessDies, Dies, End,
         Hashing, Broken, TypeOK
<1>3. trail' \in Seq(Event)
  <2>1. trail' = trail \/ trail' = Append(trail, <<"source_open">>)
    BY DEF QuietStep, OpenFails, OpenFile, ChooseBacking, RecogniseRaw,
         RecogniseDies, HashDies, ReadFails, Abandon, Finish, ProcessDies
  <2>2. <<"source_open">> \in Event
    BY DEF Event
  <2>3. Append(trail, <<"source_open">>) \in Seq(Event) /\ trail \in Seq(Event)
    BY <1>1, <2>2, AppendProperties DEF TypeOK
  <2>4. QED
    BY <2>1, <2>3
<1>4. /\ handle' \in [backing : {"none", "empty", "mapped", "positioned"},
                      size : 0..MaxPieces, length : 0..MaxPieces]
      /\ Len(hashed) <= handle'.size
      /\ phase \in Verified => handle' = handle
  <2>1. Len(evidence) \in 0 .. MaxPieces
    BY <1>1, FileLength DEF TypeOK
  <2>2. CASE OpenFile
    <3>1. handle' = [NoHandle EXCEPT !.size = Len(evidence)] /\ phase = "start"
      BY <2>2 DEF OpenFile
    <3>2. hashed = <<>> /\ Len(<<>>) = 0
      BY <1>1, <3>1 DEF RunInvariant
    <3>3. QED
      BY <2>1, <3>1, <3>2, EvidenceAssumption DEF NoHandle, Verified
  <2>3. CASE ChooseBacking
    <3>1. PICK backing \in {"empty", "mapped", "positioned"} :
             handle' = [handle EXCEPT !.backing = backing, !.length = Len(evidence)]
      BY <2>3 DEF ChooseBacking
    <3>2. phase = "sized"
      BY <2>3 DEF ChooseBacking
    <3>3. QED
      BY <1>1, <2>1, <3>1, <3>2 DEF TypeOK, Verified
  <2>4. CASE handle' = handle
    BY <1>1, <2>4 DEF TypeOK
  <2>5. QED
    BY <2>2, <2>3, <2>4 DEF QuietStep, OpenFails, RecogniseRaw,
         RecogniseDies, HashDies, ReadFails, Abandon, Finish, ProcessDies
<1>5. TypeOK'
  BY <1>1, <1>2, <1>3, <1>4 DEF TypeOK, Broken
<1>6. /\ \A i : Piece(i)' = Piece(i)
      /\ \A i : Vouched(openHash, i)' = Vouched(openHash, i)
  BY <1>1 DEF Piece, Vouched
<1>7. \A i : \A c : Held(i, c)' <=> Held(i, c)
  BY <1>1, <1>6 DEF Held
<1>8. phase \in Verified => \A pair \in seen : Consistent(pair)' <=> Consistent(pair)
  BY <1>1, <1>4, <1>6 DEF Consistent
<1>9. DOMAIN <<>> = {}
  OBVIOUS
<1>10. RunInvariant'
  <2>1. CASE phase' = "over" /\ outcome' \in Broken
    BY <1>1, <1>6, <2>1 DEF RunInvariant, Verified, Unread, Broken
  <2>2. CASE /\ outcome' = "pending"
             /\ <<phase, phase'>> \in {<<"start", "sized">>, <<"sized", "opened">>,
                                       <<"opened", "hashing open">>}
    BY <1>1, <1>6, <1>9, <2>2 DEF RunInvariant, Verified, Unread
  <2>3. CASE outcome' = "pending" /\ phase = "processing" /\ phase' = "hashing close"
    BY <1>1, <1>4, <1>6, <1>7, <1>8, <1>9, <2>3 DEF RunInvariant, Verified, Unread
  <2>4. QED
    BY <1>2, <2>1, <2>2, <2>3
<1>11. ProcessedWhatWasHashed'
  BY <1>2 DEF ProcessedWhatWasHashed, Broken
<1>12. QED
  BY <1>5, <1>10, <1>11 DEF EvidenceInvariant

\* A piece is hashed: what the hash says of it is what it holds, and at close a
\* piece that holds what the open hash says has never held anything else since.
LEMMA HashPieceKeeps ==
    ASSUME EvidenceInvariant, HashPiece
    PROVE  EvidenceInvariant'
<1> DEFINE n == Len(hashed) + 1
<1>1. /\ TypeOK /\ RunInvariant /\ ProcessedWhatWasHashed
      /\ UNCHANGED <<evidence, past, edits, reverted, expected, phase, handle,
                     openHash, seen, trail, outcome>>
      /\ phase \in {"hashing open", "hashing close"}
      /\ hashed' = Append(hashed, evidence[n])
      /\ n <= handle.size /\ n <= Len(evidence)
  BY DEF HashPiece, EvidenceInvariant, file, Hashing, Next1, Delivers
<1>2. /\ hashed \in Seq(Contents) /\ Len(hashed) \in 0 .. MaxPieces
      /\ DOMAIN hashed = 1 .. Len(hashed) /\ handle.size \in 0 .. MaxPieces
  BY <1>1, FileLength DEF TypeOK
<1>3. n \in Pieces /\ n \in Nat /\ n >= 1 /\ n <= MaxPieces
  <2>1. Len(hashed) \in Nat /\ handle.size \in Int /\ handle.size <= MaxPieces
    BY <1>2, EvidenceAssumption
  <2>2. n <= handle.size
    BY <1>1
  <2>3. n \in Nat /\ n >= 1
    BY <2>1
  <2>4. n <= MaxPieces
    <3> HIDE DEF n
    <3>1. QED
      BY <2>1, <2>2, <2>3, EvidenceAssumption
  <2>5. QED
    BY <2>3, <2>4, EvidenceAssumption DEF Pieces
<1>4. Piece(n) = evidence[n] /\ evidence[n] \in Contents
  BY <1>1, <1>3, PieceType
<1> HIDE DEF n
<1>5. PICK c : c = evidence[n]
  OBVIOUS
<1>6. /\ hashed' \in Seq(Contents) /\ Len(hashed') = n
      /\ DOMAIN hashed' = 1 .. n /\ hashed'[n] = c
      /\ \A i \in 1 .. Len(hashed) : hashed'[i] = hashed[i]
  <2>1. /\ Append(hashed, c) \in Seq(Contents)
        /\ Len(Append(hashed, c)) = Len(hashed) + 1
        /\ Append(hashed, c)[Len(hashed) + 1] = c
        /\ \A i \in 1 .. Len(hashed) : Append(hashed, c)[i] = hashed[i]
    BY <1>2, <1>4, <1>5, AppendProperties
  <2>2. hashed' = Append(hashed, c)
    BY <1>1, <1>5
  <2>3. DOMAIN Append(hashed, c) = 1 .. Len(Append(hashed, c))
    BY <2>1, LenProperties
  <2>4. QED
    BY <2>1, <2>2, <2>3 DEF n
<1>7. TypeOK'
  <2>1. hashed' \in Files
    BY <1>3, <1>6, FilesAreSequences
  <2>2. QED
    BY <1>1, <1>6, <2>1 DEF TypeOK
<1>8. /\ \A i : Piece(i)' = Piece(i) /\ Vouched(openHash, i)' = Vouched(openHash, i)
      /\ \A i, d : Held(i, d)' <=> Held(i, d)
      /\ \A pair \in seen : Consistent(pair)' <=> Consistent(pair)
  BY <1>1 DEF Piece, Vouched, Held, Consistent
<1>9. ASSUME NEW i \in DOMAIN hashed', i # n
      PROVE  i \in DOMAIN hashed /\ hashed'[i] = hashed[i]
  <2>1. i \in 1 .. n /\ i # n
    BY <1>6, <1>9
  <2>2. i \in 1 .. Len(hashed)
    BY <1>2, <2>1, EvidenceAssumption DEF n
  <2>3. QED
    BY <1>2, <1>6, <2>2
<1>10. ASSUME phase = "hashing open", NEW i \in DOMAIN hashed'
       PROVE  Held(i, hashed[i])'
  <2>1. CASE i = n
    <3>1. hashed'[i] = Piece(i)'
      BY <1>4, <1>5, <1>6, <1>8, <2>1
    <3>2. QED
      BY <3>1 DEF Held
  <2>2. CASE i # n
    <3>1. i \in DOMAIN hashed /\ hashed'[i] = hashed[i]
      BY <1>9, <1>10, <2>2
    <3>2. Held(i, hashed[i])
      BY <1>1, <1>10, <3>1 DEF RunInvariant
    <3>3. QED
      BY <1>1, <1>8, <3>1, <3>2 DEF Held
  <2>3. QED
    BY <2>1, <2>2
<1>11. ASSUME phase = "hashing close", ~reverted, NEW i \in DOMAIN hashed',
              hashed'[i] = Vouched(openHash, i),
              NEW pair \in seen, pair[1] = i
       PROVE  pair[2] = hashed'[i]
  <2>1. CASE i = n
    <3>1. Piece(n) \notin past[n]
      BY <1>1, <1>3, <1>11 DEF RunInvariant
    <3>2. Consistent(pair)
      BY <1>1, <1>11 DEF RunInvariant, Verified
    <3>3. QED
      BY <1>4, <1>5, <1>6, <1>11, <2>1, <3>1, <3>2 DEF Consistent
  <2>2. CASE i # n
    BY <1>1, <1>9, <1>11, <2>2 DEF RunInvariant
  <2>3. QED
    BY <2>1, <2>2
<1>12. RunInvariant'
  <2>1. phase = "hashing open" => \A i \in DOMAIN hashed' : Held(i, hashed[i])'
    BY <1>10
  <2>2. phase = "hashing close" /\ ~reverted =>
           \A i \in DOMAIN hashed' : hashed'[i] = Vouched(openHash, i) =>
               \A pair \in seen : pair[1] = i => pair[2] = hashed'[i]
    BY <1>11
  <2>3. ~reverted => \A i \in Pieces : (Piece(i) \notin past[i])'
    BY <1>1, <1>8 DEF RunInvariant
  <2>4. QED
    BY <1>1, <1>8, <2>1, <2>2, <2>3 DEF RunInvariant, Verified, Unread
<1>13. ProcessedWhatWasHashed'
  BY <1>1 DEF ProcessedWhatWasHashed
<1>14. QED
  BY <1>7, <1>12, <1>13 DEF EvidenceInvariant

\* The processing reads a piece: it has what the open hash says, or what the hash
\* says is in its past.
LEMMA ProcessPieceKeeps ==
    ASSUME EvidenceInvariant, NEW i \in Pieces, ProcessPiece(i)
    PROVE  EvidenceInvariant'
<1>1. /\ TypeOK /\ RunInvariant /\ ProcessedWhatWasHashed
      /\ UNCHANGED <<evidence, past, edits, reverted, expected, phase, handle,
                     hashed, openHash, trail, outcome>>
      /\ phase = "processing" /\ seen' = seen \cup {<<i, evidence[i]>>}
      /\ i <= handle.size /\ i <= Len(evidence)
  BY DEF ProcessPiece, EvidenceInvariant, file, Delivers
<1>2. Piece(i) = evidence[i] /\ evidence[i] \in Contents
  BY <1>1, PieceType
<1>3. TypeOK'
  BY <1>1, <1>2 DEF TypeOK
<1>4. i \in 1 .. handle.size
  <2>1. handle.size \in 0 .. MaxPieces
    BY <1>1 DEF TypeOK
  <2>2. QED
    BY <1>1, <2>1, EvidenceAssumption DEF Pieces
<1>5. Held(i, Vouched(openHash, i))
  BY <1>1, <1>4 DEF RunInvariant, Verified
<1>6. Consistent(<<i, evidence[i]>>)
  BY <1>1, <1>2, <1>5 DEF Consistent, Held
<1>7. /\ \A j : Piece(j)' = Piece(j) /\ Vouched(openHash, j)' = Vouched(openHash, j)
      /\ \A j, d : Held(j, d)' <=> Held(j, d)
      /\ \A pair : Consistent(pair)' <=> Consistent(pair)
  BY <1>1 DEF Piece, Vouched, Held, Consistent
<1>8. outcome = "pending"
  BY <1>1 DEF TypeOK
<1>9. RunInvariant'
  BY <1>1, <1>6, <1>7, <1>8 DEF RunInvariant, Verified, Unread
<1>10. ProcessedWhatWasHashed'
  BY <1>1, <1>8 DEF ProcessedWhatWasHashed
<1>11. QED
  BY <1>3, <1>9, <1>10 DEF EvidenceInvariant

\* Where a hash ends, nothing can be read any more, and nothing could be since.
LEMMA NothingAfterEnd ==
    ASSUME TypeOK, AtEnd(Next1), NEW i \in 1 .. handle.size, i > Len(hashed)
    PROVE  i \in Pieces /\ Piece(i) = Absent
<1>1. /\ Len(hashed) \in 0 .. MaxPieces /\ handle.size \in 0 .. MaxPieces
      /\ Len(evidence) \in 0 .. MaxPieces
  BY FileLength DEF TypeOK
<1>2. i \in Nat /\ i >= 1 /\ i <= handle.size /\ Len(hashed) \in Nat
  BY <1>1, EvidenceAssumption
<1>3. i \in Pieces
  BY <1>1, <1>2, EvidenceAssumption DEF Pieces
<1>4. Len(hashed) + 1 <= i
  BY <1>2
<1>5. Len(hashed) + 1 > Len(evidence)
  BY <1>1, <1>2, <1>4, EvidenceAssumption DEF AtEnd, Next1
<1>6. i > Len(evidence)
  BY <1>1, <1>2, <1>4, <1>5, EvidenceAssumption
<1>7. QED
  BY <1>3, <1>6, PieceType

\* The hash at open vouches for the content that each piece had when it was read.
LEMMA WrapKeeps ==
    ASSUME EvidenceInvariant, WrapEnds
    PROVE  EvidenceInvariant'
<1>1. /\ TypeOK /\ RunInvariant
      /\ UNCHANGED <<evidence, past, edits, reverted, expected, handle, seen>>
      /\ phase = "hashing open" /\ AtEnd(Next1)
      /\ openHash' = Digest(hashed) /\ hashed' = <<>>
      /\ trail' = Append(trail, <<"source_hash", "open", openHash'>>)
      /\ \/ expected \subseteq {openHash'} /\ phase' = "processing" /\ outcome' = outcome
         \/ phase' = "over" /\ outcome' = "expected mismatch"
  BY DEF WrapEnds, EvidenceInvariant, file, End
<1>2. outcome = "pending" /\ seen = {}
  BY <1>1 DEF TypeOK, RunInvariant, Unread
<1>3. openHash'.sha256 = hashed /\ openHash' \in DigestType
  BY <1>1 DEF Digest, DigestType, TypeOK
<1>4. /\ Len(hashed) \in 0 .. MaxPieces /\ DOMAIN hashed = 1 .. Len(hashed)
      /\ handle.size \in 0 .. MaxPieces
  BY <1>1, FileLength DEF TypeOK
<1>5. TypeOK'
  <2>1. <<"source_hash", "open", openHash'>> \in Event
    BY <1>3 DEF Event
  <2>2. trail' \in Seq(Event)
    BY <1>1, <2>1, AppendProperties DEF TypeOK
  <2>3. <<>> \in Files /\ Len(<<>>) <= handle.size
    <3>1. <<>> \in Seq(Contents) /\ Len(<<>>) = 0
      BY EmptySeq
    <3>2. 0 <= MaxPieces /\ 0 <= handle.size
      BY <1>4, EvidenceAssumption
    <3>3. QED
      BY <3>1, <3>2, FilesAreSequences
  <2>4. QED
    BY <1>1, <1>2, <1>3, <2>2, <2>3 DEF TypeOK
<1>6. ASSUME NEW i \in 1 .. handle.size PROVE Held(i, Vouched(openHash, i))'
  <2>1. i \in Nat /\ i >= 1
    BY <1>4, EvidenceAssumption
  <2>2. CASE i <= Len(hashed)
    <3>1. Vouched(openHash, i)' = hashed[i] /\ i \in DOMAIN hashed
      BY <1>3, <1>4, <2>1, <2>2, EvidenceAssumption DEF Vouched
    <3>2. Held(i, hashed[i])
      BY <1>1, <3>1 DEF RunInvariant
    <3>3. QED
      BY <1>1, <3>1, <3>2 DEF Held, Piece
  <2>3. CASE ~(i <= Len(hashed))
    <3>1. Vouched(openHash, i)' = Absent
      BY <1>3, <2>3 DEF Vouched
    <3>2. i > Len(hashed)
      BY <1>4, <2>1, <2>3, EvidenceAssumption
    <3>3. Piece(i) = Absent
      BY <1>1, <3>2, NothingAfterEnd
    <3>4. QED
      BY <1>1, <3>1, <3>3 DEF Held, Piece
  <2>4. QED
    BY <2>2, <2>3
<1>7. ~reverted => \A i \in Pieces : (Piece(i) \notin past[i])'
  BY <1>1 DEF RunInvariant, Piece
<1>8. RunInvariant'
  BY <1>1, <1>2, <1>6, <1>7 DEF RunInvariant, Verified, Unread
<1>9. ProcessedWhatWasHashed'
  BY <1>1, <1>2 DEF ProcessedWhatWasHashed
<1>10. QED
  BY <1>5, <1>8, <1>9 DEF EvidenceInvariant

\* The two digests are equal: then no piece that was processed has been anything
\* but what was hashed, unless a change was undone.
LEMMA FinishKeeps ==
    ASSUME EvidenceInvariant, FinishEnds
    PROVE  EvidenceInvariant'
<1>1. /\ TypeOK /\ RunInvariant
      /\ UNCHANGED <<evidence, past, edits, reverted, expected, handle, hashed,
                     openHash, seen>>
      /\ phase = "hashing close" /\ AtEnd(Next1)
      /\ trail' = trail \o << <<"source_hash", "close", Digest(hashed)>>,
                              <<"source_close">> >>
      /\ phase' = "over"
      /\ outcome' = IF Digest(hashed) = openHash THEN "unchanged" ELSE "source changed"
  BY DEF FinishEnds, EvidenceInvariant, file, End
<1>2. TypeOK'
  <2>1. Digest(hashed) \in DigestType
    BY <1>1 DEF Digest, DigestType, TypeOK
  <2>2. << <<"source_hash", "close", Digest(hashed)>>, <<"source_close">> >>
          \in Seq(Event)
    <3>1. /\ <<"source_hash", "close", Digest(hashed)>> \in Event
          /\ <<"source_close">> \in Event
      BY <2>1 DEF Event
    <3>2. QED
      BY <3>1
  <2>3. trail' \in Seq(Event)
    BY <1>1, <2>2, ConcatProperties DEF TypeOK
  <2>4. QED
    BY <1>1, <2>3 DEF TypeOK
<1>3. ~reverted => \A i \in Pieces : (Piece(i) \notin past[i])'
  BY <1>1 DEF RunInvariant, Piece
<1>4. RunInvariant'
  BY <1>1, <1>3 DEF RunInvariant, Verified, Unread
<1>5. ASSUME Digest(hashed) = openHash, ~reverted, NEW pair \in seen
      PROVE  pair[1] \in DOMAIN hashed /\ hashed[pair[1]] = pair[2]
  <2>1. PICK i \in Pieces, c \in Contents : pair = <<i, c>>
    <3>1. pair \in Pieces \X Contents
      BY <1>1 DEF TypeOK
    <3>2. QED
      BY <3>1
  <2>2. openHash.sha256 = hashed
    BY <1>5 DEF Digest
  <2>3. Consistent(pair) /\ pair[1] = i /\ pair[2] = c /\ i <= handle.size
    BY <1>1, <2>1 DEF RunInvariant, Verified, Consistent
  <2>4. /\ Len(hashed) \in 0 .. MaxPieces /\ DOMAIN hashed = 1 .. Len(hashed)
        /\ handle.size \in 0 .. MaxPieces
    BY <1>1, FileLength DEF TypeOK
  <2>5. i \in 1 .. handle.size /\ i \in Nat
    BY <2>3, <2>4, EvidenceAssumption DEF Pieces
  <2>6. CASE i <= Len(hashed)
    <3>1. i \in DOMAIN hashed
      BY <2>4, <2>5, <2>6, EvidenceAssumption
    <3>2. hashed[i] = Vouched(openHash, i)
      BY <2>2, <2>6 DEF Vouched
    <3>3. QED
      BY <1>1, <1>5, <2>3, <3>1, <3>2 DEF RunInvariant
  <2>7. CASE ~(i <= Len(hashed))
    <3>1. i > Len(hashed)
      BY <2>4, <2>5, <2>7, EvidenceAssumption
    <3>2. Piece(i) = Absent /\ Vouched(openHash, i) = Absent
      BY <1>1, <2>2, <2>5, <2>7, <3>1, NothingAfterEnd DEF Vouched
    <3>3. Piece(i) \notin past[i]
      BY <1>1, <1>5, <2>1 DEF RunInvariant
    <3>4. QED
      BY <2>1, <2>3, <3>2, <3>3, EvidenceAssumption DEF Consistent
  <2>8. QED
    BY <2>6, <2>7
<1>6. Digest(hashed) = openHash => openHash.sha256 = hashed
  BY DEF Digest
<1>7. ProcessedWhatWasHashed'
  BY <1>1, <1>5, <1>6 DEF ProcessedWhatWasHashed
<1>8. QED
  BY <1>2, <1>4, <1>7 DEF EvidenceInvariant
-----------------------------------------------------------------------------
LEMMA EvidenceSteps == EvidenceInvariant /\ [Next]_vars => EvidenceInvariant'
<1> SUFFICES ASSUME EvidenceInvariant, [Next]_vars PROVE EvidenceInvariant'
  OBVIOUS
<1>1. CASE Done \/ UNCHANGED vars
  <2>1. UNCHANGED vars
    BY <1>1 DEF Done
  <2>2. /\ TypeOK' /\ ProcessedWhatWasHashed'
        /\ \A i : Piece(i)' = Piece(i) /\ Vouched(openHash, i)' = Vouched(openHash, i)
        /\ \A i, d : Held(i, d)' <=> Held(i, d)
        /\ \A pair \in seen : Consistent(pair)' <=> Consistent(pair)
    BY <2>1 DEF vars, EvidenceInvariant, TypeOK, ProcessedWhatWasHashed, Piece,
           Vouched, Held, Consistent
  <2>3. QED
    BY <2>1, <2>2 DEF vars, EvidenceInvariant, RunInvariant
<1>2. ASSUME NEW i \in Pieces, ProcessPiece(i) \/ ProcessDies(i)
      PROVE  EvidenceInvariant'
  BY <1>2, ProcessPieceKeeps, QuietKeeps DEF QuietStep
<1>3. CASE Hash
  BY <1>3, HashPieceKeeps, WrapKeeps, FinishKeeps, QuietKeeps DEF Hash, QuietStep
<1>4. QED
  BY <1>1, <1>2, <1>3, EditKeeps, QuietKeeps DEF Next, QuietStep

\* The invariant holds in every state of a run.
THEOREM EvidenceCorrect == Spec => []EvidenceInvariant
<1>1. QED
  BY EvidenceStarts, EvidenceSteps, PTL DEF Spec

\* The state keeps its type, and the outcome is known exactly when the run is over
\* (integrity.rs:40-116).
THEOREM TypeCorrect == Spec => []TypeOK
<1>1. EvidenceInvariant => TypeOK
  BY DEF EvidenceInvariant
<1>2. QED
  BY <1>1, EvidenceCorrect, PTL

\* A run that ends well processed exactly what its open hash vouches for, unless a
\* change was undone (integrity.rs:103-115).
THEOREM WhatWasProcessedWasHashed == Spec => []ProcessedWhatWasHashed
<1>1. EvidenceInvariant => ProcessedWhatWasHashed
  BY DEF EvidenceInvariant
<1>2. QED
  BY <1>1, EvidenceCorrect, PTL

\* A source that is not the expected one is not used, and a run that ends well
\* processed the expected bytes (integrity.rs:79-87).
THEOREM WhatWasProcessedWasExpected == Spec => []ProcessedWhatWasExpected
<1>1. EvidenceInvariant => ProcessedWhatWasExpected
  <2> SUFFICES ASSUME EvidenceInvariant PROVE ProcessedWhatWasExpected
    OBVIOUS
  <2>1. outcome = "expected mismatch" => seen = {}
    BY DEF EvidenceInvariant, RunInvariant
  <2>2. outcome = "unchanged" => \A d \in expected : d = openHash
    BY DEF EvidenceInvariant, RunInvariant
  <2>3. QED
    BY <2>1, <2>2 DEF EvidenceInvariant, ProcessedWhatWasExpected, ProcessedWhatWasHashed
<1>2. QED
  BY <1>1, EvidenceCorrect, PTL
-----------------------------------------------------------------------------
(* The trail: how far the run is says which events are in it               *)

Opened == <<"source_open">>
Hashed(at, d) == <<"source_hash", at, d>>
SourceClose == <<"source_close">>

TrailInvariant ==
    /\ TypeOK
    /\ phase \in {"start", "sized", "opened"} => trail = <<>>
    /\ phase = "hashing open" => trail = <<Opened>>
    /\ phase \in Verified => trail = <<Opened, Hashed("open", openHash)>>
    /\ outcome = "expected mismatch" =>
          trail = <<Opened, Hashed("open", openHash)>> /\ expected # {openHash}
    /\ outcome \in {"unchanged", "source changed"} =>
          \E d : /\ trail = <<Opened, Hashed("open", openHash),
                              Hashed("close", d), SourceClose>>
                 /\ outcome = "unchanged" <=> d = openHash
    /\ outcome \in Broken =>
          trail \in {<<>>, <<Opened>>, <<Opened, Hashed("open", openHash)>>}

\* How a trail of no, one or two events goes on.
LEMMA TrailsGrow ==
    /\ \A e : Append(<<>>, e) = <<e>>
    /\ \A a, e : Append(<<a>>, e) = <<a, e>>
    /\ \A a, b, c, d : <<a, b>> \o <<c, d>> = <<a, b, c, d>>
<1>1. ASSUME NEW e PROVE Append(<<>>, e) = <<e>>
  <2>1. /\ Append(<<>>, e) \in Seq({e}) /\ Len(Append(<<>>, e)) = 1
        /\ Append(<<>>, e)[1] = e
    BY EmptySeq, AppendProperties
  <2>2. <<e>> \in Seq({e}) /\ Len(<<e>>) = 1 /\ <<e>>[1] = e
    OBVIOUS
  <2>3. QED
    BY <2>1, <2>2, SeqEqual
<1>2. ASSUME NEW a, NEW e PROVE Append(<<a>>, e) = <<a, e>>
  <2>1. /\ <<a>> \in Seq({a, e}) /\ Len(<<a>>) = 1 /\ <<a>>[1] = a
        /\ <<a, e>> \in Seq({a, e}) /\ Len(<<a, e>>) = 2
        /\ <<a, e>>[1] = a /\ <<a, e>>[2] = e
    OBVIOUS
  <2>2. /\ Append(<<a>>, e) \in Seq({a, e}) /\ Len(Append(<<a>>, e)) = 2
        /\ Append(<<a>>, e)[1] = a /\ Append(<<a>>, e)[2] = e
    BY <2>1, AppendProperties
  <2>3. \A i \in 1 .. 2 : Append(<<a>>, e)[i] = <<a, e>>[i]
    BY <2>1, <2>2
  <2>4. QED
    BY <2>1, <2>2, <2>3, SeqEqual
<1>3. ASSUME NEW a, NEW b, NEW c, NEW d
      PROVE  <<a, b>> \o <<c, d>> = <<a, b, c, d>>
  <2> DEFINE S == {a, b, c, d}
             l == <<a, b>>
             r == <<c, d>>
             all == <<a, b, c, d>>
  <2>1. /\ l \in Seq(S) /\ Len(l) = 2 /\ l[1] = a /\ l[2] = b
        /\ r \in Seq(S) /\ Len(r) = 2 /\ r[1] = c /\ r[2] = d
        /\ all \in Seq(S) /\ Len(all) = 4
        /\ all[1] = a /\ all[2] = b /\ all[3] = c /\ all[4] = d
    OBVIOUS
  <2> HIDE DEF S, l, r, all
  <2>2. /\ l \o r \in Seq(S) /\ Len(l \o r) = 4
        /\ \A i \in 1 .. 4 : (l \o r)[i] = IF i <= 2 THEN l[i] ELSE r[i - 2]
    <3>1. /\ l \o r \in Seq(S) /\ Len(l \o r) = Len(l) + Len(r)
          /\ \A i \in 1 .. Len(l) + Len(r) :
                (l \o r)[i] = IF i <= Len(l) THEN l[i] ELSE r[i - Len(l)]
      BY <2>1, ConcatProperties
    <3>2. Len(l) = 2 /\ Len(l) + Len(r) = 4
      BY <2>1
    <3>3. QED
      BY <3>1, <3>2
  <2>3. \A i \in 1 .. 4 : (l \o r)[i] = all[i]
    BY <2>1, <2>2
  <2>4. l \o r = all
    BY <2>1, <2>2, <2>3, SeqEqual
  <2>5. QED
    BY <2>4 DEF l, r, all
<1>4. QED
  BY <1>1, <1>2, <1>3

\* The digests in each trail a run can have.
LEMMA DigestsOfTrails ==
    /\ trail = <<>> \/ trail = <<Opened>> => \A at : DigestsAt(at) = {}
    /\ \A d : trail = <<Opened, Hashed("open", d)>> =>
                 DigestsAt("open") = {d} /\ DigestsAt("close") = {}
    /\ \A d, e : trail = <<Opened, Hashed("open", d), Hashed("close", e), SourceClose>> =>
                 DigestsAt("open") = {d} /\ DigestsAt("close") = {e}
<1>1. CASE trail = <<>>
  <2>1. DOMAIN trail = {}
    BY <1>1
  <2>2. QED
    BY <1>1, <2>1 DEF DigestsAt
<1>2. CASE trail = <<Opened>>
  <2>1. DOMAIN trail = {1} /\ trail[1][1] = "source_open"
    BY <1>2 DEF Opened
  <2>2. QED
    BY <1>2, <2>1 DEF DigestsAt
<1>3. ASSUME NEW d, trail = <<Opened, Hashed("open", d)>>
      PROVE  DigestsAt("open") = {d} /\ DigestsAt("close") = {}
  <2>1. /\ DOMAIN trail = {1, 2} /\ trail[1][1] = "source_open"
        /\ trail[2][1] = "source_hash" /\ trail[2][2] = "open" /\ trail[2][3] = d
    BY <1>3 DEF Opened, Hashed
  <2>2. QED
    BY <2>1 DEF DigestsAt
<1>4. ASSUME NEW d, NEW e,
             trail = <<Opened, Hashed("open", d), Hashed("close", e), SourceClose>>
      PROVE  DigestsAt("open") = {d} /\ DigestsAt("close") = {e}
  <2>1. /\ DOMAIN trail = {1, 2, 3, 4} /\ trail[1][1] = "source_open"
        /\ trail[2][1] = "source_hash" /\ trail[2][2] = "open" /\ trail[2][3] = d
        /\ trail[3][1] = "source_hash" /\ trail[3][2] = "close" /\ trail[3][3] = e
        /\ trail[4][1] = "source_close"
    BY <1>4 DEF Opened, Hashed, SourceClose
  <2>2. QED
    BY <2>1 DEF DigestsAt
<1>5. QED
  BY <1>1, <1>2, <1>3, <1>4

\* The trail is empty at first.
LEMMA TrailStarts == Init => TrailInvariant
<1>1. Init => TypeOK
  BY EvidenceStarts DEF EvidenceInvariant
<1>2. QED
  BY <1>1 DEF Init, TrailInvariant, Verified, Broken

\* Every step that writes to the trail is in its place.
LEMMA TrailSteps ==
    ASSUME TrailInvariant, TypeOK', [Next]_vars
    PROVE  TrailInvariant'
<1>1. CASE Done \/ UNCHANGED vars \/ Edit \/ HashPiece \/ \E i \in Pieces : ProcessPiece(i)
  <2>1. UNCHANGED <<phase, outcome, trail, openHash, expected>>
    BY <1>1 DEF Done, vars, Edit, HashPiece, ProcessPiece
  <2>2. QED
    BY <2>1 DEF TrailInvariant
<1>2. CASE QuietStep
  <2>1. UNCHANGED <<openHash, expected>> /\ phase # "over" /\ outcome = "pending"
    BY <1>2 DEF QuietStep, OpenFails, OpenFile, ChooseBacking, RecogniseRaw,
         RecogniseDies, HashDies, ReadFails, Abandon, Finish, ProcessDies, Hashing,
         TrailInvariant, TypeOK
  <2>2. \/ trail' = trail /\ phase' = "over" /\ outcome' \in Broken
        \/ trail' = trail /\ outcome' = "pending" /\ <<phase, phase'>> \in
              {<<"start", "sized">>, <<"sized", "opened">>,
               <<"processing", "hashing close">>}
        \/ /\ trail' = Append(trail, Opened) /\ outcome' = "pending"
           /\ phase = "opened" /\ phase' = "hashing open"
    BY <1>2, <2>1 DEF QuietStep, OpenFails, OpenFile, ChooseBacking, RecogniseRaw,
         RecogniseDies, HashDies, ReadFails, Abandon, Finish, ProcessDies, Dies, End,
         Broken, Opened
  <2>3. phase \in {"start", "sized", "opened", "hashing open"} \cup Verified
    BY <2>1 DEF TrailInvariant, TypeOK, Verified
  <2>4. CASE trail' = trail /\ phase' = "over" /\ outcome' \in Broken
    BY <2>1, <2>3, <2>4 DEF TrailInvariant, Verified, Broken
  <2>5. CASE trail' = trail /\ outcome' = "pending" /\ <<phase, phase'>> \in
              {<<"start", "sized">>, <<"sized", "opened">>,
               <<"processing", "hashing close">>}
    BY <2>1, <2>5 DEF TrailInvariant, Verified, Broken
  <2>6. CASE /\ trail' = Append(trail, Opened) /\ outcome' = "pending"
             /\ phase = "opened" /\ phase' = "hashing open"
    <3>1. trail' = <<Opened>>
      BY <2>6, TrailsGrow DEF TrailInvariant
    <3>2. QED
      BY <2>6, <3>1 DEF TrailInvariant, Verified, Broken
  <2>7. QED
    BY <2>2, <2>4, <2>5, <2>6
<1>3. CASE WrapEnds
  <2>1. /\ phase = "hashing open" /\ trail = <<Opened>> /\ outcome = "pending"
        /\ trail' = Append(trail, Hashed("open", openHash')) /\ expected' = expected
        /\ \/ phase' = "processing" /\ outcome' = "pending"
           \/ /\ phase' = "over" /\ outcome' = "expected mismatch"
              /\ ~(expected \subseteq {openHash'})
    BY <1>3 DEF WrapEnds, TrailInvariant, TypeOK, Hashed, End
  <2>2. trail' = <<Opened, Hashed("open", openHash')>>
    BY <2>1, TrailsGrow, Zenon
  <2>3. QED
    BY <2>1, <2>2 DEF TrailInvariant, Verified, Broken
<1>4. CASE FinishEnds
  <2>1. PICK d : d = Digest(hashed)
    OBVIOUS
  <2>2. /\ trail = <<Opened, Hashed("open", openHash)>> /\ openHash' = openHash
        /\ trail' = trail \o <<Hashed("close", d), SourceClose>>
        /\ phase' = "over"
        /\ outcome' = IF d = openHash THEN "unchanged" ELSE "source changed"
    BY <1>4, <2>1 DEF FinishEnds, TrailInvariant, Hashed, SourceClose, End, Verified
  <2>3. trail' = <<Opened, Hashed("open", openHash), Hashed("close", d), SourceClose>>
    BY <2>2, TrailsGrow, Zenon
  <2>4. QED
    BY <2>2, <2>3 DEF TrailInvariant, Verified, Broken
<1>5. QED
  BY <1>1, <1>2, <1>3, <1>4 DEF Next, Hash, QuietStep

\* The trail tells the verdict: it has a close digest exactly when the run came to
\* compare the two, and the digests it has are the ones compared
\* (integrity.rs:71-77, 103-114).
THEOREM TrailIsTheVerdict == Spec => []TrailTellsTheVerdict
<1>1. TrailInvariant /\ TypeOK' /\ [Next]_vars => TrailInvariant'
  BY TrailSteps
<1>2. TrailInvariant => TrailTellsTheVerdict
  <2> SUFFICES ASSUME TrailInvariant PROVE TrailTellsTheVerdict
    OBVIOUS
  <2>1. CASE outcome = "pending"
    <3>1. phase \in {"start", "sized", "opened", "hashing open"} \cup Verified
      BY <2>1 DEF TrailInvariant, TypeOK, Verified
    <3>2. DigestsAt("close") = {}
      BY <3>1, DigestsOfTrails DEF TrailInvariant
    <3>3. QED
      BY <2>1, <3>2 DEF TrailTellsTheVerdict, Broken
  <2>2. CASE outcome = "expected mismatch"
    <3>1. /\ DigestsAt("open") = {openHash} /\ DigestsAt("close") = {}
          /\ expected # {openHash}
      BY <2>2, DigestsOfTrails DEF TrailInvariant
    <3>2. QED
      BY <2>2, <3>1 DEF TrailTellsTheVerdict, Broken
  <2>3. CASE outcome \in {"unchanged", "source changed"}
    <3>1. PICK d :
             /\ trail = <<Opened, Hashed("open", openHash), Hashed("close", d),
                         SourceClose>>
             /\ outcome = "unchanged" <=> d = openHash
      BY <2>3 DEF TrailInvariant
    <3>2. DigestsAt("open") = {openHash} /\ DigestsAt("close") = {d}
      BY <3>1, DigestsOfTrails
    <3>3. DigestsAt("open") \X DigestsAt("close") = {<<openHash, d>>}
      BY <3>2
    <3>4. /\ outcome = "unchanged" <=>
                \E p \in DigestsAt("open") \X DigestsAt("close") : p[1] = p[2]
          /\ outcome = "source changed" <=>
                \E p \in DigestsAt("open") \X DigestsAt("close") : p[1] # p[2]
      <4>1. (\E p \in {<<openHash, d>>} : p[1] = p[2]) <=> openHash = d
        OBVIOUS
      <4>2. (\E p \in {<<openHash, d>>} : p[1] # p[2]) <=> openHash # d
        OBVIOUS
      <4>3. /\ (outcome = "unchanged" <=> openHash = d)
            /\ (outcome = "source changed" <=> openHash # d)
        BY <2>3, <3>1
      <4>4. QED
        BY <3>3, <4>1, <4>2, <4>3
    <3>5. QED
      BY <2>3, <3>4 DEF TrailTellsTheVerdict, Broken
  <2>4. CASE outcome \in Broken
    <3>1. DigestsAt("close") = {}
      BY <2>4, DigestsOfTrails DEF TrailInvariant
    <3>2. QED
      BY <2>4, <3>1 DEF TrailTellsTheVerdict, Broken
  <2>5. QED
    BY <2>1, <2>2, <2>3, <2>4 DEF TrailInvariant, TypeOK
<1>3. QED
  BY <1>1, <1>2, TrailStarts, TypeCorrect, PTL DEF Spec
-----------------------------------------------------------------------------
(* What another process adds behind the size found at open changes nothing *)

\* Nothing within the size found at open was lost.
Kept == \A i \in 1 .. handle.size : ~Lost(i)

Alarms == {"source changed", "panicked", "killed by SIGBUS"}

\* As long as that is so, the file covers that size and so does the map, what was
\* hashed is what is there, and there is no alarm.
GrowthInvariant ==
    Kept =>
      /\ handle.size <= Len(evidence)
      /\ phase # "sized" => handle.size <= handle.length
      /\ \A i \in 1..Len(hashed) : hashed[i] = evidence[i]
      /\ phase \in Verified =>
            /\ Len(openHash.sha256) = handle.size
            /\ \A i \in 1 .. handle.size : openHash.sha256[i] = evidence[i]
      /\ outcome \notin Alarms

LEMMA GrowthStarts == Init => GrowthInvariant
<1> SUFFICES ASSUME Init PROVE GrowthInvariant
  OBVIOUS
<1>1. /\ handle.size = 0 /\ handle.length = 0 /\ hashed = <<>> /\ phase = "start"
      /\ outcome = "pending"
  BY DEF Init, NoHandle
<1>2. Len(evidence) \in 0..MaxPieces
  BY FileLength DEF Init
<1>3. Len(hashed) = 0 /\ 0 <= Len(evidence)
  BY <1>1, <1>2, EvidenceAssumption
<1>4. QED
  BY <1>1, <1>3 DEF GrowthInvariant, Verified, Alarms

\* What the lengths are.
LEMMA LengthsAre ==
    ASSUME TypeOK
    PROVE  /\ handle.size \in Nat /\ handle.size <= MaxPieces /\ handle.length \in Nat
           /\ Len(evidence) \in Nat /\ Len(hashed) \in Nat /\ Len(hashed) <= handle.size
           /\ Len(evidence) <= MaxPieces /\ 1 .. handle.size \subseteq Pieces
<1>1. /\ handle.size \in 0..MaxPieces /\ handle.length \in 0..MaxPieces
      /\ Len(hashed) <= handle.size
  BY DEF TypeOK
<1>2. Len(evidence) \in 0..MaxPieces /\ Len(hashed) \in 0..MaxPieces
  BY FileLength DEF TypeOK
<1>3. MaxPieces \in Nat
  BY EvidenceAssumption
<1>4. QED
  BY <1>1, <1>2, <1>3 DEF Pieces

\* An edit that loses nothing within that size leaves what is there alone.
LEMMA EditGrows ==
    ASSUME TypeOK, TypeOK', GrowthInvariant, Edit
    PROVE  GrowthInvariant'
<1> SUFFICES ASSUME Kept'
             PROVE  GrowthInvariant'
  BY DEF GrowthInvariant
<1>1. UNCHANGED <<phase, handle, hashed, openHash, outcome>>
  BY DEF Edit
<1>2. \A i \in Pieces : past[i] \subseteq past'[i]
  BY EditKeepsHeld
<1>3. /\ handle.size \in Nat /\ Len(evidence) \in Nat /\ Len(evidence)' \in Nat
      /\ Len(hashed) \in Nat /\ Len(hashed) <= handle.size
      /\ 1 .. handle.size \subseteq Pieces
  BY LengthsAre
<1>4. ASSUME NEW i \in 1 .. handle.size PROVE ~Lost(i) /\ ~Lost(i)'
  BY <1>1, <1>2, <1>3, <1>4 DEF Kept, Lost
<1>5. Kept
  BY <1>4 DEF Kept
<1>6. /\ handle.size <= Len(evidence)
      /\ phase # "sized" => handle.size <= handle.length
      /\ \A i \in 1..Len(hashed) : hashed[i] = evidence[i]
      /\ phase \in Verified =>
            /\ Len(openHash.sha256) = handle.size
            /\ \A i \in 1 .. handle.size : openHash.sha256[i] = evidence[i]
      /\ outcome \notin Alarms
  BY <1>5 DEF GrowthInvariant
<1>7. ASSUME NEW i \in 1 .. handle.size
      PROVE  i <= Len(evidence)' /\ evidence'[i] = evidence[i]
  <2>1. i \in Pieces /\ i \in Nat /\ i <= Len(evidence)
    BY <1>3, <1>6
  <2>2. evidence[i] \in Contents /\ Piece(i) = evidence[i]
    BY <2>1, PieceType
  <2>3. PICK c : c = evidence[i]
    OBVIOUS
  <2>4. c \in Contents /\ Held(i, c)
    BY <2>2, <2>3 DEF Held
  <2>5. Held(i, c)'
    BY <2>1, <2>4, EditKeepsHeld
  <2>6. c \notin past'[i]
    BY <2>4, <1>4 DEF Lost
  <2>7. Piece(i)' = c
    BY <2>5, <2>6 DEF Held
  <2>8. c # Absent
    BY <2>4, EvidenceAssumption
  <2>9. QED
    BY <2>3, <2>7, <2>8 DEF Piece
<1>8. handle.size <= Len(evidence)'
  <2>1. CASE handle.size = 0
    BY <2>1, <1>3
  <2>2. CASE handle.size # 0
    <3>1. handle.size \in 1 .. handle.size
      BY <2>2, <1>3
    <3>2. QED
      BY <3>1, <1>7
  <2>3. QED
    BY <2>1, <2>2
<1>9. \A i \in 1..Len(hashed) : hashed[i] = evidence'[i]
  <2>1. \A i \in 1..Len(hashed) : i \in 1 .. handle.size
    BY <1>3
  <2>2. QED
    BY <2>1, <1>6, <1>7
<1>10. phase \in Verified => \A i \in 1 .. handle.size : openHash.sha256[i] = evidence'[i]
  BY <1>6, <1>7
<1>11. QED
  BY <1>1, <1>6, <1>8, <1>9, <1>10 DEF GrowthInvariant

\* A step that neither reads a piece into the hash nor ends it; a read within that
\* size finds the file there, and the map.
LEMMA QuietGrows ==
    ASSUME TypeOK, GrowthInvariant, QuietStep, ~OpenFile
    PROVE  GrowthInvariant'
<1>1. /\ UNCHANGED <<evidence, past, hashed, openHash>> /\ handle'.size = handle.size
      /\ \/ ChooseBacking
         \/ phase # "sized" /\ handle' = handle
  <2>1. CASE ChooseBacking
    BY <2>1 DEF ChooseBacking, file, TypeOK
  <2>2. CASE ~ChooseBacking
    BY <2>2 DEF QuietStep, file, OpenFails, RecogniseRaw, RecogniseDies, HashDies,
         ReadFails, Abandon, Finish, ProcessDies, Hashing
  <2>3. QED
    BY <2>1, <2>2
<1> SUFFICES ASSUME Kept'
             PROVE  GrowthInvariant'
  BY DEF GrowthInvariant
<1>2. /\ handle.size \in Nat /\ Len(evidence) \in Nat /\ Len(hashed) \in Nat
      /\ handle.length \in Nat
  BY LengthsAre
<1>3. /\ handle.size <= Len(evidence)
      /\ phase # "sized" => handle.size <= handle.length
      /\ \A i \in 1..Len(hashed) : hashed[i] = evidence[i]
      /\ phase \in Verified =>
            /\ Len(openHash.sha256) = handle.size
            /\ \A i \in 1 .. handle.size : openHash.sha256[i] = evidence[i]
      /\ outcome \notin Alarms
  BY <1>1 DEF GrowthInvariant, Kept, Lost
<1>4. handle'.size <= handle'.length
  <2>1. CASE ChooseBacking
    <3>1. handle'.length = Len(evidence)
      BY <2>1 DEF ChooseBacking, TypeOK
    <3>2. QED
      BY <3>1, <1>1, <1>3
  <2>2. QED
    BY <2>1, <1>1, <1>3
<1>5. phase' \in Verified => phase \in Verified
  BY DEF QuietStep, OpenFails, OpenFile, ChooseBacking, RecogniseRaw, RecogniseDies,
         HashDies, ReadFails, Abandon, Finish, ProcessDies, Dies, End, Verified
<1>6. ASSUME NEW i \in Nat, phase # "sized" PROVE ~Panics(i) /\ ~Faults(i)
  BY <1>2, <1>3, <1>6 DEF Panics, Faults
<1>7. 1 \in Nat /\ Next1 \in Nat /\ Pieces \subseteq Nat
  BY <1>2 DEF Next1, Pieces
<1>8. phase # "sized" => ~Dies(1) /\ ~Dies(Next1) /\ \A i \in Pieces : ~Dies(i)
  BY <1>6, <1>7 DEF Dies
<1>9. outcome' \notin Alarms
  <2>1. ~RecogniseDies /\ ~HashDies /\ \A i \in Pieces : ~ProcessDies(i)
    BY <1>8 DEF RecogniseDies, HashDies, ProcessDies, Hashing
  <2>2. outcome' = outcome \/ outcome' \in {"source error", "not read-only", "abandoned"}
    BY <2>1 DEF QuietStep, OpenFails, OpenFile, ChooseBacking, RecogniseRaw, ReadFails,
           Abandon, Finish, End
  <2>3. QED
    BY <2>2, <1>3 DEF Alarms
<1>10. QED
  BY <1>1, <1>3, <1>4, <1>5, <1>9 DEF GrowthInvariant

\* A piece that is hashed is what is there.
LEMMA HashPieceGrows ==
    ASSUME TypeOK, GrowthInvariant, HashPiece
    PROVE  GrowthInvariant'
<1>1. /\ UNCHANGED <<evidence, past, phase, handle, openHash, outcome>>
      /\ hashed' = Append(hashed, evidence[Len(hashed) + 1])
      /\ Len(hashed) + 1 <= Len(evidence)
  BY DEF HashPiece, file, Delivers, Next1
<1> SUFFICES ASSUME Kept'
             PROVE  GrowthInvariant'
  BY DEF GrowthInvariant
<1>2. Kept
  BY <1>1 DEF Kept, Lost
<1>3. \A i \in 1..Len(hashed) : hashed[i] = evidence[i]
  BY <1>2 DEF GrowthInvariant
<1>4. hashed \in Seq(Contents) /\ Len(hashed) \in Nat
  BY FileLength, LengthsAre DEF TypeOK
<1>5. evidence[Len(hashed) + 1] \in Contents
  <2>1. evidence \in Seq(Contents) /\ Len(evidence) \in Nat
    BY FileLength, LengthsAre DEF TypeOK
  <2>2. QED
    BY <2>1, <1>1, <1>4, ElementOfSeq
<1>6. /\ Len(hashed') = Len(hashed) + 1
      /\ \A i \in 1..Len(hashed) : hashed'[i] = hashed[i]
      /\ hashed'[Len(hashed) + 1] = evidence[Len(hashed) + 1]
  BY <1>1, <1>4, <1>5, AppendProperties
<1>7. \A i \in 1..Len(hashed') : hashed'[i] = evidence[i]
  <2>1. \A i \in 1..Len(hashed') : i \in 1..Len(hashed) \/ i = Len(hashed) + 1
    BY <1>4, <1>6
  <2>2. QED
    BY <2>1, <1>3, <1>6
<1>8. QED
  BY <1>1, <1>2, <1>7 DEF GrowthInvariant

\* A hash ends at the size found at open, and both read the same.
LEMMA HashEndGrows ==
    ASSUME TypeOK, GrowthInvariant, WrapEnds \/ FinishEnds
    PROVE  GrowthInvariant'
<1>1. UNCHANGED <<evidence, past, handle>> /\ AtEnd(Next1) /\ phase # "sized"
  BY DEF WrapEnds, FinishEnds, file
<1> SUFFICES ASSUME Kept'
             PROVE  GrowthInvariant'
  BY DEF GrowthInvariant
<1>2. Kept
  BY <1>1 DEF Kept, Lost
<1>3. /\ handle.size <= Len(evidence) /\ handle.size <= handle.length
      /\ \A i \in 1..Len(hashed) : hashed[i] = evidence[i]
      /\ phase \in Verified =>
            /\ Len(openHash.sha256) = handle.size
            /\ \A i \in 1 .. handle.size : openHash.sha256[i] = evidence[i]
      /\ outcome \notin Alarms
  BY <1>1, <1>2 DEF GrowthInvariant
<1>4. Len(hashed) = handle.size
  <2>1. /\ handle.size \in Nat /\ Len(evidence) \in Nat /\ Len(hashed) \in Nat
        /\ Len(hashed) <= handle.size
    BY LengthsAre
  <2>2. Len(hashed) + 1 > handle.size
    BY <2>1, <1>1, <1>3 DEF AtEnd, Next1
  <2>3. QED
    BY <2>1, <2>2
<1>5. CASE WrapEnds
  <2>1. /\ openHash' = Digest(hashed) /\ hashed' = <<>>
        /\ outcome' = outcome \/ outcome' = "expected mismatch"
        /\ phase' # "sized"
    BY <1>5 DEF WrapEnds, End
  <2>2. openHash'.sha256 = hashed /\ Len(hashed') = 0
    BY <2>1 DEF Digest
  <2>3. outcome' \notin Alarms
    BY <2>1, <1>3 DEF Alarms
  <2>4. \A i \in 1..Len(hashed') : hashed'[i] = evidence[i]
    BY <2>2
  <2>5. QED
    BY <2>2, <2>3, <2>4, <1>1, <1>3, <1>4 DEF GrowthInvariant
<1>6. CASE FinishEnds
  <2>1. /\ phase = "hashing close" /\ UNCHANGED <<hashed, openHash>> /\ phase' = "over"
        /\ outcome' = IF Digest(hashed) = openHash THEN "unchanged" ELSE "source changed"
    BY <1>6 DEF FinishEnds, End
  <2>2. PICK d \in Files : openHash = Digest(d)
    BY DEF TypeOK, DigestType, Digest
  <2>3. openHash.sha256 = d
    BY <2>2 DEF Digest
  <2>4. Len(d) = Len(hashed) /\ \A i \in 1..Len(hashed) : d[i] = hashed[i]
    BY <2>1, <2>3, <1>3, <1>4 DEF Verified
  <2>5. d \in Seq(Contents) /\ hashed \in Seq(Contents)
    BY FileLength DEF TypeOK
  <2>6. d = hashed
    BY <2>4, <2>5, SeqEqual
  <2>7. outcome' = "unchanged"
    BY <2>1, <2>2, <2>6
  <2>8. QED
    BY <2>1, <2>7, <1>1, <1>3 DEF GrowthInvariant, Verified, Alarms
<1>7. QED
  BY <1>5, <1>6

\* Every step keeps what is known of a file that loses nothing.
LEMMA GrowthSteps ==
    ASSUME EvidenceInvariant, EvidenceInvariant', GrowthInvariant, [Next]_vars
    PROVE  GrowthInvariant'
<1>1. /\ TypeOK /\ TypeOK' /\ RunInvariant
      /\ handle.size \in Nat /\ Len(evidence) \in Nat /\ Len(hashed) \in Nat
      /\ Len(hashed) <= handle.size /\ handle.length \in Nat
  BY LengthsAre DEF EvidenceInvariant
<1>2. CASE Edit
  BY <1>1, <1>2, EditGrows
<1>3. CASE Done \/ UNCHANGED vars \/ \E i \in Pieces : ProcessPiece(i)
  <2>1. UNCHANGED <<evidence, past, phase, handle, hashed, openHash, outcome>>
    BY <1>3 DEF Done, vars, ProcessPiece, file
  <2>2. QED
    BY <2>1 DEF GrowthInvariant, Kept, Lost
<1>4. CASE OpenFile
  <2>1. /\ UNCHANGED <<evidence, past, hashed, openHash, outcome>>
        /\ phase = "start" /\ phase' = "sized" /\ handle'.size = Len(evidence)
    BY <1>4 DEF OpenFile, file, NoHandle
  <2>2. hashed = <<>> /\ outcome = "pending"
    BY <1>1, <2>1 DEF RunInvariant, TypeOK
  <2>3. Len(hashed') = 0
    BY <2>1, <2>2
  <2>4. QED
    BY <1>1, <2>1, <2>2, <2>3 DEF GrowthInvariant, Verified, Alarms
<1>5. CASE QuietStep /\ ~OpenFile
  BY <1>1, <1>5, QuietGrows
<1>6. CASE HashPiece
  BY <1>1, <1>6, HashPieceGrows
<1>7. CASE WrapEnds \/ FinishEnds
  BY <1>1, <1>7, HashEndGrows
<1>8. QED
  BY <1>2, <1>3, <1>4, <1>5, <1>6, <1>7 DEF Next, Hash, QuietStep

THEOREM GrowthCorrect == Spec => []GrowthInvariant
<1>1. QED
  BY GrowthStarts, GrowthSteps, EvidenceCorrect, PTL DEF Spec

\* However much is added to the file and whenever, no run is told of a changed
\* source, and none dies, unless something within the size found at open was lost
\* (raw.rs:80, 94-103).
THEOREM GrowthIsHarmless == Spec => []GrowthIsNoChange
<1>1. GrowthInvariant => GrowthIsNoChange
  BY DEF GrowthInvariant, GrowthIsNoChange, Kept, Alarms
<1>2. QED
  BY <1>1, GrowthCorrect, PTL
=============================================================================
