---------------------------- MODULE AuditProofs ----------------------------
(***************************************************************************)
(* What holds of the audit trail for every capacity of the buffer, every   *)
(* size and number of lines and every number of runs: the file only grows, *)
(* an error leaves no hole in it, and a digest that is returned covers the *)
(* run.                                                                    *)
(***************************************************************************)
EXTENDS AuditLog, OperatorProofs

Live == {"built", "running"} \cup Closing \cup {"closed"}

\* After the trail w, what is in the file and the buffer is what the run was given,
\* up to where an error stopped it, and what an init that is called again put there.
Whole(w) ==
    /\ IsPrefix(Own(file \o buffer), Own(w \o given))
    /\ ~err => Own(file \o buffer) = Own(w \o given)

\* Bytes of such an init alone.
StrayOnly(bytes) == \A i \in 1..Len(bytes) : bytes[i][2] = 0

\* What the digest has to cover.
Due == before \o SubSeq(given, 1, ended)

\* The inductive invariant.
AuditInvariant ==
    /\ TypeOK
    /\ phase # "no process" => run >= 1 /\ IsPrefix(before, file)
    /\ StrayOnly(stray) /\ (alone => stray = <<>>)
    /\ phase \in Live => Whole(before)
    /\ phase \in Closing \cup {"closed"} => ended \in 0 .. Len(given)
    /\ \/ phase = "flushed" /\ ~err
       \/ phase \in {"checked", "measured", "closed"}
       => IsPrefix(Own(Due), Own(file))
    /\ phase = "closed" => IsPrefix(before, digest) /\ IsPrefix(Own(Due), Own(digest))
    /\ phase \in {"measured", "closed"} /\ Len(given) = ended /\ alone =>
          measured = Len(file)
    /\ phase = "closed" /\ Len(given) = ended /\ alone => digest = file
-----------------------------------------------------------------------------
(* Prefixes                                                                *)

\* A sequence is a prefix of itself with something after it.
LEMMA PrefixOfConcat ==
    ASSUME NEW S, NEW s \in Seq(S), NEW t \in Seq(S)
    PROVE  IsPrefix(s, s \o t)
<1>1. /\ s \o t \in Seq(S) /\ Len(s \o t) = Len(s) + Len(t)
      /\ Len(s) \in Nat /\ Len(t) \in Nat
  BY ConcatProperties, LenProperties
<1>2. SubSeq(s \o t, 1, Len(s)) = SubSeq(s, 1, Len(s))
  <2>1. CASE Len(s) = 0
    BY <1>1, <2>1, SubSeqEmpty
  <2>2. CASE Len(s) # 0
    BY <1>1, <2>2, SubSeqOfConcat1
  <2>3. QED
    BY <2>1, <2>2
<1>3. QED
  BY <1>1, <1>2 DEF IsPrefix

\* A sequence is what is up to a place in it and what comes after.
LEMMA Cut ==
    ASSUME NEW S, NEW s \in Seq(S), NEW k \in 0 .. Len(s)
    PROVE  /\ SubSeq(s, 1, k) \in Seq(S)
           /\ SubSeq(s, k + 1, Len(s)) \in Seq(S)
           /\ Len(SubSeq(s, 1, k)) = k
           /\ Len(SubSeq(s, k + 1, Len(s))) = Len(s) - k
           /\ s = SubSeq(s, 1, k) \o SubSeq(s, k + 1, Len(s))
           /\ IsPrefix(SubSeq(s, 1, k), s)
<1>1. Len(s) \in Nat /\ k \in Nat /\ k <= Len(s)
  BY LenProperties
<1>2. /\ \A i \in 1 .. k : s[i] \in S
      /\ \A i \in k + 1 .. Len(s) : s[i] \in S
  BY <1>1, ElementOfSeq
<1>3. SubSeq(s, 1, k) \in Seq(S) /\ Len(SubSeq(s, 1, k)) = k
  BY <1>1, <1>2, SubSeqProperties
<1>4. /\ SubSeq(s, k + 1, Len(s)) \in Seq(S)
      /\ Len(SubSeq(s, k + 1, Len(s))) = Len(s) - k
  BY <1>1, <1>2, SubSeqProperties
<1>5. s = SubSeq(s, 1, k) \o SubSeq(s, k + 1, Len(s))
  <2>1. /\ 1 \in 1 .. Len(s) + 1 /\ k \in 1 - 1 .. Len(s)
        /\ Len(s) \in k .. Len(s)
    BY <1>1
  <2>2. SubSeq(s, 1, k) \o SubSeq(s, k + 1, Len(s)) = SubSeq(s, 1, Len(s))
    BY <2>1, ConcatAdjacentSubSeq, Zenon
  <2>3. QED
    BY <2>2, SubSeqFull
<1>6. QED
  BY <1>3, <1>4, <1>5, PrefixOfConcat

\* What a sequence is a prefix of is the sequence and a rest.
LEMMA PrefixHasRest ==
    ASSUME NEW S, NEW s \in Seq(S), NEW t \in Seq(S), IsPrefix(s, t)
    PROVE  \E rest \in Seq(S) : t = s \o rest
<1>1. Len(s) \in 0 .. Len(t) /\ SubSeq(t, 1, Len(s)) = s
  BY LenProperties, SubSeqFull DEF IsPrefix
<1>2. PICK k \in 0 .. Len(t) : k = Len(s)
  BY <1>1
<1>3. /\ t = SubSeq(t, 1, k) \o SubSeq(t, k + 1, Len(t))
      /\ SubSeq(t, k + 1, Len(t)) \in Seq(S)
  BY Cut
<1>4. QED
  BY <1>1, <1>2, <1>3

\* And of itself alone.
LEMMA PrefixOfItself ==
    ASSUME NEW S, NEW s \in Seq(S)
    PROVE  IsPrefix(s, s)
  BY LenProperties DEF IsPrefix

\* A prefix of a prefix is one.
LEMMA PrefixOfPrefix ==
    ASSUME NEW S, NEW s \in Seq(S), NEW t \in Seq(S), NEW u \in Seq(S),
           IsPrefix(s, t), IsPrefix(t, u)
    PROVE  IsPrefix(s, u)
<1>1. PICK x \in Seq(S) : t = s \o x
  BY PrefixHasRest
<1>2. PICK y \in Seq(S) : u = t \o y
  BY PrefixHasRest
<1>3. u = s \o (x \o y)
  BY <1>1, <1>2, ConcatAssociative
<1>4. x \o y \in Seq(S)
  BY ConcatProperties
<1>5. QED
  BY <1>3, <1>4, PrefixOfConcat

\* Put after the same sequence, a prefix stays one.
LEMMA PrefixAfter ==
    ASSUME NEW S, NEW a \in Seq(S), NEW s \in Seq(S), NEW t \in Seq(S),
           IsPrefix(s, t)
    PROVE  IsPrefix(a \o s, a \o t)
<1>1. PICK x \in Seq(S) : t = s \o x
  BY PrefixHasRest
<1>2. a \o t = (a \o s) \o x
  BY <1>1, Associates, SMTT(30)
<1>3. a \o s \in Seq(S)
  BY ConcatProperties
<1>4. QED
  BY <1>2, <1>3, PrefixOfConcat

\* What follows the same sequence in a prefix and in the whole is a prefix too.
LEMMA PrefixBehind ==
    ASSUME NEW S, NEW a \in Seq(S), NEW s \in Seq(S), NEW t \in Seq(S),
           IsPrefix(a \o s, a \o t)
    PROVE  Len(s) <= Len(t) /\ \A i \in 1..Len(s) : s[i] = t[i]
<1>1. PICK u, v : u = a \o s /\ v = a \o t
  OBVIOUS
<1>2. /\ u \in Seq(S) /\ Len(u) = Len(a) + Len(s)
      /\ v \in Seq(S) /\ Len(v) = Len(a) + Len(t)
      /\ Len(a) \in Nat /\ Len(s) \in Nat /\ Len(t) \in Nat
  BY <1>1, ConcatProperties, LenProperties
<1>3. PICK rest \in Seq(S) : v = u \o rest
  <2>1. IsPrefix(u, v)
    BY <1>1
  <2>2. QED
    BY <1>2, <2>1, PrefixHasRest
<1>4. Len(v) = Len(u) + Len(rest) /\ Len(rest) \in Nat
  BY <1>2, <1>3, ConcatProperties, LenProperties
<1>5. Len(s) <= Len(t)
  BY <1>2, <1>4
<1>6. ASSUME NEW i \in 1..Len(s) PROVE s[i] = t[i]
  <2>1. i \in 1..Len(t) /\ Len(a) + i \in 1..Len(u)
    BY <1>2, <1>5
  <2>2. u[Len(a) + i] = s[i] /\ v[Len(a) + i] = t[i]
    BY <1>1, <2>1, Behind
  <2>3. v[Len(a) + i] = u[Len(a) + i]
    BY <1>2, <1>3, <2>1, Behind
  <2>4. QED
    BY <2>2, <2>3
<1>7. QED
  BY <1>5, <1>6
-----------------------------------------------------------------------------
(* The bytes of the runs' own lines                                        *)

\* What Own puts together.
Pieces(s) == [i \in 1..Len(s) |-> IF s[i][2] = 0 THEN <<>> ELSE <<s[i]>>]

\* It is a sequence of sequences of bytes.
LEMMA PiecesType ==
    ASSUME NEW s \in Seq(ByteType)
    PROVE  Pieces(s) \in Seq(Seq(ByteType)) /\ Len(Pieces(s)) = Len(s)
<1>1. Len(s) \in Nat /\ \A i \in 1..Len(s) : s[i] \in ByteType
  BY LenProperties, ElementOfSeq
<1>2. ASSUME NEW i \in 1..Len(s)
      PROVE  (IF s[i][2] = 0 THEN <<>> ELSE <<s[i]>>) \in Seq(ByteType)
  <2>1. PICK b \in ByteType : b = s[i]
    BY <1>1
  <2>2. <<b>> \in Seq(ByteType) /\ <<>> \in Seq(ByteType)
    OBVIOUS
  <2>3. QED
    BY <2>1, <2>2
<1>3. Pieces(s) \in [1..Len(s) -> Seq(ByteType)]
  BY <1>2 DEF Pieces
<1>4. QED
  BY <1>1, <1>3, FunctionIsSequence

\* The own bytes of one sequence behind another are those of the one behind those
\* of the other.
LEMMA OwnBehind ==
    ASSUME NEW s \in Seq(ByteType), NEW t \in Seq(ByteType)
    PROVE  /\ Own(s) \in Seq(ByteType) /\ Own(t) \in Seq(ByteType)
           /\ Own(s \o t) = Own(s) \o Own(t)
<1>1. PICK u : u = s \o t
  OBVIOUS
<1>2. /\ u \in Seq(ByteType) /\ Len(u) = Len(s) + Len(t)
      /\ Len(s) \in Nat /\ Len(t) \in Nat
      /\ \A i \in 1..Len(s) : u[i] = s[i]
      /\ \A i \in 1..Len(t) : u[Len(s) + i] = t[i]
  BY <1>1, Behind, LenProperties
<1>3. PICK a, b, c : a = Pieces(s) /\ b = Pieces(t) /\ c = Pieces(u)
  OBVIOUS
<1>4. /\ a \in Seq(Seq(ByteType)) /\ Len(a) = Len(s)
      /\ b \in Seq(Seq(ByteType)) /\ Len(b) = Len(t)
      /\ c \in Seq(Seq(ByteType)) /\ Len(c) = Len(u)
  BY <1>2, <1>3, PiecesType
<1>5. /\ a \o b \in Seq(Seq(ByteType)) /\ Len(a \o b) = Len(a) + Len(b)
      /\ \A i \in 1..Len(a) : (a \o b)[i] = a[i]
      /\ \A i \in 1..Len(b) : (a \o b)[Len(a) + i] = b[i]
  <2>1. PICK S : S = Seq(ByteType)
    OBVIOUS
  <2>2. a \in Seq(S) /\ b \in Seq(S)
    BY <1>4, <2>1
  <2>3. /\ a \o b \in Seq(S) /\ Len(a \o b) = Len(a) + Len(b)
        /\ \A i \in 1..Len(a) : (a \o b)[i] = a[i]
        /\ \A i \in 1..Len(b) : (a \o b)[Len(a) + i] = b[i]
    BY <2>2, Behind
  <2>4. QED
    BY <2>1, <2>3
<1>6. ASSUME NEW i \in 1..Len(c) PROVE c[i] = (a \o b)[i]
  <2>1. i \in 1..Len(u) /\ i \in Nat /\ c[i] = IF u[i][2] = 0 THEN <<>> ELSE <<u[i]>>
    BY <1>2, <1>3, <1>4 DEF Pieces
  <2>2. CASE i <= Len(s)
    <3>1. i \in 1..Len(s)
      BY <1>2, <2>1, <2>2
    <3>2. u[i] = s[i] /\ a[i] = IF s[i][2] = 0 THEN <<>> ELSE <<s[i]>>
      BY <1>2, <1>3, <3>1 DEF Pieces
    <3>3. (a \o b)[i] = a[i]
      BY <1>4, <1>5, <3>1
    <3>4. QED
      BY <2>1, <3>2, <3>3
  <2>3. CASE ~(i <= Len(s))
    <3>1. PICK k : k = i - Len(s)
      OBVIOUS
    <3>2. k \in 1..Len(t) /\ i = Len(s) + k
      BY <1>2, <2>1, <2>3, <3>1
    <3>3. u[i] = t[k] /\ b[k] = IF t[k][2] = 0 THEN <<>> ELSE <<t[k]>>
      BY <1>2, <1>3, <3>2 DEF Pieces
    <3>4. (a \o b)[i] = b[k]
      BY <1>4, <1>5, <3>2
    <3>5. QED
      BY <2>1, <3>3, <3>4
  <2>4. QED
    BY <2>2, <2>3
<1>7. c = a \o b
  <2>1. Len(c) = Len(a \o b)
    BY <1>2, <1>4, <1>5
  <2>2. QED
    BY <1>4, <1>5, <1>6, <2>1, SeqEqual
<1>8. Own(s) = FlattenSeq(a) /\ Own(t) = FlattenSeq(b) /\ Own(u) = FlattenSeq(c)
  BY <1>3 DEF Own, Pieces
<1>9. /\ FlattenSeq(a) \in Seq(ByteType) /\ FlattenSeq(b) \in Seq(ByteType)
      /\ FlattenSeq(a \o b) = FlattenSeq(a) \o FlattenSeq(b)
  BY <1>4, FlattenType, FlattenBehind
<1>10. QED
  BY <1>1, <1>7, <1>8, <1>9

\* The own bytes of a prefix are a prefix of those of the whole.
LEMMA OwnPrefix ==
    ASSUME NEW s \in Seq(ByteType), NEW t \in Seq(ByteType), IsPrefix(s, t)
    PROVE  IsPrefix(Own(s), Own(t))
<1>1. PICK rest \in Seq(ByteType) : t = s \o rest
  BY PrefixHasRest
<1>2. /\ Own(s) \in Seq(ByteType) /\ Own(rest) \in Seq(ByteType)
      /\ Own(s \o rest) = Own(s) \o Own(rest)
  BY OwnBehind
<1>3. IsPrefix(Own(s), Own(s) \o Own(rest))
  BY <1>2, PrefixOfConcat
<1>4. QED
  BY <1>1, <1>2, <1>3

\* A line of an init that is called again has none.
LEMMA OwnOfStray ==
    ASSUME NEW s \in Seq(ByteType), StrayOnly(s)
    PROVE  Own(s) = <<>>
<1>1. \A i \in 1..Len(Pieces(s)) : Pieces(s)[i] = <<>>
  BY PiecesType DEF StrayOnly, Pieces
<1>2. Own(s) = FlattenSeq(Pieces(s))
  BY DEF Own, Pieces
<1>3. QED
  BY <1>1, <1>2, PiecesType, FlattenEmpties

\* Put between two sequences it changes nothing of what they have.
LEMMA StrayBetween ==
    ASSUME NEW f \in Seq(ByteType), NEW x \in Seq(ByteType), StrayOnly(x),
           NEW b \in Seq(ByteType)
    PROVE  /\ Own(f \o x) = Own(f)
           /\ Own((f \o x) \o b) = Own(f \o b)
<1>1. Own(f \o x) = Own(f) \o Own(x) /\ Own(f) \in Seq(ByteType)
  BY OwnBehind
<1>2. Own(f \o x) = Own(f)
  BY <1>1, OwnOfStray, ConcatEmptySeq
<1>3. PICK g : g = f \o x /\ g \in Seq(ByteType)
  BY ConcatProperties
<1>4. Own(g \o b) = Own(g) \o Own(b) /\ Own(f \o b) = Own(f) \o Own(b)
  BY <1>3, OwnBehind
<1>5. QED
  BY <1>2, <1>3, <1>4
-----------------------------------------------------------------------------
(* The buffered writer                                                     *)

\* Concatenation of bytes, in the form the steps below use.
LEMMA Associative ==
    \A s, t, u \in Seq(ByteType) : s \o (t \o u) = (s \o t) \o u
  BY Associates, SMTT(30)

\* What a call that is given `data` may do to the file and the buffer: what was in
\* them stays and stays in order, the file keeps what it has, and all of the data
\* is there unless the call fails.
Keeps(f, b, data, r) ==
    /\ r.file \in Seq(ByteType) /\ r.buffer \in Seq(ByteType)
    /\ Len(r.buffer) <= Capacity
    /\ r.ok \in BOOLEAN
    /\ IsPrefix(f, r.file)
    /\ IsPrefix(r.file \o r.buffer, (f \o b) \o data)
    /\ r.ok => r.file \o r.buffer = (f \o b) \o data

\* flush_buf loses nothing: what it does not write stays in the buffer.
LEMMA FlushKeeps ==
    ASSUME NEW f \in Seq(ByteType), NEW b \in Seq(ByteType), Len(b) <= Capacity,
           NEW r \in FlushBuffer(f, b)
    PROVE  Keeps(f, b, <<>>, r) /\ (r.ok => r.buffer = <<>>)
<1>1. /\ f \o b \in Seq(ByteType) /\ (f \o b) \o <<>> = f \o b
      /\ <<>> \in Seq(ByteType) /\ Len(b) \in Nat
      /\ Len(<<>>) = 0 /\ Capacity \in Nat
  BY ConcatProperties, ConcatEmptySeq, EmptySeq, LenProperties, AuditAssumption
<1>2. CASE r = Result(f \o b, <<>>, TRUE)
  <2>1. r.file = f \o b /\ r.buffer = <<>> /\ r.ok = TRUE
    BY <1>2 DEF Result
  <2>2. IsPrefix(f, f \o b) /\ IsPrefix(f \o b, f \o b)
    BY <1>1, PrefixOfConcat, PrefixOfItself, Zenon
  <2>3. r.file \o r.buffer = f \o b /\ Len(<<>>) <= Capacity
    BY <1>1, <2>1
  <2>4. QED
    BY <1>1, <2>1, <2>2, <2>3 DEF Keeps
<1>3. CASE r # Result(f \o b, <<>>, TRUE)
  <2>1. PICK k \in 0 .. Len(b) - 1 :
           r = Result(f \o SubSeq(b, 1, k), SubSeq(b, k + 1, Len(b)), FALSE)
    BY <1>3 DEF FlushBuffer
  <2>2. PICK x, y : x = SubSeq(b, 1, k) /\ y = SubSeq(b, k + 1, Len(b))
    OBVIOUS
  <2>3. r.file = f \o x /\ r.buffer = y /\ r.ok = FALSE
    BY <2>1, <2>2 DEF Result
  <2>4. k \in 0 .. Len(b) /\ k \in Nat
    BY <1>1
  <2>5. /\ x \in Seq(ByteType) /\ y \in Seq(ByteType) /\ b = x \o y
        /\ Len(y) = Len(b) - k
    BY <2>2, <2>4, Cut
  <2>6. Len(y) <= Capacity
    BY <1>1, <2>4, <2>5
  <2>7. (f \o x) \o y = f \o b /\ f \o x \in Seq(ByteType) /\ IsPrefix(f, f \o x)
    BY <2>5, Associates, ConcatProperties, PrefixOfConcat, SMTT(30)
  <2>8. QED
    BY <1>1, <2>3, <2>5, <2>6, <2>7, PrefixOfItself DEF Keeps
<1>4. QED
  BY <1>2, <1>3

\* Writing past an empty buffer puts a beginning of the data in the file, all of it
\* unless it fails.
LEMMA WriteThroughKeeps ==
    ASSUME NEW f \in Seq(ByteType), NEW data \in Seq(ByteType),
           NEW r \in WriteThrough(f, <<>>, data)
    PROVE  Keeps(f, <<>>, data, r)
<1>1. /\ f \o <<>> = f /\ f \o data \in Seq(ByteType) /\ IsPrefix(f, f \o data)
      /\ <<>> \in Seq(ByteType) /\ (f \o data) \o <<>> = f \o data
      /\ Len(<<>>) <= Capacity /\ Len(data) \in Nat
  BY ConcatProperties, ConcatEmptySeq, EmptySeq, PrefixOfConcat, LenProperties,
     AuditAssumption
<1>2. CASE r = Result(f \o data, <<>>, TRUE)
  <2>1. r.file = f \o data /\ r.buffer = <<>> /\ r.ok = TRUE
    BY <1>2 DEF Result
  <2>2. QED
    BY <1>1, <2>1, PrefixOfItself DEF Keeps
<1>3. CASE r # Result(f \o data, <<>>, TRUE)
  <2>1. PICK k \in 0 .. Len(data) - 1 :
           r = Result(f \o SubSeq(data, 1, k), <<>>, FALSE)
    BY <1>3 DEF WriteThrough
  <2>2. PICK x : x = SubSeq(data, 1, k)
    OBVIOUS
  <2>3. r.file = f \o x /\ r.buffer = <<>> /\ r.ok = FALSE
    BY <2>1, <2>2 DEF Result
  <2>4. k \in 0 .. Len(data)
    BY <1>1
  <2>5. x \in Seq(ByteType) /\ IsPrefix(x, data)
    BY <2>2, <2>4, Cut
  <2>6. /\ f \o x \in Seq(ByteType) /\ IsPrefix(f, f \o x)
        /\ (f \o x) \o <<>> = f \o x /\ IsPrefix(f \o x, f \o data)
    BY <2>5, ConcatProperties, ConcatEmptySeq, PrefixOfConcat, PrefixAfter
  <2>7. QED
    BY <1>1, <2>3, <2>6 DEF Keeps
<1>4. QED
  BY <1>2, <1>3

\* Two calls in a row, the second after the first went well.
LEMMA KeepsInARow ==
    ASSUME NEW f \in Seq(ByteType), NEW b \in Seq(ByteType),
           NEW first \in Seq(ByteType), NEW second \in Seq(ByteType), NEW q, NEW r,
           Keeps(f, b, first, q), q.ok, Keeps(q.file, q.buffer, second, r)
    PROVE  Keeps(f, b, first \o second, r)
<1>1. /\ q.file \in Seq(ByteType) /\ r.file \in Seq(ByteType)
      /\ IsPrefix(f, q.file) /\ IsPrefix(q.file, r.file)
      /\ q.file \o q.buffer = (f \o b) \o first
  BY DEF Keeps
<1>2. IsPrefix(f, r.file)
  BY <1>1, PrefixOfPrefix
<1>3. ((f \o b) \o first) \o second = (f \o b) \o (first \o second)
  <2>1. f \o b \in Seq(ByteType)
    BY ConcatProperties
  <2>2. QED
    BY <2>1, Associates, SMTT(30)
<1>4. QED
  BY <1>1, <1>2, <1>3 DEF Keeps

\* After a call that failed nothing is done.
LEMMA KeepsWhenFailed ==
    ASSUME NEW f \in Seq(ByteType), NEW b \in Seq(ByteType),
           NEW first \in Seq(ByteType), NEW second \in Seq(ByteType), NEW r,
           Keeps(f, b, first, r), ~r.ok
    PROVE  Keeps(f, b, first \o second, r)
<1>1. /\ f \o b \in Seq(ByteType) /\ first \o second \in Seq(ByteType)
      /\ (f \o b) \o first \in Seq(ByteType)
      /\ (f \o b) \o (first \o second) \in Seq(ByteType)
      /\ r.file \o r.buffer \in Seq(ByteType)
  BY ConcatProperties DEF Keeps
<1>2. IsPrefix((f \o b) \o first, (f \o b) \o (first \o second))
  BY <1>1, PrefixOfConcat, PrefixAfter
<1>3. IsPrefix(r.file \o r.buffer, (f \o b) \o (first \o second))
  BY <1>1, <1>2, PrefixOfPrefix DEF Keeps
<1>4. QED
  BY <1>3 DEF Keeps

\* write_all, whether it flushes first, goes past the buffer or stays in it.
LEMMA WriteAllKeeps ==
    ASSUME NEW f \in Seq(ByteType), NEW b \in Seq(ByteType), Len(b) <= Capacity,
           NEW data \in Seq(ByteType), NEW r \in WriteAll(f, b, data)
    PROVE  Keeps(f, b, data, r)
<1>1. /\ <<>> \in Seq(ByteType) /\ <<>> \o data = data
      /\ Len(b) \in Nat /\ Len(data) \in Nat /\ Capacity \in Nat \ {0}
  BY EmptySeq, ConcatEmptySeq, LenProperties, AuditAssumption
<1>2. PICK q :
         /\ q \in IF Len(data) > Capacity - Len(b) THEN FlushBuffer(f, b)
                                                   ELSE {Result(f, b, TRUE)}
         /\ r \in IF ~q.ok THEN {q}
                  ELSE IF Len(data) >= Capacity
                       THEN WriteThrough(q.file, q.buffer, data)
                       ELSE {Result(q.file, q.buffer \o data, TRUE)}
  BY DEF WriteAll
<1>3. /\ Keeps(f, b, <<>>, q)
      /\ q.ok => Len(q.buffer) + Len(data) <= Capacity \/ q.buffer = <<>>
  <2>1. CASE Len(data) > Capacity - Len(b)
    BY <1>2, <2>1, FlushKeeps
  <2>2. CASE ~(Len(data) > Capacity - Len(b))
    <3>1. q = Result(f, b, TRUE)
      BY <1>2, <2>2
    <3>2. q.file = f /\ q.buffer = b /\ q.ok = TRUE
      BY <3>1 DEF Result
    <3>3. /\ f \o b \in Seq(ByteType) /\ (f \o b) \o <<>> = f \o b
          /\ IsPrefix(f \o b, f \o b) /\ IsPrefix(f, f)
      BY ConcatProperties, ConcatEmptySeq, PrefixOfItself
    <3>4. Keeps(f, b, <<>>, q)
      BY <3>2, <3>3 DEF Keeps
    <3>5. Len(q.buffer) + Len(data) <= Capacity
      BY <1>1, <2>2, <3>2
    <3>6. QED
      BY <3>4, <3>5
  <2>3. QED
    BY <2>1, <2>2
<1>4. /\ q.file \in Seq(ByteType) /\ q.buffer \in Seq(ByteType)
      /\ Len(q.buffer) \in Nat /\ Len(q.buffer) <= Capacity
  BY <1>3, LenProperties DEF Keeps
<1>5. CASE ~q.ok
  BY <1>1, <1>2, <1>3, <1>5, KeepsWhenFailed
<1>6. ASSUME q.ok PROVE Keeps(q.file, q.buffer, data, r)
  <2>1. CASE Len(data) >= Capacity
    <3>1. r \in WriteThrough(q.file, q.buffer, data)
      BY <1>2, <1>6, <2>1
    <3>2. q.buffer = <<>>
      <4>1. CASE Len(q.buffer) + Len(data) <= Capacity
        <5>1. Len(q.buffer) = 0
          BY <1>1, <1>4, <2>1, <4>1
        <5>2. QED
          BY <1>4, <5>1, EmptySeq
      <4>2. QED
        BY <1>3, <1>6, <4>1
    <3>3. QED
      BY <1>4, <3>1, <3>2, WriteThroughKeeps
  <2>2. CASE ~(Len(data) >= Capacity)
    <3>1. r = Result(q.file, q.buffer \o data, TRUE)
      BY <1>2, <1>6, <2>2
    <3>2. r.file = q.file /\ r.buffer = q.buffer \o data /\ r.ok = TRUE
      BY <3>1 DEF Result
    <3>3. /\ q.buffer \o data \in Seq(ByteType)
          /\ Len(q.buffer \o data) = Len(q.buffer) + Len(data)
      BY <1>4, ConcatProperties
    <3>4. Len(q.buffer \o data) <= Capacity
      <4>1. CASE q.buffer = <<>>
        BY <1>1, <2>2, <4>1
      <4>2. QED
        BY <1>3, <1>6, <3>3, <4>1
    <3>5. q.file \o (q.buffer \o data) = (q.file \o q.buffer) \o data
      BY <1>4, Associative, ZenonT(30)
    <3>6. /\ IsPrefix(q.file, q.file)
          /\ IsPrefix(q.file \o (q.buffer \o data), q.file \o (q.buffer \o data))
      BY <1>4, <3>3, ConcatProperties, PrefixOfItself
    <3>7. QED
      BY <1>4, <3>2, <3>3, <3>4, <3>5, <3>6 DEF Keeps
  <2>3. QED
    BY <2>1, <2>2
<1>7. QED
  BY <1>1, <1>3, <1>5, <1>6, KeepsInARow

\* The body and the newline: a line is there whole unless the call fails.
LEMMA WriteLineKeeps ==
    ASSUME NEW f \in Seq(ByteType), NEW b \in Seq(ByteType), Len(b) <= Capacity,
           NEW line, Body(line) \in Seq(ByteType), Newline(line) \in Seq(ByteType),
           NEW r \in WriteLine(f, b, line)
    PROVE  Keeps(f, b, Bytes(line), r)
<1>1. PICK q \in WriteAll(f, b, Body(line)) :
         r \in IF q.ok THEN WriteAll(q.file, q.buffer, Newline(line)) ELSE {q}
  BY DEF WriteLine
<1>2. Keeps(f, b, Body(line), q)
  BY <1>1, WriteAllKeeps
<1>3. CASE ~q.ok
  BY <1>1, <1>2, <1>3, KeepsWhenFailed DEF Bytes
<1>4. CASE q.ok
  <2>1. /\ q.file \in Seq(ByteType) /\ q.buffer \in Seq(ByteType)
        /\ Len(q.buffer) <= Capacity
    BY <1>2 DEF Keeps
  <2>2. Keeps(q.file, q.buffer, Newline(line), r)
    BY <1>1, <1>4, <2>1, WriteAllKeeps
  <2>3. QED
    BY <1>2, <1>4, <2>2, KeepsInARow DEF Bytes
<1>5. QED
  BY <1>3, <1>4
-----------------------------------------------------------------------------
(* Lines                                                                   *)

\* A line of a run is a sequence of bytes and not an empty one.
LEMMA LineBytes ==
    ASSUME NEW line, line.run \in 1 .. MaxRuns, line.number \in Nat,
           line.size \in Nat
    PROVE  /\ Body(line) \in Seq(ByteType) /\ Newline(line) \in Seq(ByteType)
           /\ Bytes(line) \in Seq(ByteType) /\ Len(Bytes(line)) >= 1
<1>1. Body(line) \in Seq(ByteType)
  <2>1. \A i \in 1 .. line.size : <<line.run, line.number, i>> \in ByteType
    BY DEF ByteType
  <2>2. Body(line) \in [1 .. line.size -> ByteType]
    BY <2>1 DEF Body
  <2>3. QED
    BY <2>2
<1>2. Newline(line) \in Seq(ByteType) /\ Len(Newline(line)) = 1
  <2>1. <<line.run, line.number, 0>> \in ByteType
    BY DEF ByteType
  <2>2. QED
    BY <2>1 DEF Newline
<1>3. PICK b, n : b = Body(line) /\ n = Newline(line)
  OBVIOUS
<1>4. b \o n \in Seq(ByteType) /\ Len(b \o n) >= 1
  <2>1. b \in Seq(ByteType) /\ n \in Seq(ByteType) /\ Len(n) = 1 /\ Len(b) \in Nat
    BY <1>1, <1>2, <1>3, LenProperties
  <2>2. b \o n \in Seq(ByteType) /\ Len(b \o n) = Len(b) + Len(n)
    BY <2>1, ConcatProperties
  <2>3. QED
    BY <2>1, <2>2
<1>5. QED
  BY <1>1, <1>2, <1>3, <1>4 DEF Bytes

\* A line given to the writer leaves the trail whole.
LEMMA WriteKeeps ==
    ASSUME TypeOK, NEW earlier \in Seq(ByteType), NEW line,
           line.run \in 1 .. MaxRuns, line.number \in Nat \ {0}, line.size \in Nat,
           Write(earlier, line)
    PROVE  /\ file' \in Seq(ByteType) /\ buffer' \in Seq(ByteType)
           /\ Len(buffer') <= Capacity /\ err' \in BOOLEAN /\ (err => err')
           /\ lines' \in Nat
           /\ given' \in Seq(ByteType) /\ given' = earlier \o Bytes(line)
           /\ Len(given') > Len(earlier)
           /\ IsPrefix(file, file')
           /\ \A w \in Seq(ByteType) :
                 /\ IsPrefix(Own(file \o buffer), Own(w \o earlier))
                 /\ ~err => Own(file \o buffer) = Own(w \o earlier)
                 => /\ IsPrefix(Own(file' \o buffer'), Own(w \o given'))
                    /\ ~err' => Own(file' \o buffer') = Own(w \o given')
<1>1. /\ file \in Seq(ByteType) /\ buffer \in Seq(ByteType)
      /\ Len(buffer) <= Capacity /\ err \in BOOLEAN
  BY DEF TypeOK
<1>2. /\ Body(line) \in Seq(ByteType) /\ Newline(line) \in Seq(ByteType)
      /\ Bytes(line) \in Seq(ByteType) /\ Len(Bytes(line)) >= 1
  BY LineBytes
<1>3. /\ given' = earlier \o Bytes(line) /\ lines' \in Nat
      /\ given' \in Seq(ByteType) /\ Len(given') > Len(earlier)
  BY <1>2, ConcatProperties, LenProperties DEF Write
<1>4. CASE err
  <2>1. file' = file /\ buffer' = buffer /\ err' = err
    BY <1>4 DEF Write
  <2>2. ASSUME NEW w \in Seq(ByteType),
               IsPrefix(Own(file \o buffer), Own(w \o earlier))
        PROVE  IsPrefix(Own(file \o buffer), Own(w \o given'))
    <3>1. /\ w \o earlier \in Seq(ByteType) /\ file \o buffer \in Seq(ByteType)
          /\ w \o given' \in Seq(ByteType)
      BY <1>1, <1>3, ConcatProperties
    <3>2. IsPrefix(w \o earlier, w \o given')
      BY <1>2, <1>3, PrefixOfConcat, PrefixAfter
    <3>3. /\ IsPrefix(Own(w \o earlier), Own(w \o given'))
          /\ Own(w \o earlier) \in Seq(ByteType) /\ Own(w \o given') \in Seq(ByteType)
          /\ Own(file \o buffer) \in Seq(ByteType)
      BY <3>1, <3>2, OwnPrefix, OwnBehind
    <3>4. QED
      BY <2>2, <3>3, PrefixOfPrefix
  <2>3. QED
    BY <1>1, <1>3, <1>4, <2>1, <2>2, PrefixOfItself
<1>5. CASE ~err
  <2>1. PICK r \in WriteLine(file, buffer, line) :
           file' = r.file /\ buffer' = r.buffer /\ err' = ~r.ok
    BY <1>5 DEF Write
  <2>2. Keeps(file, buffer, Bytes(line), r)
    BY <1>1, <1>2, WriteLineKeeps
  <2>3. ASSUME NEW w \in Seq(ByteType), Own(file \o buffer) = Own(w \o earlier)
        PROVE  Own((file \o buffer) \o Bytes(line)) = Own(w \o given')
    <3>1. (w \o earlier) \o Bytes(line) = w \o (earlier \o Bytes(line))
      BY <1>2, Associative, ZenonT(30)
    <3>2. w \o earlier \in Seq(ByteType) /\ file \o buffer \in Seq(ByteType)
      BY <1>1, ConcatProperties
    <3>3. Own((file \o buffer) \o Bytes(line)) = Own(file \o buffer) \o Own(Bytes(line))
      BY <1>2, <3>2, OwnBehind
    <3>4. Own((w \o earlier) \o Bytes(line)) = Own(w \o earlier) \o Own(Bytes(line))
      BY <1>2, <3>2, OwnBehind
    <3>5. QED
      BY <1>3, <2>3, <3>1, <3>3, <3>4
  <2>4. /\ file' \in Seq(ByteType) /\ buffer' \in Seq(ByteType)
        /\ Len(buffer') <= Capacity /\ err' \in BOOLEAN /\ IsPrefix(file, file')
    BY <2>1, <2>2 DEF Keeps
  <2>5. /\ IsPrefix(file' \o buffer', (file \o buffer) \o Bytes(line))
        /\ ~err' => file' \o buffer' = (file \o buffer) \o Bytes(line)
    BY <2>1, <2>2 DEF Keeps
  <2>6. /\ IsPrefix(Own(file' \o buffer'), Own((file \o buffer) \o Bytes(line)))
        /\ ~err' => Own(file' \o buffer') = Own((file \o buffer) \o Bytes(line))
    <3>1. file' \o buffer' \in Seq(ByteType) /\ file \o buffer \in Seq(ByteType)
      BY <1>1, <2>4, ConcatProperties
    <3>2. (file \o buffer) \o Bytes(line) \in Seq(ByteType)
      BY <1>2, <3>1, ConcatProperties
    <3>3. QED
      BY <2>5, <3>1, <3>2, OwnPrefix
  <2>7. QED
    BY <1>3, <1>5, <2>3, <2>4, <2>6
<1>6. QED
  BY <1>1, <1>4, <1>5

\* What the digest has to cover is the same when the run is given more.
LEMMA CoveredStays ==
    ASSUME TypeOK, before' = before, ended' = ended, ended \in 0 .. Len(given),
           NEW more \in Seq(ByteType), given' = given \o more
    PROVE  Due' = Due
<1>1. given \in Seq(ByteType) /\ Len(given) \in Nat
  BY LenProperties DEF TypeOK
<1>2. SubSeq(given', 1, ended) = SubSeq(given, 1, ended)
  <2>1. CASE ended = 0
    BY <2>1, SubSeqEmpty
  <2>2. CASE ended # 0
    <3>1. 1 \in 1 .. Len(given) /\ ended \in 1 .. Len(given)
      BY <1>1, <2>2
    <3>2. QED
      BY <1>1, <3>1, SubSeqOfConcat1
  <2>3. QED
    BY <2>1, <2>2
<1>3. QED
  BY <1>2 DEF Due

\* What it has to cover is a sequence of bytes, and the beginning of all there is.
LEMMA CoveredType ==
    ASSUME TypeOK, ended \in 0 .. Len(given)
    PROVE  /\ Due \in Seq(ByteType)
           /\ IsPrefix(Due, before \o given)
<1>1. given \in Seq(ByteType) /\ before \in Seq(ByteType)
  BY DEF TypeOK
<1>2. /\ SubSeq(given, 1, ended) \in Seq(ByteType)
      /\ IsPrefix(SubSeq(given, 1, ended), given)
  BY <1>1, Cut
<1>3. QED
  BY <1>1, <1>2, ConcatProperties, PrefixAfter DEF Due
-----------------------------------------------------------------------------
(* The steps: each keeps the invariant and lets the file grow              *)

\* A run begins: its trail is what it finds and run_start.
LEMMA BuildKeeps ==
    ASSUME AuditInvariant, NEW size \in Sizes, Build(size)
    PROVE  AuditInvariant' /\ IsPrefix(file, file')
<1> DEFINE line == FirstLine(size)
<1>1. /\ TypeOK /\ phase = "no process" /\ phase' = "built" /\ run < MaxRuns
      /\ run' = run + 1 /\ before' = file /\ ended' = Unknown
      /\ measured' = measured /\ digest' = digest /\ stray' = stray
      /\ alone' = alone /\ again' = again
      /\ Write(<<>>, line)
  BY DEF Build, AuditInvariant, another
<1>2. line.run = run + 1 /\ line.number = 1 /\ line.size = size
  BY DEF FirstLine
<1>3. /\ line.run \in 1 .. MaxRuns /\ line.number \in Nat \ {0}
      /\ line.size \in Nat /\ run + 1 \in 1 .. MaxRuns
  <2>1. run \in 0 .. MaxRuns /\ run < MaxRuns
    BY <1>1 DEF TypeOK
  <2>2. run + 1 \in 1 .. MaxRuns
    BY <2>1, AuditAssumption
  <2>3. QED
    BY <1>2, <2>2, AuditAssumption
<1>4. /\ file \in Seq(ByteType) /\ <<>> \in Seq(ByteType)
      /\ Own(file \o buffer) = Own(file \o <<>>)
      /\ IsPrefix(Own(file \o <<>>), Own(file \o <<>>))
  <2>1. file \in Seq(ByteType) /\ <<>> \in Seq(ByteType) /\ buffer = <<>>
    BY <1>1, EmptySeq DEF TypeOK
  <2>2. Own(file \o <<>>) \in Seq(ByteType)
    BY <2>1, OwnBehind, ConcatProperties
  <2>3. QED
    BY <2>1, <2>2, PrefixOfItself
<1> HIDE DEF line
<1>5. /\ file' \in Seq(ByteType) /\ buffer' \in Seq(ByteType)
      /\ Len(buffer') <= Capacity /\ err' \in BOOLEAN /\ lines' \in Nat
      /\ given' \in Seq(ByteType) /\ IsPrefix(file, file')
  BY <1>1, <1>3, <1>4, WriteKeeps
<1>6. /\ IsPrefix(Own(file' \o buffer'), Own(file \o given'))
      /\ ~err' => Own(file' \o buffer') = Own(file \o given')
  BY <1>1, <1>3, <1>4, WriteKeeps
<1>7. run' \in 0 .. MaxRuns /\ run' >= 1
  <2>1. run' \in 1 .. MaxRuns
    BY <1>1, <1>3
  <2>2. QED
    BY <2>1, AuditAssumption
<1>8. TypeOK'
  BY <1>1, <1>4, <1>5, <1>7 DEF TypeOK
<1>9. Whole(before)'
  BY <1>1, <1>6 DEF Whole
<1>10. StrayOnly(stray)' /\ (alone' => stray' = <<>>) /\ IsPrefix(before', file')
  BY <1>1, <1>5 DEF AuditInvariant, StrayOnly
<1>11. QED
  BY <1>1, <1>5, <1>7, <1>8, <1>9, <1>10 DEF AuditInvariant, Closing

\* The next line of the run.
LEMMA NewLineIsLine ==
    ASSUME TypeOK, run >= 1, NEW size \in Sizes
    PROVE  /\ NewLine(size).run \in 1 .. MaxRuns
           /\ NewLine(size).number \in Nat \ {0} /\ NewLine(size).size \in Nat
<1>1. run \in 0 .. MaxRuns /\ lines \in Nat
  BY DEF TypeOK
<1>2. run \in 1 .. MaxRuns
  BY <1>1, AuditAssumption
<1>3. lines + 1 \in Nat \ {0}
  BY <1>1
<1>4. QED
  BY <1>2, <1>3, AuditAssumption DEF NewLine

\* The line a thread or close() gives, and what the trail is after it.
LEMMA NewLineKeeps ==
    ASSUME AuditInvariant, NEW size \in Sizes, phase # "no process",
           Write(given, NewLine(size))
    PROVE  /\ file' \in Seq(ByteType) /\ buffer' \in Seq(ByteType)
           /\ Len(buffer') <= Capacity /\ err' \in BOOLEAN /\ (err => err')
           /\ lines' \in Nat /\ given' \in Seq(ByteType)
           /\ Len(given') > Len(given)
           /\ \E more \in Seq(ByteType) : given' = given \o more
           /\ IsPrefix(file, file')
           /\ phase \in Live /\ before' = before => Whole(before)'
<1>1. TypeOK /\ given \in Seq(ByteType) /\ before \in Seq(ByteType) /\ run >= 1
  BY DEF AuditInvariant, TypeOK
<1>2. PICK line : line = NewLine(size)
  OBVIOUS
<1>3. /\ line.run \in 1 .. MaxRuns /\ line.number \in Nat \ {0}
      /\ line.size \in Nat
  BY <1>1, <1>2, NewLineIsLine
<1>4. Write(given, line)
  BY <1>2
<1>5. Bytes(line) \in Seq(ByteType)
  BY <1>3, LineBytes
<1>6. /\ file' \in Seq(ByteType) /\ buffer' \in Seq(ByteType)
      /\ Len(buffer') <= Capacity /\ err' \in BOOLEAN /\ (err => err')
      /\ lines' \in Nat /\ given' \in Seq(ByteType)
      /\ given' = given \o Bytes(line) /\ Len(given') > Len(given)
      /\ IsPrefix(file, file')
  BY <1>1, <1>3, <1>4, WriteKeeps
<1>7. ASSUME phase \in Live, before' = before PROVE Whole(before)'
  <2>1. /\ IsPrefix(Own(file \o buffer), Own(before \o given))
        /\ ~err => Own(file \o buffer) = Own(before \o given)
    BY <1>7 DEF AuditInvariant, Whole
  <2>2. /\ IsPrefix(Own(file' \o buffer'), Own(before \o given'))
        /\ ~err' => Own(file' \o buffer') = Own(before \o given')
    BY <1>1, <1>3, <1>4, <2>1, WriteKeeps
  <2>3. QED
    BY <1>7, <2>2 DEF Whole
<1>8. QED
  BY <1>5, <1>6, <1>7

\* A line of any thread, also in the middle of close() and after it.
LEMMA EmitKeeps ==
    ASSUME AuditInvariant, NEW size \in Sizes, Emit(size)
    PROVE  AuditInvariant' /\ IsPrefix(file, file')
<1>1. /\ TypeOK /\ phase \in {"running"} \cup Closing \cup Closed
      /\ Write(given, NewLine(size))
      /\ phase' = phase /\ measured' = measured /\ digest' = digest /\ run' = run
      /\ ended' = ended /\ before' = before
      /\ stray' = stray /\ alone' = alone /\ again' = again
  BY DEF Emit, AuditInvariant, another
<1>2. phase \notin {"no process", "rejected", "built"}
  BY <1>1 DEF Closing, Closed
<1>3. /\ file' \in Seq(ByteType) /\ buffer' \in Seq(ByteType)
      /\ Len(buffer') <= Capacity /\ err' \in BOOLEAN /\ (err => err')
      /\ lines' \in Nat /\ given' \in Seq(ByteType)
      /\ Len(given') > Len(given) /\ IsPrefix(file, file')
      /\ phase \in Live => Whole(before)'
  BY <1>1, <1>2, NewLineKeeps
<1>4. PICK more \in Seq(ByteType) : given' = given \o more
  BY <1>1, <1>2, NewLineKeeps
<1>5. TypeOK'
  BY <1>1, <1>2, <1>3 DEF TypeOK
<1>6. Len(given) \in Nat /\ Len(given') \in Nat
  BY <1>1, <1>3, LenProperties DEF TypeOK
<1>7. ASSUME phase \in Closing \cup {"closed"}
      PROVE  /\ ended' \in 0 .. Len(given') /\ Len(given') # ended'
             /\ Due' = Due /\ Due \in Seq(ByteType)
  <2>1. ended \in 0 .. Len(given)
    BY <1>7 DEF AuditInvariant
  <2>2. ended' \in 0 .. Len(given') /\ Len(given') # ended'
    BY <1>1, <1>3, <1>6, <2>1
  <2>3. Due' = Due
    BY <1>1, <1>4, <2>1, CoveredStays
  <2>4. QED
    BY <1>1, <2>1, <2>2, <2>3, CoveredType
<1>8. ASSUME IsPrefix(Own(Due), Own(file)), Due \in Seq(ByteType)
      PROVE  IsPrefix(Own(Due), Own(file'))
  <2>1. file \in Seq(ByteType) /\ IsPrefix(file, file')
    BY <1>1, <1>3 DEF TypeOK
  <2>2. IsPrefix(Own(file), Own(file'))
    BY <1>3, <2>1, OwnPrefix
  <2>3. /\ Own(Due) \in Seq(ByteType) /\ Own(file) \in Seq(ByteType)
        /\ Own(file') \in Seq(ByteType)
    BY <1>3, <1>8, <2>1, OwnBehind
  <2>4. QED
    BY <1>8, <2>2, <2>3, PrefixOfPrefix
<1>9. ASSUME \/ phase = "flushed" /\ ~err'
             \/ phase \in {"checked", "measured", "closed"}
      PROVE  IsPrefix(Own(Due'), Own(file'))
  <2>1. IsPrefix(Own(Due), Own(file)) /\ phase \in Closing \cup {"closed"}
    BY <1>3, <1>9 DEF AuditInvariant, Closing
  <2>2. QED
    BY <1>7, <1>8, <2>1
<1>10. ASSUME phase = "closed"
       PROVE  IsPrefix(before', digest') /\ IsPrefix(Own(Due'), Own(digest'))
  BY <1>1, <1>7, <1>10 DEF AuditInvariant
<1>11. phase \in {"measured", "closed"} => Len(given') # ended'
  BY <1>7 DEF Closing
<1>12. /\ run' >= 1 /\ IsPrefix(before', file')
       /\ StrayOnly(stray)' /\ (alone' => stray' = <<>>)
  <2>1. run >= 1 /\ IsPrefix(before, file)
    BY <1>2 DEF AuditInvariant
  <2>2. before \in Seq(ByteType) /\ file \in Seq(ByteType)
    BY <1>1 DEF TypeOK
  <2>3. IsPrefix(before, file')
    BY <1>3, <2>1, <2>2, PrefixOfPrefix
  <2>4. QED
    BY <1>1, <2>1, <2>3 DEF AuditInvariant, StrayOnly
<1>13. QED
  BY <1>1, <1>3, <1>5, <1>7, <1>9, <1>10, <1>11, <1>12 DEF AuditInvariant

\* run_end is what the digest has to reach.
LEMMA RunEndKeeps ==
    ASSUME AuditInvariant, NEW size \in Sizes, WriteRunEnd(size)
    PROVE  AuditInvariant' /\ IsPrefix(file, file')
<1>1. /\ TypeOK /\ phase = "running" /\ phase' = "ending"
      /\ Write(given, NewLine(size)) /\ ended' = Len(given')
      /\ measured' = measured /\ digest' = digest /\ run' = run /\ before' = before
      /\ stray' = stray /\ alone' = alone /\ again' = again
  BY DEF WriteRunEnd, AuditInvariant, another
<1>2. /\ file' \in Seq(ByteType) /\ buffer' \in Seq(ByteType)
      /\ Len(buffer') <= Capacity /\ err' \in BOOLEAN
      /\ lines' \in Nat /\ given' \in Seq(ByteType)
      /\ IsPrefix(file, file') /\ Whole(before)'
  BY <1>1, NewLineKeeps DEF Live
<1>3. ended' \in Nat /\ ended' \in 0 .. Len(given')
  BY <1>1, <1>2, LenProperties
<1>4. TypeOK'
  BY <1>1, <1>2, <1>3 DEF TypeOK, Closing
<1>5. /\ run' >= 1 /\ IsPrefix(before', file')
      /\ StrayOnly(stray)' /\ (alone' => stray' = <<>>)
  <2>1. run >= 1 /\ IsPrefix(before, file)
    BY <1>1 DEF AuditInvariant
  <2>2. before \in Seq(ByteType) /\ file \in Seq(ByteType)
    BY <1>1 DEF TypeOK
  <2>3. IsPrefix(before, file')
    BY <1>2, <2>1, <2>2, PrefixOfPrefix
  <2>4. QED
    BY <1>1, <2>1, <2>3 DEF AuditInvariant, StrayOnly
<1>6. QED
  BY <1>1, <1>2, <1>3, <1>4, <1>5 DEF AuditInvariant

\* What was in the file and the buffer is in the file: without an error the
\* whole run is, run_end too.
LEMMA FlushCovers ==
    ASSUME AuditInvariant, Flush
    PROVE  AuditInvariant' /\ IsPrefix(file, file')
<1>1. /\ TypeOK /\ phase = "ending" /\ Whole(before) /\ run >= 1
      /\ ended \in 0 .. Len(given)
      /\ err' = err /\ measured' = measured /\ digest' = digest /\ run' = run
      /\ lines' = lines /\ given' = given /\ ended' = ended /\ before' = before
      /\ stray' = stray /\ alone' = alone /\ again' = again
      /\ IsPrefix(before, file)
  BY DEF Flush, AuditInvariant, Live, Closing, history, another
<1>2. PICK r \in FlushBuffer(file, buffer) :
         /\ file' = r.file /\ buffer' = r.buffer
         /\ phase' = IF r.ok THEN "flushed" ELSE "close failed"
  BY DEF Flush
<1>3. /\ file \in Seq(ByteType) /\ buffer \in Seq(ByteType)
      /\ Len(buffer) <= Capacity
  BY <1>1 DEF TypeOK
<1>4. /\ file \o buffer \in Seq(ByteType) /\ (file \o buffer) \o <<>> = file \o buffer
  BY <1>3, ConcatProperties, ConcatEmptySeq
<1>5. Keeps(file, buffer, <<>>, r) /\ (r.ok => r.buffer = <<>>)
  BY <1>3, FlushKeeps
<1>6. /\ file' \in Seq(ByteType) /\ buffer' \in Seq(ByteType)
      /\ Len(buffer') <= Capacity /\ IsPrefix(file, file') /\ r.ok \in BOOLEAN
  BY <1>2, <1>5 DEF Keeps
<1>7. TypeOK'
  BY <1>1, <1>2, <1>6 DEF TypeOK, Closing, Closed
<1>11. /\ IsPrefix(before', file')
       /\ StrayOnly(stray)' /\ (alone' => stray' = <<>>)
  <2>1. before \in Seq(ByteType)
    BY <1>1 DEF TypeOK
  <2>2. IsPrefix(before, file')
    BY <1>1, <1>3, <1>6, <2>1, PrefixOfPrefix
  <2>3. QED
    BY <1>1, <2>2 DEF AuditInvariant, StrayOnly
<1>8. CASE r.ok
  <2>1. file' \o buffer' = file \o buffer /\ file' \o buffer' = file'
    BY <1>2, <1>4, <1>5, <1>6, <1>8, ConcatEmptySeq DEF Keeps
  <2>2. Whole(before)'
    BY <1>1, <2>1 DEF Whole
  <2>3. IsPrefix(Own(Due), Own(before \o given)) /\ Due' = Due
    <3>1. /\ IsPrefix(Due, before \o given) /\ Due \in Seq(ByteType)
          /\ before \o given \in Seq(ByteType)
      BY <1>1, CoveredType, ConcatProperties DEF TypeOK
    <3>2. QED
      BY <1>1, <3>1, OwnPrefix DEF Due
  <2>4. ~err => Own(file') = Own(before \o given)
    BY <1>1, <2>1 DEF Whole
  <2>5. ~err' => IsPrefix(Own(Due'), Own(file'))
    BY <1>1, <2>3, <2>4
  <2>6. phase' = "flushed" /\ run' >= 1 /\ ended' \in 0 .. Len(given')
    BY <1>1, <1>2, <1>8
  <2>7. QED
    BY <1>6, <1>7, <1>11, <2>2, <2>5, <2>6 DEF AuditInvariant
<1>9. CASE ~r.ok
  <2>1. phase' = "close failed" /\ run' >= 1
    BY <1>1, <1>2, <1>9
  <2>2. QED
    BY <1>6, <1>7, <1>11, <2>1 DEF AuditInvariant, Live, Closing
<1>10. QED
  BY <1>8, <1>9

\* The steps of close() after that, and of init(), leave the file as it is.
LEMMA OthersKeep ==
    ASSUME AuditInvariant, TakeErr \/ Measure \/ Hash \/ ReopenFails \/ Install
    PROVE  AuditInvariant' /\ IsPrefix(file, file')
<1>1. /\ TypeOK /\ file' = file /\ buffer' = buffer /\ run' = run
      /\ lines' = lines /\ given' = given /\ ended' = ended /\ before' = before
      /\ phase # "no process" /\ phase' # "no process" /\ phase' # "rejected"
      /\ run >= 1 /\ IsPrefix(before, file)
      /\ stray' = stray /\ alone' = alone /\ again' = again
  BY DEF TakeErr, Measure, Hash, ReopenFails, Install, history, another,
         AuditInvariant
<1>2. IsPrefix(file, file')
  BY <1>1, PrefixOfItself DEF TypeOK
<1>3. Due' = Due /\ Len(file) \in Nat
  BY <1>1, LenProperties DEF Due, TypeOK
<1>11. /\ IsPrefix(before', file') /\ run' >= 1
       /\ StrayOnly(stray)' /\ (alone' => stray' = <<>>)
  BY <1>1 DEF AuditInvariant, StrayOnly
<1>4. TypeOK'
  BY <1>1, <1>3
     DEF TypeOK, Closing, Closed, TakeErr, Measure, Hash, ReopenFails, Install
<1>5. CASE TakeErr
  <2>1. /\ phase = "flushed" /\ err' = FALSE
        /\ phase' = IF err THEN "close failed" ELSE "checked"
    BY <1>5 DEF TakeErr
  <2>2. ASSUME ~err
        PROVE  /\ Whole(before)' /\ ended \in 0 .. Len(given)
               /\ IsPrefix(Own(Due), Own(file))
    BY <1>1, <2>1, <2>2 DEF AuditInvariant, Live, Closing, Whole
  <2>3. QED
    BY <1>1, <1>2, <1>3, <1>4, <1>11, <2>1, <2>2 DEF AuditInvariant, Live, Closing
<1>6. CASE Measure
  <2>1. phase = "checked" /\ phase' = "measured" /\ measured' = Len(file) /\ err' = err
    BY <1>6 DEF Measure
  <2>2. /\ Whole(before)' /\ ended \in 0 .. Len(given)
        /\ IsPrefix(Own(Due), Own(file))
    BY <1>1, <2>1 DEF AuditInvariant, Live, Closing, Whole
  <2>3. QED
    BY <1>1, <1>2, <1>3, <1>4, <1>11, <2>1, <2>2 DEF AuditInvariant, Live, Closing
<1>7. CASE Hash
  <2>1. /\ phase = "measured" /\ phase' = "closed" /\ digest' = file /\ err' = err
        /\ measured' = measured
    BY <1>7 DEF Hash
  <2>2. /\ Whole(before)' /\ ended \in 0 .. Len(given)
        /\ IsPrefix(Own(Due), Own(file))
        /\ Len(given) = ended /\ alone => measured = Len(file)
    BY <1>1, <2>1 DEF AuditInvariant, Live, Closing, Whole
  <2>3. QED
    BY <1>1, <1>2, <1>3, <1>4, <1>11, <2>1, <2>2 DEF AuditInvariant, Live, Closing
<1>8. CASE ReopenFails
  <2>1. phase' = "close failed"
    BY <1>8 DEF ReopenFails
  <2>2. QED
    BY <1>1, <1>2, <1>4, <1>11, <2>1 DEF AuditInvariant, Live, Closing
<1>9. CASE Install
  <2>1. phase = "built" /\ phase' = "running" /\ err' = err
    BY <1>9 DEF Install
  <2>2. Whole(before)'
    BY <1>1, <2>1 DEF AuditInvariant, Live, Whole
  <2>3. QED
    BY <1>1, <1>2, <1>4, <1>11, <2>1, <2>2 DEF AuditInvariant, Live, Closing
<1>10. QED
  BY <1>5, <1>6, <1>7, <1>8, <1>9

\* A run that does not begin, one that init() turns away, and the end of one.
LEMMA NoRunKeeps ==
    ASSUME AuditInvariant, OpenFails \/ AlreadyInstalled \/ EndOfProcess
    PROVE  AuditInvariant' /\ IsPrefix(file, file')
<1>1. /\ file \in Seq(ByteType) /\ buffer \in Seq(ByteType)
      /\ Len(buffer) <= Capacity /\ TypeOK
  BY DEF AuditInvariant, TypeOK
<1>2. /\ <<>> \in Seq(ByteType) /\ Len(<<>>) <= Capacity /\ IsPrefix(file, file)
  BY <1>1, EmptySeq, PrefixOfItself, AuditAssumption
<1>3. CASE OpenFails
  <2>1. /\ phase = "no process" /\ phase' = phase /\ run' = run + 1 /\ run < MaxRuns
        /\ lines' = 0 /\ given' = <<>> /\ before' = file /\ ended' = Unknown
        /\ file' = file /\ buffer' = buffer /\ err' = err /\ measured' = measured
        /\ digest' = digest
        /\ stray' = stray /\ alone' = alone /\ again' = again
    BY <1>3 DEF OpenFails, another
  <2>2. run' \in 0 .. MaxRuns
    <3>1. run \in 0 .. MaxRuns /\ run < MaxRuns
      BY <1>1, <2>1 DEF TypeOK
    <3>2. run + 1 \in 0 .. MaxRuns
      BY <3>1, AuditAssumption
    <3>3. QED
      BY <2>1, <3>2
  <2>3. TypeOK'
    BY <1>1, <1>2, <2>1, <2>2 DEF TypeOK
  <2>4. QED
    BY <1>2, <2>1, <2>3 DEF AuditInvariant, Live, Closing, StrayOnly
<1>4. CASE AlreadyInstalled
  <2>1. /\ phase = "built" /\ phase' = "rejected" /\ buffer' = <<>> /\ err' = err
        /\ measured' = measured /\ digest' = digest /\ run' = run
        /\ lines' = lines /\ given' = given /\ ended' = ended /\ before' = before
    BY <1>4 DEF AlreadyInstalled, history
  <2>7. stray' = stray /\ alone' = alone /\ again' = again
    BY <1>4 DEF AlreadyInstalled, another
  <2>2. PICK r \in FlushBuffer(file, buffer) : file' = r.file
    BY <1>4 DEF AlreadyInstalled
  <2>3. Keeps(file, buffer, <<>>, r)
    BY <1>1, FlushKeeps
  <2>4. file' \in Seq(ByteType) /\ IsPrefix(file, file')
    BY <2>2, <2>3 DEF Keeps
  <2>5. TypeOK' /\ run' >= 1
    BY <1>1, <1>2, <2>1, <2>4, <2>7 DEF TypeOK, AuditInvariant
  <2>8. IsPrefix(before', file')
    <3>1. IsPrefix(before, file) /\ before \in Seq(ByteType)
      BY <1>1, <2>1 DEF AuditInvariant, TypeOK
    <3>2. IsPrefix(before, file')
      BY <1>1, <2>4, <3>1, PrefixOfPrefix
    <3>3. QED
      BY <2>1, <3>2
  <2>9. StrayOnly(stray)' /\ (alone' => stray' = <<>>)
    BY <2>7 DEF AuditInvariant, StrayOnly
  <2>6. QED
    BY <2>1, <2>4, <2>5, <2>8, <2>9 DEF AuditInvariant, Live, Closing
<1>5. CASE EndOfProcess
  <2>1. /\ phase' = "no process" /\ buffer' = <<>> /\ err' = FALSE
        /\ measured' = Unknown /\ digest' = <<>> /\ file' = file /\ run' = run
        /\ lines' = lines /\ given' = given /\ ended' = ended /\ before' = before
        /\ stray' = <<>> /\ alone' = TRUE /\ again' = again
    BY <1>5 DEF EndOfProcess, history
  <2>2. TypeOK'
    BY <1>1, <1>2, <2>1 DEF TypeOK
  <2>3. StrayOnly(<<>>)
    BY DEF StrayOnly
  <2>4. QED
    BY <1>2, <2>1, <2>2, <2>3 DEF AuditInvariant, Live, Closing, StrayOnly
<1>6. QED
  BY <1>3, <1>4, <1>5

\* What a step may do that puts bytes of an init called again behind the file.
StrayStep(x) ==
    /\ x \in Seq(ByteType) /\ StrayOnly(x) /\ file' = file \o x
    /\ StrayOnly(stray') /\ (alone' => stray' = <<>>)
    /\ alone' = FALSE
    /\ UNCHANGED <<buffer, err, phase, measured, digest, run, history>>

\* It changes nothing of the run's own.
LEMMA StrayStepKeeps ==
    ASSUME AuditInvariant, phase # "no process", NEW x, StrayStep(x), TypeOK'
    PROVE  AuditInvariant' /\ IsPrefix(file, file')
<1>1. /\ x \in Seq(ByteType) /\ StrayOnly(x) /\ file' = file \o x
      /\ StrayOnly(stray)' /\ (alone' => stray' = <<>>) /\ alone' = FALSE
      /\ buffer' = buffer /\ err' = err /\ phase' = phase /\ measured' = measured
      /\ digest' = digest /\ run' = run
      /\ lines' = lines /\ given' = given /\ ended' = ended /\ before' = before
  BY DEF StrayStep, history, StrayOnly
<1>2. /\ file \in Seq(ByteType) /\ buffer \in Seq(ByteType)
      /\ before \in Seq(ByteType) /\ file' \in Seq(ByteType)
  BY DEF AuditInvariant, TypeOK
<1>3. Own(file') = Own(file) /\ Own(file' \o buffer') = Own(file \o buffer)
  <2>1. /\ x \in Seq(ByteType) /\ StrayOnly(x)
        /\ file \in Seq(ByteType) /\ buffer \in Seq(ByteType)
    BY <1>1, <1>2
  <2>2. /\ Own(file \o x) = Own(file)
        /\ Own((file \o x) \o buffer) = Own(file \o buffer)
    BY <2>1, StrayBetween
  <2>3. QED
    BY <1>1, <2>2
<1>4. IsPrefix(file, file')
  BY <1>1, <1>2, PrefixOfConcat
<1>5. run' >= 1 /\ IsPrefix(before', file')
  <2>1. run >= 1 /\ IsPrefix(before, file)
    BY DEF AuditInvariant
  <2>2. IsPrefix(before, file')
    BY <1>2, <1>4, <2>1, PrefixOfPrefix
  <2>3. QED
    BY <1>1, <2>1, <2>2
<1>6. Due' = Due /\ (Whole(before)' <=> Whole(before))
  BY <1>1, <1>3 DEF Due, Whole
<1>7. QED
  BY <1>1, <1>3, <1>4, <1>5, <1>6 DEF AuditInvariant

\* What two sequences behind a third hold in a prefix is in the whole.
LEMMA TwoBehind ==
    ASSUME NEW f \in Seq(ByteType), NEW x \in Seq(ByteType),
           NEW b \in Seq(ByteType), NEW data \in Seq(ByteType)
    PROVE  IsPrefix((f \o x) \o b, f \o data) =>
              /\ Len(x \o b) <= Len(data)
              /\ \A i \in 1..Len(x \o b) : (x \o b)[i] = data[i]
<1>1. PICK y \in Seq(ByteType) : y = x \o b
  BY ConcatProperties
<1>2. (f \o x) \o b = f \o (x \o b)
  BY Associates, SMTT(30)
<1>3. IsPrefix(f \o y, f \o data) =>
         Len(y) <= Len(data) /\ \A i \in 1..Len(y) : y[i] = data[i]
  BY PrefixBehind
<1>4. QED
  BY <1>1, <1>2, <1>3

\* What a writer that began with an empty buffer, or one that holds a part of the
\* data, puts behind the file (it is g then), and what it keeps, are of the data.
LEMMA StrayParts ==
    ASSUME NEW f \in Seq(ByteType), NEW data \in Seq(ByteType), StrayOnly(data),
           NEW g \in Seq(ByteType), NEW b \in Seq(ByteType),
           IsPrefix(f, g), IsPrefix(g \o b, f \o data)
    PROVE  /\ \E x \in Seq(ByteType) : StrayOnly(x) /\ g = f \o x
           /\ StrayOnly(b)
<1>1. PICK x \in Seq(ByteType) : g = f \o x
  BY PrefixHasRest
<1>2. PICK y \in Seq(ByteType) : y = x \o b
  BY ConcatProperties
<1>3. IsPrefix((f \o x) \o b, f \o data)
  BY <1>1
<1>6. Len(y) <= Len(data) /\ \A i \in 1..Len(y) : y[i] = data[i]
  BY <1>2, <1>3, TwoBehind
<1>7. StrayOnly(y)
  <2>1. Len(y) \in Nat /\ Len(data) \in Nat
    BY LenProperties
  <2>2. \A i \in 1..Len(y) : i \in 1..Len(data)
    BY <1>6, <2>1
  <2>3. QED
    BY <1>6, <2>2 DEF StrayOnly
<1>8. /\ Len(y) = Len(x) + Len(b) /\ Len(x) \in Nat /\ Len(b) \in Nat
      /\ \A i \in 1..Len(x) : y[i] = x[i]
      /\ \A i \in 1..Len(b) : y[Len(x) + i] = b[i]
  BY <1>2, Behind, LenProperties
<1>9. StrayOnly(x)
  <2>1. \A i \in 1..Len(x) : i \in 1..Len(y)
    BY <1>8
  <2>2. QED
    BY <1>7, <1>8, <2>1 DEF StrayOnly
<1>10. StrayOnly(b)
  <2>1. \A i \in 1..Len(b) : Len(x) + i \in 1..Len(y)
    BY <1>8
  <2>2. QED
    BY <1>7, <1>8, <2>1 DEF StrayOnly
<1>11. QED
  BY <1>1, <1>9, <1>10

\* The line of an init that is called again is all such bytes.
LEMMA StrayLineIs ==
    ASSUME TypeOK, run >= 1, NEW size \in Sizes
    PROVE  /\ Body(StrayLine(size)) \in Seq(ByteType)
           /\ Newline(StrayLine(size)) \in Seq(ByteType)
           /\ Bytes(StrayLine(size)) \in Seq(ByteType)
           /\ StrayOnly(Bytes(StrayLine(size)))
<1>1. PICK line : line = StrayLine(size)
  OBVIOUS
<1>2. line.run = run /\ line.number = 0 /\ line.size = size
  BY <1>1 DEF StrayLine
<1>3. line.run \in 1 .. MaxRuns /\ line.number \in Nat /\ line.size \in Nat
  <2>1. run \in 0 .. MaxRuns
    BY DEF TypeOK
  <2>2. run \in 1 .. MaxRuns
    BY <2>1, AuditAssumption
  <2>3. QED
    BY <1>2, <2>2, AuditAssumption
<1>4. /\ Body(line) \in Seq(ByteType) /\ Newline(line) \in Seq(ByteType)
      /\ Bytes(line) \in Seq(ByteType)
  BY <1>3, LineBytes
<1>5. StrayOnly(Bytes(line))
  <2>1. PICK b, n, d : b = Body(line) /\ n = Newline(line) /\ d = Bytes(line)
    OBVIOUS
  <2>2. d = b \o n /\ b \in Seq(ByteType) /\ n \in Seq(ByteType)
    BY <1>4, <2>1 DEF Bytes
  <2>3. Len(b) = size /\ \A i \in 1..Len(b) : b[i][2] = 0
    BY <1>2, <1>3, <2>1 DEF Body
  <2>4. Len(n) = 1 /\ n[1][2] = 0
    BY <1>2, <2>1 DEF Newline
  <2>5. /\ Len(d) = Len(b) + Len(n) /\ Len(b) \in Nat
        /\ \A i \in 1..Len(b) : d[i] = b[i]
        /\ \A i \in 1..Len(n) : d[Len(b) + i] = n[i]
    BY <2>2, Behind, LenProperties
  <2>6. ASSUME NEW i \in 1..Len(d) PROVE d[i][2] = 0
    <3>1. CASE i \in 1..Len(b)
      BY <2>3, <2>5, <3>1
    <3>2. CASE i \notin 1..Len(b)
      <4>1. i = Len(b) + 1
        BY <2>4, <2>5, <3>2
      <4>2. d[Len(b) + 1] = n[1]
        BY <2>4, <2>5
      <4>3. QED
        BY <2>4, <4>1, <4>2
    <3>3. QED
      BY <3>1, <3>2
  <2>7. QED
    BY <2>1, <2>6 DEF StrayOnly
<1>6. QED
  BY <1>1, <1>4, <1>5

\* init called again, and refused.
LEMMA AgainKeeps ==
    ASSUME AuditInvariant,
           (\E size \in Sizes : BuildAgain(size)) \/ RefuseAgain
    PROVE  AuditInvariant' /\ IsPrefix(file, file')
<1>1. /\ TypeOK /\ file \in Seq(ByteType) /\ buffer \in Seq(ByteType)
      /\ stray \in Seq(ByteType) /\ Len(stray) <= Capacity /\ StrayOnly(stray)
      /\ <<>> \in Seq(ByteType) /\ Len(<<>>) <= Capacity
  <2>1. TypeOK /\ StrayOnly(stray)
    BY DEF AuditInvariant
  <2>2. /\ file \in Seq(ByteType) /\ buffer \in Seq(ByteType)
        /\ stray \in Seq(ByteType) /\ Len(stray) <= Capacity
    BY <2>1 DEF TypeOK
  <2>3. <<>> \in Seq(ByteType) /\ Len(<<>>) <= Capacity
    BY EmptySeq, AuditAssumption
  <2>4. QED
    BY <2>1, <2>2, <2>3
<1>2. ASSUME NEW size \in Sizes, BuildAgain(size)
      PROVE  AuditInvariant' /\ IsPrefix(file, file')
  <2>1. /\ phase # "no process" /\ again < MaxAgain
        /\ alone' = FALSE /\ again' = again + 1
        /\ UNCHANGED <<buffer, err, phase, measured, digest, run, history>>
    BY <1>2 DEF BuildAgain
  <2>2. PICK r \in WriteLine(file, <<>>, StrayLine(size)) :
           file' = r.file /\ stray' = r.buffer
    BY <1>2 DEF BuildAgain
  <2>3. run >= 1
    BY <2>1 DEF AuditInvariant
  <2>4. PICK data \in Seq(ByteType) :
           data = Bytes(StrayLine(size)) /\ StrayOnly(data)
    BY <1>1, <2>3, StrayLineIs
  <2>5. Keeps(file, <<>>, data, r)
    BY <1>1, <2>2, <2>3, <2>4, StrayLineIs, WriteLineKeeps
  <2>6. /\ r.file \in Seq(ByteType) /\ r.buffer \in Seq(ByteType)
        /\ Len(r.buffer) <= Capacity /\ IsPrefix(file, r.file)
        /\ IsPrefix(r.file \o r.buffer, file \o data)
    BY <1>1, <2>5, ConcatEmptySeq DEF Keeps
  <2>7. /\ \E x \in Seq(ByteType) : StrayOnly(x) /\ r.file = file \o x
        /\ StrayOnly(r.buffer)
    BY <1>1, <2>4, <2>6, StrayParts
  <2>8. PICK x \in Seq(ByteType) : StrayStep(x)
    BY <2>1, <2>2, <2>7 DEF StrayStep
  <2>9. again' \in 0..MaxAgain
    <3>1. again \in 0..MaxAgain /\ again < MaxAgain /\ MaxAgain \in Nat
      BY <1>1, <2>1, AuditAssumption DEF TypeOK
    <3>2. again + 1 \in 0..MaxAgain
      BY <3>1
    <3>3. QED
      BY <2>1, <3>2
  <2>10. TypeOK'
    BY <1>1, <2>1, <2>2, <2>6, <2>9 DEF TypeOK, history
  <2>11. QED
    BY <2>1, <2>8, <2>10, StrayStepKeeps
<1>3. CASE RefuseAgain
  <2>1. /\ phase # "no process" /\ stray # <<>> /\ stray' = <<>>
        /\ alone' = alone /\ again' = again
        /\ UNCHANGED <<buffer, err, phase, measured, digest, run, history>>
    BY <1>3 DEF RefuseAgain, history
  <2>2. PICK r \in FlushBuffer(file, stray) : file' = r.file
    BY <1>3 DEF RefuseAgain
  <2>3. alone' = FALSE
    <3>1. alone \in BOOLEAN /\ (alone => stray = <<>>)
      BY DEF AuditInvariant, TypeOK
    <3>2. QED
      BY <2>1, <3>1
  <2>4. Keeps(file, stray, <<>>, r)
    BY <1>1, <2>2, FlushKeeps
  <2>5. (file \o stray) \o <<>> = file \o stray
    BY <1>1, ConcatProperties, ConcatEmptySeq
  <2>6. /\ r.file \in Seq(ByteType) /\ r.buffer \in Seq(ByteType)
        /\ IsPrefix(file, r.file) /\ IsPrefix(r.file \o r.buffer, file \o stray)
    BY <2>4, <2>5 DEF Keeps
  <2>7. \E x \in Seq(ByteType) : StrayOnly(x) /\ r.file = file \o x
    BY <1>1, <2>6, StrayParts
  <2>8. StrayOnly(<<>>)
    BY DEF StrayOnly
  <2>9. PICK x \in Seq(ByteType) : StrayStep(x)
    BY <2>1, <2>2, <2>3, <2>7, <2>8 DEF StrayStep
  <2>10. TypeOK'
    BY <1>1, <2>1, <2>2, <2>6 DEF TypeOK, history
  <2>11. QED
    BY <2>1, <2>9, <2>10, StrayStepKeeps
<1>4. QED
  BY <1>2, <1>3
-----------------------------------------------------------------------------
\* The invariant holds at first.
LEMMA AuditStarts == Init => AuditInvariant
<1> SUFFICES ASSUME Init PROVE AuditInvariant
  OBVIOUS
<1>1. TypeOK
  <2>1. /\ <<>> \in Seq(ByteType) /\ Len(<<>>) <= Capacity
        /\ 0 \in 0 .. MaxRuns /\ 0 \in 0 .. MaxAgain
    BY EmptySeq, AuditAssumption
  <2>2. QED
    BY <2>1 DEF Init, TypeOK
<1>2. StrayOnly(stray) /\ phase = "no process" /\ stray = <<>>
  <2>1. StrayOnly(<<>>)
    BY DEF StrayOnly
  <2>2. QED
    BY <2>1 DEF Init
<1>3. QED
  BY <1>1, <1>2 DEF AuditInvariant, Live, Closing

\* And every step keeps it, and only lets the file grow.
LEMMA AuditSteps ==
    ASSUME AuditInvariant, [Next]_vars
    PROVE  AuditInvariant' /\ IsPrefix(file, file')
<1>1. ASSUME NEW size \in Sizes, Build(size) \/ Emit(size) \/ WriteRunEnd(size)
      PROVE  AuditInvariant' /\ IsPrefix(file, file')
  BY <1>1, BuildKeeps, EmitKeeps, RunEndKeeps
<1>2. CASE Done \/ UNCHANGED vars
  <2>1. /\ UNCHANGED <<file, buffer, err, phase, measured, digest, run>>
        /\ UNCHANGED <<lines, given, ended, before>>
        /\ UNCHANGED <<stray, alone, again>>
    BY <1>2 DEF Done, vars, history, another
  <2>2. TypeOK' /\ (Whole(before)' <=> Whole(before)) /\ Due' = Due
    BY <2>1 DEF AuditInvariant, TypeOK, Whole, Due
  <2>3. IsPrefix(file, file')
    BY <2>1, PrefixOfItself DEF AuditInvariant, TypeOK
  <2>4. QED
    BY <2>1, <2>2, <2>3 DEF AuditInvariant, StrayOnly
<1>3. QED
  BY <1>1, <1>2, FlushCovers, OthersKeep, NoRunKeeps, AgainKeeps DEF Next

\* The invariant holds in every state of every sequence of runs.
THEOREM AuditCorrect == Spec => []AuditInvariant
<1>1. AuditInvariant /\ [Next]_vars => AuditInvariant'
  BY AuditSteps
<1>2. QED
  BY <1>1, AuditStarts, PTL DEF Spec

\* The state keeps its type: the buffer never exceeds its capacity, and no byte is
\* left in it when no process has the file open (audit.rs:95-131).
THEOREM TypeCorrect == Spec => []TypeOK
<1>1. AuditInvariant => TypeOK
  BY DEF AuditInvariant
<1>2. QED
  BY <1>1, AuditCorrect, PTL

\* Until close() reports, the trail has no hole: what is in the file and the
\* buffer is what the run was given, cut only at the end (audit.rs:121-130).
THEOREM TrailHasNoHole == Spec => []NoHole
<1>1. AuditInvariant => NoHole
  BY DEF AuditInvariant, NoHole, Whole, Live
<1>2. QED
  BY <1>1, AuditCorrect, PTL

\* A digest that close() returns covers every line given before run_end, run_end
\* and the trail of the earlier runs (audit.rs:203-221).
THEOREM DigestCoversEverything == Spec => []DigestCoversTheRun
<1>1. AuditInvariant => DigestCoversTheRun
  BY DEF AuditInvariant, DigestCoversTheRun, Due
<1>2. QED
  BY <1>1, AuditCorrect, PTL

\* The digest and the length are those of the file, unless a line came after
\* run_end (audit.rs:213-220).
THEOREM DigestIsExact == Spec => []DigestExactWhenQuiet
<1>1. AuditInvariant => DigestExactWhenQuiet
  BY DEF AuditInvariant, DigestExactWhenQuiet
<1>2. QED
  BY <1>1, AuditCorrect, PTL

\* No run, and no failure in one, changes what is already in the file
\* (audit.rs:102-105).
THEOREM TrailOnlyGrows == Spec => AppendOnly
<1>1. AuditInvariant /\ [Next]_vars => [IsPrefix(file, file')]_vars
  BY AuditSteps
<1>2. QED
  BY <1>1, AuditCorrect, PTL DEF Spec, AppendOnly
=============================================================================
