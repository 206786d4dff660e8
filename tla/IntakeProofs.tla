---------------------------- MODULE IntakeProofs ----------------------------
(***************************************************************************)
(* What holds of an intake for every tree, every number of images and      *)
(* threads, every size and every request: libewf's objects are used by its *)
(* rules and none is left behind, reads are exact, and the walk lists what *)
(* can be reached.  What is about images is proved of EwfSource by itself, *)
(* and carries over to the intake of a collection.                         *)
(***************************************************************************)
EXTENDS Intake, OperatorProofs, SequenceTheorems

Stages == {"new", "begun", "globbed", "initialized", "opened", "sized", "live",
           "failed", "dropped"}
Turns == {"begin", "locking", "locked", "reading", "ok", "error"}
Reading == [at : Turns, path : Images, want : Requests, got : Seq(Images \X Int)]

Image == [at : Stages, names : {"none", "held", "freed"},
          handle : {"none", "closed", "open", "freed"}, position : Int]

EwfType ==
    /\ ewf \in [Images -> Image]
    /\ lock \in [Images -> Threads \cup {Main}]
    /\ refs \in [Images -> SUBSET (Threads \cup {Main})]
    /\ reader \in [Threads -> {Idle} \cup Reading]

\* How far an image is opened says what libewf holds for it.
Accounted(e) ==
    /\ e.at \in {"new", "begun"} => e.names = "none" /\ e.handle = "none"
    /\ e.at = "globbed" => e.names = "held" /\ e.handle = "none"
    /\ e.at = "initialized" => e.names = "held" /\ e.handle = "closed"
    /\ e.at \in {"opened", "sized", "live"} =>
          e.names = "freed" /\ e.handle = "open"
    /\ e.at \in {"failed", "dropped"} =>
          e.names # "held" /\ e.handle \in {"none", "freed"}

\* A thread that reads holds the source it reads from, and the mutex while it is
\* in the library; what it has so far is the beginning of what it wants.
Sound(t) ==
    LET p == reader[t].path
    IN  /\ t \in refs[p]
        /\ reader[t].at \in {"locked", "reading"} => lock[p] = t
        /\ reader[t].at = "reading" => ewf[p].position = Offset(t)
        /\ reader[t].got = Media(p, reader[t].want.offset, Len(reader[t].got))
        /\ reader[t].at = "ok" => Len(reader[t].got) = reader[t].want.n

\* The inductive invariant.
EwfInvariant ==
    /\ EwfType
    /\ misused = {}
    /\ \A p \in Images :
          Accounted(ewf[p]) /\ (ewf[p].at = "live" <=> refs[p] # {})
    /\ \A t \in Threads : reader[t] # Idle => Sound(t)
-----------------------------------------------------------------------------
\* What is read at the end of what was read before is more of the same.
LEMMA MediaExtends ==
    ASSUME NEW p, NEW offset \in Int, NEW k \in Nat, NEW m \in Nat
    PROVE  Media(p, offset, k) \o Media(p, offset + k, m) = Media(p, offset, k + m)
<1> DEFINE a == Media(p, offset, k)
           b == Media(p, offset + k, m)
           c == Media(p, offset, k + m)
<1>1. a \in Seq({p} \X Int) /\ b \in Seq({p} \X Int) /\ c \in Seq({p} \X Int)
  BY DEF Media
<1>2. Len(a) = k /\ Len(b) = m /\ Len(c) = k + m
  BY DEF Media
<1>3. \A i \in 1 .. k + m : (a \o b)[i] = c[i]
  BY <1>1, <1>2 DEF Media
<1>4. a \o b \in Seq({p} \X Int) /\ Len(a \o b) = k + m
  <2> HIDE DEF a, b
  <2>1. QED
    BY <1>1, <1>2
<1>5. QED
  <2> HIDE DEF a, b, c
  <2>1. a \o b = c
    BY <1>1, <1>2, <1>3, <1>4, SeqEqual
  <2>2. QED
    BY <2>1 DEF a, b, c

\* The least of two integers is one of them and no greater than the other.
LEMMA MinOfTwo ==
    ASSUME NEW a \in Int, NEW b \in Int
    PROVE  Min({a, b}) \in {a, b} /\ Min({a, b}) <= a /\ Min({a, b}) <= b
<1>1. \E x \in {a, b} : \A y \in {a, b} : x =< y
  OBVIOUS
<1>2. QED
  BY <1>1 DEF Min
-----------------------------------------------------------------------------
\* Setting the state of one image.
LEMMA SetsOne ==
    ASSUME NEW p \in Images, NEW e, ewf \in [Images -> Image],
           ewf' = [ewf EXCEPT ![p] = e]
    PROVE  ewf'[p] = e /\ ewf' = [ewf EXCEPT ![p] = ewf'[p]]
<1>1. ewf'[p] = e
  OBVIOUS
<1>2. QED
  BY <1>1

\* The calls open makes before there is a source: nobody can read from it yet, so
\* what they change of one image concerns no reader and no other image.
LEMMA OpenBegins ==
    ASSUME EwfInvariant, NEW p \in Images,
           \/ Begin(p) \/ Glob(p) \/ Initialize(p) \/ OpenHandle(p)
           \/ GetMediaSize(p)
    PROVE  EwfInvariant'
<1>1. /\ ewf \in [Images -> Image] /\ ewf[p] \in Image
      /\ Accounted(ewf[p]) /\ misused = {}
  BY DEF EwfInvariant, EwfType
<1>2. /\ ewf' = [ewf EXCEPT ![p] = ewf'[p]] /\ ewf'[p] \in Image
      /\ misused' = {} /\ ewf[p].at # "live" /\ ewf'[p].at # "live"
      /\ Accounted(ewf'[p])
  <2>1. CASE Begin(p)
    <3>1. PICK e \in {[ewf[p] EXCEPT !.at = "begun"]} :
                        ewf' = [ewf EXCEPT ![p] = e]
      BY <2>1 DEF Begin
    <3>2. /\ ewf[p].at # "live" /\ e.at # "live" /\ e \in Image /\ Accounted(e)
      BY <1>1, <2>1, <3>1 DEF Begin, Accounted, Image, Stages
    <3>3. misused' = {}
      BY <1>1, <2>1 DEF Begin, Accounted
    <3>4. QED
      BY <1>1, <3>1, <3>2, <3>3, SetsOne
  <2>2. CASE Glob(p)
    <3>1. PICK e \in {[ewf[p] EXCEPT !.at = "globbed", !.names = "held"],
                      [ewf[p] EXCEPT !.at = "failed"]} :
                        ewf' = [ewf EXCEPT ![p] = e]
      BY <2>2 DEF Glob, Call
    <3>2. /\ ewf[p].at # "live" /\ e.at # "live" /\ e \in Image /\ Accounted(e)
      BY <1>1, <2>2, <3>1 DEF Glob, Accounted, Image, Stages
    <3>3. misused' = {}
      BY <1>1, <2>2 DEF Glob, Accounted, Call
    <3>4. QED
      BY <1>1, <3>1, <3>2, <3>3, SetsOne
  <2>3. CASE Initialize(p)
    <3>1. PICK e \in {[ewf[p] EXCEPT !.at = "initialized", !.handle = "closed"],
                      [ewf[p] EXCEPT !.at = "failed", !.names = "freed"]} :
                        ewf' = [ewf EXCEPT ![p] = e]
      BY <2>3 DEF Initialize, Call
    <3>2. /\ ewf[p].at # "live" /\ e.at # "live" /\ e \in Image /\ Accounted(e)
      BY <1>1, <2>3, <3>1 DEF Initialize, Accounted, Image, Stages
    <3>3. misused' = {}
      BY <1>1, <2>3 DEF Initialize, Accounted, Call
    <3>4. QED
      BY <1>1, <3>1, <3>2, <3>3, SetsOne
  <2>4. CASE OpenHandle(p)
    <3>1. PICK e \in {[ewf[p] EXCEPT !.at = "opened", !.names = "freed",
                                     !.handle = "open"],
                      [ewf[p] EXCEPT !.at = "failed", !.names = "freed",
                                     !.handle = "freed"]} :
                        ewf' = [ewf EXCEPT ![p] = e]
      BY <2>4 DEF OpenHandle, Call
    <3>2. /\ ewf[p].at # "live" /\ e.at # "live" /\ e \in Image /\ Accounted(e)
      BY <1>1, <2>4, <3>1 DEF OpenHandle, Accounted, Image, Stages
    <3>3. misused' = {}
      BY <1>1, <2>4 DEF OpenHandle, Accounted, Call
    <3>4. QED
      BY <1>1, <3>1, <3>2, <3>3, SetsOne
  <2>5. CASE GetMediaSize(p)
    <3>1. PICK e \in {[ewf[p] EXCEPT !.at = "sized"],
                      [ewf[p] EXCEPT !.at = "failed", !.handle = "freed"]} :
                        ewf' = [ewf EXCEPT ![p] = e]
      BY <2>5 DEF GetMediaSize, Call
    <3>2. /\ ewf[p].at # "live" /\ e.at # "live" /\ e \in Image /\ Accounted(e)
      BY <1>1, <2>5, <3>1 DEF GetMediaSize, Accounted, Image, Stages
    <3>3. misused' = {}
      BY <1>1, <2>5 DEF GetMediaSize, Accounted, Call
    <3>4. QED
      BY <1>1, <3>1, <3>2, <3>3, SetsOne
  <2>6. QED
    BY <2>1, <2>2, <2>3, <2>4, <2>5
<1>3. UNCHANGED <<lock, refs, reader>>
  BY DEF Begin, Glob, Initialize, OpenHandle, GetMediaSize
<1>4. EwfType' /\ misused' = {}
  BY <1>2, <1>3 DEF EwfInvariant, EwfType
<1>5. ASSUME NEW q \in Images
      PROVE  Accounted(ewf'[q]) /\ (ewf'[q].at = "live" <=> refs'[q] # {})
  <2>1. CASE q = p
    BY <1>2, <1>3, <2>1 DEF EwfInvariant
  <2>2. CASE q # p
    <3>1. ewf'[q] = ewf[q]
      BY <1>1, <1>2, <2>2
    <3>2. QED
      BY <1>3, <3>1 DEF EwfInvariant
  <2>3. QED
    BY <2>1, <2>2
<1>6. ASSUME NEW t \in Threads, reader'[t] # Idle PROVE Sound(t)'
  <2>1. reader[t] \in Reading /\ Sound(t)
    BY <1>3, <1>6 DEF EwfInvariant, EwfType
  <2>2. reader[t].path \in Images /\ ewf[reader[t].path].at = "live"
    BY <2>1 DEF EwfInvariant, Sound, Reading
  <2>3. ewf'[reader[t].path] = ewf[reader[t].path]
    BY <1>1, <1>2, <2>2
  <2>4. QED
    BY <1>3, <2>1, <2>3 DEF Sound, Offset, Media
<1>7. QED
  BY <1>4, <1>5, <1>6 DEF EwfInvariant

\* A reader that did nothing is as well as before, as long as it keeps the source
\* and what the mutex protects for it.
LEMMA SoundKept ==
    ASSUME NEW t \in Threads, Sound(t), reader'[t] = reader[t],
           t \in refs'[reader[t].path],
           reader[t].at \in {"locked", "reading"} =>
               /\ lock'[reader[t].path] = lock[reader[t].path]
               /\ ewf'[reader[t].path].position = ewf[reader[t].path].position
    PROVE  Sound(t)'
  BY DEF Sound, Offset, Media

\* The mutex of an image is held by one reader at most.
LEMMA OneInTheLibrary ==
    ASSUME EwfInvariant, NEW t \in Threads, NEW u \in Threads,
           reader[t].at \in {"locked", "reading"},
           reader[u].at \in {"locked", "reading"},
           reader[t].path = reader[u].path
    PROVE  t = u
<1>1. Sound(t) /\ Sound(u)
  BY DEF EwfInvariant, Idle
<1>2. QED
  BY <1>1 DEF Sound

\* open succeeds: the source is its opener's, and no reader has it yet.
LEMMA OpenEnds ==
    ASSUME EwfInvariant, NEW p \in Images, GetHashes(p)
    PROVE  EwfInvariant'
<1>1. /\ ewf \in [Images -> Image] /\ ewf[p] \in Image
      /\ Accounted(ewf[p]) /\ misused = {} /\ ewf[p].at = "sized"
      /\ refs[p] = {}
  BY DEF EwfInvariant, EwfType, GetHashes
<1>2. PICK e : e = [ewf[p] EXCEPT !.at = "live"]
  OBVIOUS
<1>3. /\ ewf' = [ewf EXCEPT ![p] = e] /\ misused' = {}
      /\ refs' = [refs EXCEPT ![p] = {Main}] /\ UNCHANGED <<lock, reader>>
  BY <1>1, <1>2 DEF GetHashes, Call, Accounted
<1>4. e \in Image /\ Accounted(e) /\ e.at = "live"
  BY <1>1, <1>2 DEF Accounted, Image, Stages
<1>5. EwfType' /\ misused' = {}
  BY <1>3, <1>4 DEF EwfInvariant, EwfType
<1>6. ASSUME NEW q \in Images
      PROVE  Accounted(ewf'[q]) /\ (ewf'[q].at = "live" <=> refs'[q] # {})
  BY <1>1, <1>3, <1>4 DEF EwfInvariant, EwfType
<1>7. ASSUME NEW t \in Threads, reader'[t] # Idle PROVE Sound(t)'
  <2>1. reader[t] \in Reading /\ Sound(t) /\ reader'[t] = reader[t]
    BY <1>3, <1>7 DEF EwfInvariant, EwfType
  <2>2. reader[t].path \in Images \ {p}
    BY <1>1, <2>1 DEF Sound, Reading
  <2>3. QED
    BY <1>1, <1>3, <2>1, <2>2, SoundKept DEF Sound, EwfInvariant, EwfType
<1>8. QED
  BY <1>5, <1>6, <1>7 DEF EwfInvariant

\* A read begins with nothing, on a source its opener still has.
LEMMA ReadBegins ==
    ASSUME EwfInvariant, NEW t \in Threads, NEW p \in Images,
           NEW r \in Requests, StartRead(t, p, r)
    PROVE  EwfInvariant'
<1>1. PICK new : new = [at |-> "begin", path |-> p, want |-> r, got |-> <<>>]
  OBVIOUS
<1>2. /\ reader' = [reader EXCEPT ![t] = new]
      /\ refs' = [refs EXCEPT ![p] = @ \cup {t}]
      /\ UNCHANGED <<ewf, lock, misused>> /\ Main \in refs[p]
  BY <1>1 DEF StartRead, Turn
<1>3. new \in Reading
  BY <1>1 DEF Reading, Turns
<1>4. EwfType' /\ misused' = {}
  BY <1>2, <1>3 DEF EwfInvariant, EwfType
<1>5. ASSUME NEW q \in Images
      PROVE  Accounted(ewf'[q]) /\ (ewf'[q].at = "live" <=> refs'[q] # {})
  BY <1>2 DEF EwfInvariant, EwfType
<1>6. ASSUME NEW u \in Threads, reader'[u] # Idle PROVE Sound(u)'
  <2>1. CASE u = t
    <3>1. reader'[u] = new /\ u \in refs'[p]
      BY <1>2, <2>1 DEF EwfInvariant, EwfType
    <3>2. QED
      BY <1>1, <3>1, EwfAssumption DEF Sound, Media
  <2>2. CASE u # t
    <3>1. reader[u] \in Reading /\ Sound(u) /\ reader'[u] = reader[u]
      BY <1>2, <1>6, <2>2 DEF EwfInvariant, EwfType
    <3>2. QED
      BY <1>2, <3>1, SoundKept DEF Sound, EwfInvariant, EwfType, Reading
  <2>3. QED
    BY <2>1, <2>2
<1>7. QED
  BY <1>4, <1>5, <1>6 DEF EwfInvariant

\* What is left of the image bounds how much is read of it.
LEMMA AmountType ==
    ASSUME EwfInvariant, NEW t \in Threads, reader[t] # Idle
    PROVE  /\ reader[t] \in Reading /\ reader[t].path \in Images
           /\ Offset(t) \in Nat /\ Left(t) \in Int /\ Amount(t) \in Int
<1>1. reader[t] \in Reading
  BY DEF EwfInvariant, EwfType
<1>2. Len(reader[t].got) \in Nat /\ reader[t].want \in Requests
  BY <1>1 DEF Reading
<1>3. reader[t].want.offset \in Nat /\ reader[t].want.n \in Nat
  BY <1>2, EwfAssumption
<1>4. Offset(t) \in Nat /\ Left(t) \in Int
  BY <1>2, <1>3 DEF Offset, Left
<1>5. Amount(t) \in Int
  <2>1. MediaSize - Offset(t) \in Int
    BY <1>4, EwfAssumption
  <2>2. Min({Left(t), MediaSize - Offset(t)}) \in {Left(t), MediaSize - Offset(t)}
    BY <1>4, <2>1, MinOfTwo
  <2>3. QED
    BY <1>4, <2>1, <2>2 DEF Amount
<1>6. QED
  BY <1>1, <1>4, <1>5 DEF Reading

\* The turns of a reader that change nothing but itself, and the mutex it takes.
LEMMA ReadGoesOn ==
    ASSUME EwfInvariant, NEW t \in Threads, Bounds(t) \/ Lock(t)
    PROVE  EwfInvariant'
<1> DEFINE p == reader[t].path
<1>1. /\ reader[t] # Idle /\ reader[t] \in Reading /\ p \in Images /\ Sound(t)
      /\ reader[t].at \in {"begin", "locking"}
      /\ Left(t) \in Int
  BY AmountType DEF Bounds, Lock, Idle, EwfInvariant
<1>2. PICK how \in Turns :
         /\ reader' = [reader EXCEPT ![t] = [reader[t] EXCEPT !.at = how]]
         /\ how # "reading"
         /\ how = "ok" => Left(t) = 0
         /\ how = "locked" => lock[p] = Main /\ lock' = [lock EXCEPT ![p] = t]
         /\ how # "locked" => lock' = lock
  BY <1>1 DEF Bounds, Lock, Answer, Turn, Turns
<1>3. UNCHANGED <<ewf, refs, misused>>
  BY DEF Bounds, Lock
<1>4. [reader[t] EXCEPT !.at = how] \in Reading
  BY <1>1, <1>2 DEF Reading
<1>5. EwfType' /\ misused' = {}
  BY <1>1, <1>2, <1>3, <1>4 DEF EwfInvariant, EwfType
<1>6. ASSUME NEW q \in Images
      PROVE  Accounted(ewf'[q]) /\ (ewf'[q].at = "live" <=> refs'[q] # {})
  BY <1>3 DEF EwfInvariant
<1>7. ASSUME NEW u \in Threads, reader'[u] # Idle PROVE Sound(u)'
  <2>1. CASE u = t
    <3>1. /\ reader'[t].at = how /\ reader'[t].path = p
          /\ reader'[t].want = reader[t].want /\ reader'[t].got = reader[t].got
      BY <1>1, <1>2 DEF EwfInvariant, EwfType, Reading
    <3>2. reader'[t].at = "ok" => Len(reader[t].got) = reader[t].want.n
      <4>1. Len(reader[t].got) \in Nat /\ reader[t].want.n \in Nat
        BY <1>1, EwfAssumption DEF Reading
      <4>2. QED
        BY <1>2, <3>1, <4>1 DEF Left
    <3>3. how = "locked" => lock'[p] = t
      BY <1>1, <1>2 DEF EwfInvariant, EwfType
    <3>4. QED
      BY <1>1, <1>2, <1>3, <2>1, <3>1, <3>2, <3>3 DEF Sound, Media
  <2>2. CASE u # t
    <3>1. reader[u] \in Reading /\ Sound(u) /\ reader'[u] = reader[u]
      BY <1>2, <1>7, <2>2 DEF EwfInvariant, EwfType
    <3>2. reader[u].at \in {"locked", "reading"} =>
             lock'[reader[u].path] = lock[reader[u].path]
      BY <1>1, <1>2, <3>1, EwfAssumption DEF Sound, EwfInvariant, EwfType, Reading
    <3>3. QED
      BY <1>3, <3>1, <3>2, SoundKept DEF Sound
  <2>3. QED
    BY <2>1, <2>2
<1>8. QED
  BY <1>5, <1>6, <1>7 DEF EwfInvariant

\* In the library, going to the offset: who has the mutex is the only one there.
LEMMA SeekIsPrivate ==
    ASSUME EwfInvariant, NEW t \in Threads, Seek(t)
    PROVE  EwfInvariant'
<1> DEFINE p == reader[t].path
<1>1. /\ reader[t] \in Reading /\ p \in Images /\ Sound(t)
      /\ reader[t].at = "locked" /\ Offset(t) \in Nat
  BY AmountType DEF Seek, Idle, EwfInvariant
<1>2. ewf[p] \in Image /\ ewf[p].at = "live" /\ ewf[p].handle = "open"
  BY <1>1 DEF EwfInvariant, EwfType, Sound, Accounted
<1>3. PICK e : e = [ewf[p] EXCEPT !.position = Offset(t)]
  OBVIOUS
<1>4. /\ ewf' = [ewf EXCEPT ![p] = e] /\ misused' = {}
      /\ reader' = [reader EXCEPT ![t] = [reader[t] EXCEPT !.at = "reading"]]
      /\ UNCHANGED <<lock, refs>>
  BY <1>2, <1>3 DEF Seek, Call, Answer, Turn, EwfInvariant
<1>5. /\ e \in Image /\ e.position = Offset(t)
      /\ e.at = ewf[p].at /\ e.names = ewf[p].names /\ e.handle = ewf[p].handle
  BY <1>1, <1>2, <1>3 DEF Image
<1>6. [reader[t] EXCEPT !.at = "reading"] \in Reading
  BY <1>1 DEF Reading, Turns
<1>7. EwfType' /\ misused' = {}
  BY <1>1, <1>4, <1>5, <1>6 DEF EwfInvariant, EwfType
<1>8. ASSUME NEW q \in Images
      PROVE  Accounted(ewf'[q]) /\ (ewf'[q].at = "live" <=> refs'[q] # {})
  <2>1. CASE q = p
    BY <1>1, <1>4, <1>5, <2>1 DEF EwfInvariant, EwfType, Accounted
  <2>2. CASE q # p
    BY <1>1, <1>4, <2>2 DEF EwfInvariant, EwfType
  <2>3. QED
    BY <2>1, <2>2
<1>9. ASSUME NEW u \in Threads, reader'[u] # Idle PROVE Sound(u)'
  <2>1. CASE u = t
    <3>1. /\ reader'[t].at = "reading" /\ reader'[t].path = p
          /\ reader'[t].want = reader[t].want /\ reader'[t].got = reader[t].got
      BY <1>1, <1>4 DEF EwfInvariant, EwfType, Reading
    <3>2. ewf'[p].position = Offset(t)
      BY <1>1, <1>4, <1>5 DEF EwfInvariant, EwfType
    <3>3. QED
      BY <1>1, <1>4, <2>1, <3>1, <3>2 DEF Sound, Media, Offset
  <2>2. CASE u # t
    <3>1. reader[u] \in Reading /\ Sound(u) /\ reader'[u] = reader[u]
      BY <1>4, <1>9, <2>2 DEF EwfInvariant, EwfType
    <3>2. CASE reader[u].at \in {"locked", "reading"}
      <4>1. reader[u].path \in Images \ {p}
        BY <1>1, <2>2, <3>1, <3>2, OneInTheLibrary DEF Reading
      <4>2. ewf'[reader[u].path] = ewf[reader[u].path]
        BY <1>4, <4>1 DEF EwfInvariant, EwfType
      <4>3. QED
        BY <1>4, <3>1, <4>2, SoundKept DEF Sound
    <3>3. CASE reader[u].at \notin {"locked", "reading"}
      BY <1>4, <3>1, <3>3, SoundKept DEF Sound
    <3>4. QED
      BY <3>2, <3>3
  <2>3. QED
    BY <2>1, <2>2
<1>10. QED
  BY <1>7, <1>8, <1>9 DEF EwfInvariant

\* In the library, reading: nobody has moved the position since it was set, so
\* what comes is what follows on what the reader has.
LEMMA ReadIsExact ==
    ASSUME EwfInvariant, NEW t \in Threads, ReadRandom(t)
    PROVE  EwfInvariant'
<1> DEFINE p == reader[t].path
<1>1. /\ reader[t] \in Reading /\ p \in Images /\ Sound(t)
      /\ reader[t].at = "reading" /\ Offset(t) \in Nat /\ Amount(t) \in Int
  <2>1. reader[t].at = "reading"
    BY DEF ReadRandom
  <2>2. reader[t] # Idle
    BY <2>1 DEF Idle
  <2>3. QED
    BY <2>1, <2>2, AmountType DEF EwfInvariant
<1>2. /\ ewf[p] \in Image /\ ewf[p].handle = "open"
      /\ ewf[p].position = Offset(t) /\ lock[p] = t
  BY <1>1 DEF EwfInvariant, EwfType, Sound, Accounted
<1>3. /\ ewf' = ewf /\ misused' = {} /\ UNCHANGED refs
      /\ lock' = [lock EXCEPT ![p] = Main]
  BY <1>1, <1>2 DEF ReadRandom, Call, EwfInvariant, EwfType
<1>4. PICK how \in {"error", "begin"}, got \in Seq(Images \X Int) :
         /\ reader' = [reader EXCEPT ![t] =
                          [reader[t] EXCEPT !.at = how, !.got = got]]
         /\ got = Media(p, reader[t].want.offset, Len(got))
  <2>1. CASE Answer(t, "error")
    <3>1. [reader[t] EXCEPT !.at = "error"] =
             [reader[t] EXCEPT !.at = "error", !.got = reader[t].got]
      BY <1>1 DEF Reading
    <3>2. QED
      BY <1>1, <2>1, <3>1 DEF Answer, Turn, Reading, Sound
  <2>2. CASE \E m \in 0..Amount(t) :
                Turn(t, [reader[t] EXCEPT
                            !.at = AfterRead(m),
                            !.got = @ \o Media(p, ewf[p].position, m)])
    <3>1. PICK m \in 0..Amount(t) :
             Turn(t, [reader[t] EXCEPT
                         !.at = AfterRead(m),
                         !.got = @ \o Media(p, ewf[p].position, m)])
      BY <2>2
    <3>2. PICK k : k = Len(reader[t].got)
      OBVIOUS
    <3>3. PICK from : from = reader[t].want.offset
      OBVIOUS
    <3>4. m \in Nat /\ k \in Nat /\ from \in Int
      BY <1>1, <3>2, <3>3, EwfAssumption DEF Reading
    <3>5. PICK got : got = Media(p, from, k + m)
      OBVIOUS
    <3>6. reader[t].got \o Media(p, ewf[p].position, m) = got
      <4>1. reader[t].got = Media(p, from, k)
        BY <1>1, <3>2, <3>3 DEF Sound
      <4>2. ewf[p].position = from + k
        BY <1>2, <3>2, <3>3 DEF Offset
      <4>3. QED
        BY <3>4, <3>5, <4>1, <4>2, MediaExtends
    <3>7. got \in Seq(Images \X Int) /\ Len(got) = k + m
      BY <1>1, <3>4, <3>5 DEF Media
    <3>8. AfterRead(m) \in {"error", "begin"}
      BY DEF AfterRead
    <3>9. QED
      BY <3>1, <3>3, <3>5, <3>6, <3>7, <3>8 DEF Turn
  <2>3. QED
    BY <2>1, <2>2 DEF ReadRandom
<1>5. [reader[t] EXCEPT !.at = how, !.got = got] \in Reading
  BY <1>1 DEF Reading, Turns
<1>6. EwfType' /\ misused' = {}
  BY <1>1, <1>3, <1>4, <1>5 DEF EwfInvariant, EwfType
<1>7. ASSUME NEW q \in Images
      PROVE  Accounted(ewf'[q]) /\ (ewf'[q].at = "live" <=> refs'[q] # {})
  BY <1>3 DEF EwfInvariant
<1>8. ASSUME NEW u \in Threads, reader'[u] # Idle PROVE Sound(u)'
  <2>1. CASE u = t
    <3>1. /\ reader'[t].at = how /\ reader'[t].path = p
          /\ reader'[t].want = reader[t].want /\ reader'[t].got = got
      BY <1>1, <1>4 DEF EwfInvariant, EwfType, Reading
    <3>2. reader'[t].got = Media(p, reader'[t].want.offset, Len(reader'[t].got))
      BY <1>4, <3>1
    <3>3. t \in refs'[p] /\ how \notin {"locked", "reading", "ok"}
      BY <1>1, <1>3 DEF Sound
    <3>4. QED
      BY <2>1, <3>1, <3>2, <3>3 DEF Sound
  <2>2. CASE u # t
    <3>1. reader[u] \in Reading /\ Sound(u) /\ reader'[u] = reader[u]
      BY <1>4, <1>8, <2>2 DEF EwfInvariant, EwfType
    <3>2. CASE reader[u].at \in {"locked", "reading"}
      <4>1. reader[u].path \in Images \ {p}
        BY <1>1, <2>2, <3>1, <3>2, OneInTheLibrary DEF Reading
      <4>2. lock'[reader[u].path] = lock[reader[u].path]
        BY <1>3, <4>1 DEF EwfInvariant, EwfType
      <4>3. QED
        BY <1>3, <3>1, <4>2, SoundKept DEF Sound
    <3>3. CASE reader[u].at \notin {"locked", "reading"}
      BY <1>3, <3>1, <3>3, SoundKept DEF Sound
    <3>4. QED
      BY <3>2, <3>3
  <2>3. QED
    BY <2>1, <2>2
<1>9. QED
  BY <1>6, <1>7, <1>8 DEF EwfInvariant

\* The last holder is no reader, and so nobody is in the library when the handle
\* is closed.
LEMMA ReleaseIsSafe ==
    ASSUME EwfInvariant, NEW p \in Images, NEW holder \in Threads \cup {Main},
           Release(p, holder)
    PROVE  EwfInvariant'
<1>1. /\ refs' = [refs EXCEPT ![p] = @ \ {holder}] /\ holder \in refs[p]
      /\ UNCHANGED lock
      /\ reader' = IF holder = Main THEN reader
                    ELSE [reader EXCEPT ![holder] = Idle]
  BY DEF Release
<1>2. /\ ewf[p] \in Image /\ ewf[p].at = "live" /\ ewf[p].handle = "open"
      /\ ewf[p].names = "freed"
  BY <1>1 DEF EwfInvariant, EwfType, Accounted
<1>3. PICK e : e = IF refs[p] = {holder}
                   THEN [ewf[p] EXCEPT !.at = "dropped", !.handle = "freed"]
                   ELSE ewf[p]
  OBVIOUS
<1>4. ewf' = [ewf EXCEPT ![p] = e] /\ misused' = {}
  BY <1>2, <1>3 DEF Release, Call, EwfInvariant, EwfType
<1>5. e \in Image /\ Accounted(e) /\ (e.at = "live" <=> refs[p] # {holder})
  BY <1>2, <1>3 DEF EwfInvariant, Accounted, Image, Stages
<1>6. EwfType' /\ misused' = {}
  BY <1>1, <1>4, <1>5 DEF EwfInvariant, EwfType
<1>7. ASSUME NEW q \in Images
      PROVE  Accounted(ewf'[q]) /\ (ewf'[q].at = "live" <=> refs'[q] # {})
  <2>1. CASE q = p
    BY <1>1, <1>4, <1>5, <2>1 DEF EwfInvariant, EwfType
  <2>2. CASE q # p
    BY <1>1, <1>4, <2>2 DEF EwfInvariant, EwfType
  <2>3. QED
    BY <2>1, <2>2
<1>8. ASSUME NEW u \in Threads, reader'[u] # Idle PROVE Sound(u)'
  <2>1. u # holder
    BY <1>1, <1>8, EwfAssumption DEF EwfInvariant, EwfType
  <2>2. reader[u] \in Reading /\ Sound(u) /\ reader'[u] = reader[u]
    BY <1>1, <1>8, <2>1 DEF EwfInvariant, EwfType
  <2>3. u \in refs[reader[u].path] /\ reader[u].path \in Images
    BY <2>2 DEF Sound, Reading
  <2>4. u \in refs'[reader[u].path]
    BY <1>1, <2>1, <2>3 DEF EwfInvariant, EwfType
  <2>5. ewf'[reader[u].path].position = ewf[reader[u].path].position
    BY <1>2, <1>3, <1>4, <2>3 DEF EwfInvariant, EwfType, Image
  <2>6. QED
    BY <1>1, <2>2, <2>4, <2>5, SoundKept
<1>9. QED
  BY <1>6, <1>7, <1>8 DEF EwfInvariant
-----------------------------------------------------------------------------
\* The invariant holds at first.
LEMMA EwfStarts == EwfInit => EwfInvariant
<1> SUFFICES ASSUME EwfInit PROVE EwfInvariant
  OBVIOUS
<1>1. EwfType
  BY DEF EwfInit, EwfType, Image, Stages
<1>2. QED
  BY <1>1 DEF EwfInit, EwfInvariant, Accounted

\* And every step keeps it.
LEMMA EwfSteps == EwfInvariant /\ [EwfNext]_image => EwfInvariant'
<1> SUFFICES ASSUME EwfInvariant, [EwfNext]_image PROVE EwfInvariant'
  OBVIOUS
<1>1. ASSUME NEW p \in Images, Begin(p) \/ OpenEwf(p) PROVE EwfInvariant'
  BY <1>1, OpenBegins, OpenEnds DEF OpenEwf
<1>2. ASSUME NEW t \in Threads, ReadStep(t) PROVE EwfInvariant'
  BY <1>2, ReadGoesOn, SeekIsPrivate, ReadIsExact DEF ReadStep
<1>3. ASSUME NEW t \in Threads, NEW p \in Images, NEW r \in Requests,
             StartRead(t, p, r)
      PROVE  EwfInvariant'
  BY <1>3, ReadBegins
<1>4. ASSUME NEW p \in Images, NEW holder \in Threads \cup {Main},
             Release(p, holder)
      PROVE  EwfInvariant'
  BY <1>4, ReleaseIsSafe
<1>5. CASE UNCHANGED image
  BY <1>5 DEF image, EwfInvariant, EwfType, Sound, Offset, Media
<1>6. QED
  BY <1>1, <1>2, <1>3, <1>4, <1>5 DEF EwfNext

\* Whoever opens, reads and lets go of images in whatever order, the invariant
\* holds.
THEOREM EwfCorrect == EwfSpec => []EwfInvariant
<1>1. QED
  BY EwfStarts, EwfSteps, PTL DEF EwfSpec

\* What the intake does to images is what EwfSource allows.
THEOREM IntakeUsesEwf == Spec => EwfSpec
<1>1. Init => EwfInit
  BY DEF Init
<1>2. [Next]_vars => [EwfNext]_image
  <2> SUFFICES ASSUME [Next]_vars PROVE [EwfNext]_image
    OBVIOUS
  <2>1. CASE WalkTree \/ UNCHANGED vars
    BY <2>1 DEF WalkTree, vars, image
  <2>2. CASE OpenNext
    BY <2>2 DEF OpenNext, EwfNext, image
  <2>3. CASE OpenImage
    BY <2>3 DEF OpenImage, EwfNext
  <2>4. ASSUME NEW t \in Threads, Proceed(t) PROVE [EwfNext]_image
    BY <2>4 DEF Proceed, EwfNext
  <2>5. ASSUME NEW t \in Threads, NEW p \in Images, NEW r \in Requests,
               Read(t, p, r)
        PROVE  [EwfNext]_image
    BY <2>5 DEF Read, EwfNext
  <2>6. ASSUME NEW p \in Images, NEW holder \in Threads \cup {Main},
               LetGo(p, holder)
        PROVE  [EwfNext]_image
    BY <2>6 DEF LetGo, EwfNext
  <2>7. QED
    BY <2>1, <2>2, <2>3, <2>4, <2>5, <2>6 DEF Next
<1>3. QED
  BY <1>1, <1>2, PTL DEF Spec, EwfSpec

\* No object of libewf is used before it is there or after it is freed, nor freed
\* twice (ewf.rs:121, 267).
THEOREM LibraryIsUsedWell == Spec => []LibraryUsedWell
<1>1. EwfInvariant => LibraryUsedWell
  BY DEF EwfInvariant, LibraryUsedWell
<1>2. QED
  BY <1>1, EwfCorrect, IntakeUsesEwf, PTL

\* Nothing libewf allocated is left when open fails or the source is dropped
\* (ewf.rs:121-122).
THEOREM NothingIsLeaked == Spec => []NothingLeaks
<1>1. EwfInvariant => NothingLeaks
  BY DEF EwfInvariant, EwfType, Image, Accounted, NothingLeaks
<1>2. QED
  BY <1>1, EwfCorrect, IntakeUsesEwf, PTL

\* A read that succeeds has what it asked for, whoever else moves the position of
\* the same handle (ewf.rs:231-261, lib.rs:36-54).
THEOREM ReadsAreExact == Spec => []ReadsWhatWasAsked
<1>1. EwfInvariant => ReadsWhatWasAsked
  BY DEF EwfInvariant, Sound, ReadsWhatWasAsked, Idle
<1>2. QED
  BY <1>1, EwfCorrect, IntakeUsesEwf, PTL
-----------------------------------------------------------------------------
(***************************************************************************)
(* The walk.  A path that is reached is either behind the walk or below    *)
(* exactly one of the entries that its calls have left, and those come in  *)
(* the order of their paths.                                               *)
(***************************************************************************)

\* Path p is q or below it.
Under(q, p) == Len(q) <= Len(p) /\ \A i \in 1..Len(q) : p[i] = q[i]

\* The entries that calls of walk have left, and whether they come in order.
Waiting(calls) == UNION {ToSet(calls[k]) : k \in DOMAIN calls}
InSequence(calls) ==
    \A k, l \in DOMAIN calls : \A i \in DOMAIN calls[k], j \in DOMAIN calls[l] :
        k < l \/ (k = l /\ i < j) => Before(calls[k][i], calls[l][j])

\* The walk is past path p when no entry that is left is p or above it.
Past(p, left) ==
    /\ p \in DOMAIN tree \ {<<>>} /\ Reached(p)
    /\ \A q \in left : ~Under(q, p)

\* The list is in order, and before all that is left.
Listed(list, left) ==
    /\ \A i, j \in DOMAIN list : i < j => Before(list[i], list[j])
    /\ \A i \in DOMAIN list : \A q \in left : Before(list[i], q)

Skips(node) == ~Keeps(node) /\ (node.type # "dir" \/ node.fails = "type")

WalkInvariant ==
    /\ tree \in Trees /\ walking \in {"no", "yes", "done", "error"}
    /\ stack \in Seq(Seq(DOMAIN tree))
    /\ files \in Seq(DOMAIN tree) /\ skipped \in Seq(DOMAIN tree)
    /\ walking # "yes" => stack = <<>>
    /\ walking \in {"no", "error"} => files = <<>> /\ skipped = <<>>
    /\ walking \in {"yes", "done"} =>
          /\ \A q \in Waiting(stack) : q # <<>> /\ Reached(q)
          /\ InSequence(stack)
          /\ Listed(files, Waiting(stack)) /\ Listed(skipped, Waiting(stack))
          /\ ToSet(files) = {p \in DOMAIN tree :
                               Past(p, Waiting(stack)) /\ Keeps(tree[p])}
          /\ ToSet(skipped) = {p \in DOMAIN tree :
                                 Past(p, Waiting(stack)) /\ Skips(tree[p])}

-----------------------------------------------------------------------------
(* Paths                                                                   *)

Cut(p, n) == SubSeq(p, 1, n)

\* The first names of a path.
LEMMA CutIs ==
    ASSUME NEW p \in Seq(Nat), NEW n \in 0..Len(p)
    PROVE  /\ Cut(p, n) \in Seq(Nat) /\ Len(Cut(p, n)) = n
           /\ \A i \in 1..n : Cut(p, n)[i] = p[i]
<1>1. QED
  BY FrontOf DEF Cut

\* Paths with the same names are the same.
LEMMA SamePath ==
    ASSUME NEW p \in Seq(Nat), NEW q \in Seq(Nat), Len(p) = Len(q),
           \A i \in 1..Len(p) : p[i] = q[i]
    PROVE  p = q
<1>1. QED
  BY SeqEqual

\* All of a path, and the first names of its first names.
LEMMA CutAgain ==
    ASSUME NEW p \in Seq(Nat), NEW m \in 0..Len(p), NEW n \in 0..m
    PROVE  Cut(p, Len(p)) = p /\ Cut(Cut(p, m), n) = Cut(p, n)
<1>1. Len(p) \in 0..Len(p) /\ n \in 0..Len(p)
  OBVIOUS
<1>2. Cut(p, Len(p)) = p
  <2> DEFINE c == Cut(p, Len(p))
  <2>1. c \in Seq(Nat) /\ Len(c) = Len(p) /\ \A i \in 1..Len(p) : c[i] = p[i]
    BY <1>1, CutIs
  <2> HIDE DEF c
  <2>2. c = p
    BY <2>1, SamePath
  <2>3. QED
    BY <2>2 DEF c
<1>3. Cut(Cut(p, m), n) = Cut(p, n)
  <2> DEFINE c == Cut(p, m)
             d == Cut(p, n)
  <2>1. c \in Seq(Nat) /\ Len(c) = m /\ \A i \in 1..m : c[i] = p[i]
    BY CutIs
  <2>2. d \in Seq(Nat) /\ Len(d) = n /\ \A i \in 1..n : d[i] = p[i]
    BY <1>1, CutIs
  <2> HIDE DEF c, d
  <2> DEFINE b == Cut(c, n)
  <2>3. b \in Seq(Nat) /\ Len(b) = n /\ \A i \in 1..n : b[i] = c[i]
    BY <2>1, CutIs
  <2> HIDE DEF b
  <2>4. \A i \in 1..n : b[i] = d[i]
    BY <2>1, <2>2, <2>3, SMTT(30)
  <2>5. b = d
    BY <2>2, <2>3, <2>4, SamePath
  <2>6. QED
    BY <2>5 DEF b, c, d
<1>4. QED
  BY <1>2, <1>3

\* A path is below another when that is what it begins with.
LEMMA UnderIs ==
    ASSUME NEW p \in Seq(Nat), NEW q \in Seq(Nat)
    PROVE  Under(q, p) <=> Len(q) <= Len(p) /\ Cut(p, Len(q)) = q
<1>1. CASE Len(q) <= Len(p)
  <2> DEFINE c == Cut(p, Len(q))
  <2>1. Len(q) \in 0..Len(p)
    BY <1>1
  <2>2. c \in Seq(Nat) /\ Len(c) = Len(q) /\ \A i \in 1..Len(q) : c[i] = p[i]
    BY <2>1, CutIs
  <2> HIDE DEF c
  <2>3. c = q <=> \A i \in 1..Len(q) : c[i] = q[i]
    BY <2>2, SamePath
  <2>4. c = q <=> \A i \in 1..Len(q) : p[i] = q[i]
    BY <2>2, <2>3
  <2>5. QED
    BY <1>1, <2>4 DEF Under, c
<1>2. CASE ~(Len(q) <= Len(p))
  BY <1>2 DEF Under
<1>3. QED
  BY <1>1, <1>2

\* The first name two paths differ in.
Differ(a, b, n) ==
    /\ n \in 1..Len(a) /\ n \in 1..Len(b) /\ a[n] < b[n]
    /\ \A i \in 1 .. n - 1 : a[i] = b[i]

LEMMA BeforeIs ==
    ASSUME NEW a \in Seq(Nat), NEW b \in Seq(Nat)
    PROVE  Before(a, b) <=> \E n \in Nat : Differ(a, b, n)
<1>1. Len(a) \in Nat /\ Len(b) \in Nat
  OBVIOUS
<1> DEFINE k == Len(a)
           l == Len(b)
           least == Min({k, l})
<1>2. /\ least \in Nat /\ least <= Len(a) /\ least <= Len(b)
      /\ least = Len(a) \/ least = Len(b)
  <2>1. k \in Int /\ l \in Int
    BY <1>1
  <2> HIDE DEF k, l
  <2>2. Min({k, l}) \in {k, l} /\ Min({k, l}) <= k /\ Min({k, l}) <= l
    BY <2>1, MinOfTwo
  <2>3. QED
    BY <1>1, <2>2 DEF k, l
<1> HIDE DEF least
<1>3. \A n : n \in 1..least <=> n \in 1..Len(a) /\ n \in 1..Len(b)
  BY <1>1, <1>2
<1>4. ASSUME NEW n \in 1..Len(a), n \in 1..Len(b)
      PROVE  SubSeq(a, 1, n - 1) = SubSeq(b, 1, n - 1) <=>
                 \A i \in 1 .. n - 1 : a[i] = b[i]
  <2> DEFINE c == Cut(a, n - 1)
             d == Cut(b, n - 1)
  <2>1. n - 1 \in 0..Len(a) /\ n - 1 \in 0..Len(b)
    BY <1>1, <1>4
  <2>2. c \in Seq(Nat) /\ Len(c) = n - 1 /\ \A i \in 1 .. n - 1 : c[i] = a[i]
    BY <2>1, CutIs
  <2>3. d \in Seq(Nat) /\ Len(d) = n - 1 /\ \A i \in 1 .. n - 1 : d[i] = b[i]
    BY <2>1, CutIs
  <2> HIDE DEF c, d
  <2>4. c = d <=> \A i \in 1 .. n - 1 : a[i] = b[i]
    BY <2>2, <2>3, SamePath
  <2>5. QED
    BY <2>4 DEF c, d, Cut
<1>5. Before(a, b) <=> \E n \in 1..least :
          SubSeq(a, 1, n - 1) = SubSeq(b, 1, n - 1) /\ a[n] < b[n]
  BY DEF Before, least
<1> HIDE DEF k, l
<1>6. ASSUME NEW n \in 1..least
      PROVE  /\ n \in Nat
             /\ (SubSeq(a, 1, n - 1) = SubSeq(b, 1, n - 1) /\ a[n] < b[n])
                   <=> Differ(a, b, n)
  <2>1. n \in 1..Len(a) /\ n \in 1..Len(b)
    BY <1>3
  <2>2. SubSeq(a, 1, n - 1) = SubSeq(b, 1, n - 1)
          <=> \A i \in 1 .. n - 1 : a[i] = b[i]
    BY <1>4, <2>1
  <2>3. n \in Nat
    BY <1>2
  <2>4. QED
    BY <2>1, <2>2, <2>3 DEF Differ
<1>7. \A n \in Nat : Differ(a, b, n) => n \in 1..least
  BY <1>3 DEF Differ
<1>8. QED
  BY <1>5, <1>6, <1>7

\* Neither of two paths in order is below the other, and what is below the one
\* comes before what is below the other.
LEMMA BeforeApart ==
    ASSUME NEW a \in Seq(Nat), NEW b \in Seq(Nat), Before(a, b)
    PROVE  ~Under(a, b) /\ ~Under(b, a) /\ a # b
<1>1. PICK n \in Nat : Differ(a, b, n)
  BY BeforeIs
<1>2. n \in 1..Len(a) /\ n \in 1..Len(b) /\ a[n] \in Nat /\ a[n] # b[n]
  BY <1>1 DEF Differ
<1>3. QED
  BY <1>2 DEF Under

LEMMA BeforeBelow ==
    ASSUME NEW a \in Seq(Nat), NEW b \in Seq(Nat), Before(a, b),
           NEW c \in Seq(Nat), Under(a, c), NEW d \in Seq(Nat), Under(b, d)
    PROVE  Before(c, d)
<1>1. PICK n \in Nat : Differ(a, b, n)
  BY BeforeIs
<1>2. n \in 1..Len(a) /\ n \in 1..Len(b) /\ a[n] < b[n]
      /\ \A i \in 1 .. n - 1 : a[i] = b[i]
  BY <1>1 DEF Differ
<1>3. /\ Len(a) <= Len(c) /\ \A i \in 1..Len(a) : c[i] = a[i]
      /\ Len(b) <= Len(d) /\ \A i \in 1..Len(b) : d[i] = b[i]
  BY DEF Under
<1>4. n \in 1..Len(c) /\ n \in 1..Len(d) /\ c[n] < d[n]
  <2>1. n \in 1..Len(c)
    <3> DEFINE k == Len(a)
               l == Len(c)
    <3>1. k \in Nat /\ l \in Nat
      OBVIOUS
    <3>4. n \in 1..k
      BY <1>2
    <3>5. k <= l
      BY DEF Under
    <3> HIDE DEF k, l
    <3>2. n \in 1..l
      BY <3>1, <3>4, <3>5
    <3>3. QED
      BY <3>2 DEF l
  <2>2. n \in 1..Len(d)
    <3> DEFINE k == Len(b)
               l == Len(d)
    <3>1. k \in Nat /\ l \in Nat
      OBVIOUS
    <3>4. n \in 1..k
      BY <1>2
    <3>5. k <= l
      BY DEF Under
    <3> HIDE DEF k, l
    <3>2. n \in 1..l
      BY <3>1, <3>4, <3>5
    <3>3. QED
      BY <3>2 DEF l
  <2>3. c[n] = a[n] /\ d[n] = b[n]
    BY <1>2, <1>3
  <2>4. QED
    BY <1>2, <2>1, <2>2, <2>3
<1>5. \A i \in 1 .. n - 1 : i \in 1..Len(a) /\ i \in 1..Len(b)
  BY <1>2
<1>6. \A i \in 1 .. n - 1 : c[i] = d[i]
  BY <1>2, <1>3, <1>5
<1>7. Differ(c, d, n)
  BY <1>4, <1>6 DEF Differ
<1>8. QED
  BY <1>7, BeforeIs

\* A path is below itself and its directory.
LEMMA UnderSelf ==
    ASSUME NEW p \in Seq(Nat)
    PROVE  Under(p, p)
<1>1. QED
  BY DEF Under

LEMMA UnderTwice ==
    ASSUME NEW a \in Seq(Nat), NEW b \in Seq(Nat), NEW c \in Seq(Nat),
           Under(a, b), Under(b, c)
    PROVE  Under(a, c)
<1>1. Len(a) \in Nat /\ Len(b) \in Nat /\ Len(c) \in Nat
  OBVIOUS
<1>2. /\ Len(a) <= Len(b) /\ \A i \in 1..Len(a) : b[i] = a[i]
      /\ Len(b) <= Len(c) /\ \A i \in 1..Len(b) : c[i] = b[i]
  BY DEF Under
<1>3. \A i \in 1..Len(a) : i \in 1..Len(b)
  BY <1>1, <1>2
<1>4. \A i \in 1..Len(a) : c[i] = a[i]
  BY <1>2, <1>3
<1>5. Len(a) <= Len(c)
  BY <1>1, <1>2
<1>6. QED
  BY <1>4, <1>5 DEF Under

LEMMA ParentIs ==
    ASSUME NEW c \in Seq(Nat), c # <<>>
    PROVE  /\ Parent(c) \in Seq(Nat) /\ Len(Parent(c)) + 1 = Len(c)
           /\ Len(Parent(c)) \in Nat /\ Under(Parent(c), c)
           /\ Parent(c) = Cut(c, Len(c) - 1)
           /\ Name(c) = c[Len(c)] /\ Name(c) \in Nat
<1>1. Len(c) - 1 \in 0..Len(c) /\ Len(c) \in 1..Len(c)
  OBVIOUS
<1>2. Parent(c) = Cut(c, Len(c) - 1)
  BY DEF Parent, Front, Cut
<1>3. /\ Cut(c, Len(c) - 1) \in Seq(Nat) /\ Len(Cut(c, Len(c) - 1)) = Len(c) - 1
      /\ \A i \in 1 .. Len(c) - 1 : Cut(c, Len(c) - 1)[i] = c[i]
  BY <1>1, CutIs
<1>4. Name(c) = c[Len(c)] /\ c[Len(c)] \in Nat
  BY <1>1 DEF Name, Last
<1>5. Under(Parent(c), c)
  BY <1>1, <1>2, <1>3 DEF Under
<1>6. QED
  BY <1>1, <1>2, <1>3, <1>4, <1>5
-----------------------------------------------------------------------------
(* Trees                                                                   *)

\* A path of a tree, and its beginnings, are paths of it.
LEMMA PathsOf ==
    ASSUME tree \in Trees
    PROVE  /\ DOMAIN tree \subseteq Seq(Nat) /\ IsFiniteSet(DOMAIN tree)
           /\ <<>> \in DOMAIN tree /\ tree[<<>>].fails \notin {"entry", "type"}
           /\ \A p \in DOMAIN tree \ {<<>>} : Parent(p) \in DOMAIN tree
<1>1. QED
  BY CollectionAssumption

LEMMA PathsClosed ==
    ASSUME tree \in Trees, NEW p \in DOMAIN tree, NEW m \in 0..Len(p)
    PROVE  Cut(p, m) \in DOMAIN tree
<1>1. p \in Seq(Nat) /\ Len(p) \in Nat
  BY PathsOf
<1> DEFINE S == {k \in Nat : k <= Len(p) => Cut(p, Len(p) - k) \in DOMAIN tree}
<1>2. 0 \in S
  <2>1. 0 \in 0..Len(p) /\ Len(p) \in 0..Len(p) /\ Len(p) - 0 = Len(p)
    BY <1>1
  <2>2. Cut(p, Len(p)) = p
    BY <1>1, <2>1, CutAgain
  <2>3. QED
    BY <2>1, <2>2
<1>3. ASSUME NEW k \in Nat, k \in S
      PROVE  k + 1 \in S
  <2>1. SUFFICES ASSUME k + 1 <= Len(p)
                 PROVE  Cut(p, Len(p) - (k + 1)) \in DOMAIN tree
    OBVIOUS
  <2> DEFINE n == Len(p) - k
             c == Cut(p, n)
  <2>2. n \in 0..Len(p) /\ n - 1 \in 0..n /\ n - 1 = Len(p) - (k + 1) /\ n # 0
    BY <1>1, <2>1
  <2>3. k <= Len(p)
    BY <1>1, <2>1
  <2>4. c \in DOMAIN tree
    BY <1>3, <2>3
  <2> HIDE DEF n
  <2>5. c \in Seq(Nat) /\ Len(c) = n
    BY <1>1, <2>2, CutIs
  <2>6. Cut(c, n - 1) = Cut(p, n - 1)
    BY <1>1, <2>2, CutAgain
  <2> HIDE DEF c
  <2>7. c # <<>>
    BY <2>2, <2>5
  <2>8. Parent(c) = Cut(c, Len(c) - 1) /\ Parent(c) \in DOMAIN tree
    BY <2>4, <2>5, <2>7, ParentIs, PathsOf
  <2>9. QED
    BY <2>2, <2>5, <2>6, <2>8
<1> DEFINE d == Len(p) - m
<1>4. d \in Nat /\ d <= Len(p) /\ Len(p) - d = m
  BY <1>1
<1>5. d \in S
  <2>1. Nat \subseteq S
    BY <1>2, <1>3, Induction
  <2>2. QED
    BY <1>4, <2>1
<1> HIDE DEF d
<1>6. QED
  BY <1>4, <1>5

\* What is reached, in terms of the beginnings of its path.
LEMMA ReachedIs ==
    ASSUME NEW p
    PROVE  Reached(p) <=>
               \A n \in 1..Len(p) :
                  /\ p \in DOMAIN tree /\ tree[Cut(p, n)].fails # "entry"
                  /\ tree[Cut(p, n - 1)].fails \notin {"list", "type"}
                  /\ tree[Cut(p, n - 1)].type = "dir"
<1>1. QED
  BY DEF Reached, Cut

\* The entries of a directory.
LEMMA ChildIs ==
    ASSUME tree \in Trees, NEW d \in DOMAIN tree, NEW c \in Children(d)
    PROVE  /\ c \in DOMAIN tree /\ c # <<>> /\ c \in Seq(Nat) /\ Parent(c) = d
           /\ tree[c].fails # "entry" /\ tree[d].fails # "list"
           /\ Len(c) \in Nat /\ Len(d) + 1 = Len(c) /\ Len(d) \in Nat
           /\ Under(d, c) /\ Cut(c, Len(d)) = d
           /\ Name(c) = c[Len(c)] /\ Name(c) \in Nat
<1>1. /\ c \in DOMAIN tree \ {<<>>} /\ Parent(c) = d
      /\ tree[c].fails # "entry" /\ tree[d].fails # "list"
  BY DEF Children
<1>2. c \in Seq(Nat) /\ d \in Seq(Nat)
  BY <1>1, PathsOf
<1>3. /\ Len(Parent(c)) + 1 = Len(c) /\ Len(Parent(c)) \in Nat
      /\ Under(Parent(c), c) /\ Parent(c) = Cut(c, Len(c) - 1)
      /\ Name(c) = c[Len(c)] /\ Name(c) \in Nat
  BY <1>1, <1>2, ParentIs
<1>4. Len(c) \in Nat /\ Len(c) - 1 = Len(d)
  BY <1>1, <1>2, <1>3
<1>5. QED
  BY <1>1, <1>2, <1>3, <1>4

\* The entries of a directory that is reached, listed and known, are reached.
LEMMA ReachedChild ==
    ASSUME tree \in Trees, NEW d \in DOMAIN tree, Reached(d), tree[d].type = "dir",
           tree[d].fails # "type", NEW c \in Children(d)
    PROVE  Reached(c)
<1>1. /\ c \in DOMAIN tree /\ c \in Seq(Nat) /\ Len(c) \in Nat
      /\ tree[c].fails # "entry" /\ tree[d].fails # "list"
      /\ Len(d) + 1 = Len(c) /\ Len(d) \in Nat /\ Cut(c, Len(d)) = d
  BY ChildIs
<1>2. SUFFICES ASSUME NEW n \in 1..Len(c)
               PROVE  /\ tree[Cut(c, n)].fails # "entry"
                      /\ tree[Cut(c, n - 1)].fails \notin {"list", "type"}
                      /\ tree[Cut(c, n - 1)].type = "dir"
  BY <1>1, ReachedIs
<1>3. CASE n = Len(c)
  <2>1. Cut(c, n) = c
    BY <1>1, <1>3, CutAgain
  <2>2. n - 1 = Len(d)
    BY <1>1, <1>3
  <2>3. QED
    BY <1>1, <2>1, <2>2
<1>4. CASE n # Len(c)
  <2>1. n \in 1..Len(d) /\ n \in 0..Len(d) /\ n - 1 \in 0..Len(d)
    BY <1>1, <1>4
  <2>2. Len(d) \in 0..Len(c)
    BY <1>1
  <2>3. Cut(c, n) = Cut(d, n) /\ Cut(c, n - 1) = Cut(d, n - 1)
    BY <1>1, <2>1, <2>2, CutAgain
  <2>4. QED
    BY <2>1, <2>3, ReachedIs
<1>5. QED
  BY <1>3, <1>4

\* What is reached below a path goes through one of its entries.
LEMMA ReachedBelow ==
    ASSUME tree \in Trees, NEW p \in DOMAIN tree, Reached(p),
           NEW q \in Seq(Nat), Under(q, p), q # p
    PROVE  /\ q \in DOMAIN tree /\ tree[q].type = "dir"
           /\ tree[q].fails \notin {"list", "type"}
           /\ \E c \in Children(q) : Under(c, p)
<1>1. p \in Seq(Nat) /\ Len(p) \in Nat /\ Len(q) \in Nat
  BY PathsOf
<1>2. Len(q) <= Len(p) /\ Cut(p, Len(q)) = q
  BY <1>1, UnderIs
<1>3. Len(q) # Len(p)
  BY <1>1, <1>2, CutAgain
<1> DEFINE n == Len(q) + 1
           c == Cut(p, n)
<1>4. n \in 1..Len(p) /\ n \in 0..Len(p) /\ n - 1 = Len(q) /\ Len(q) \in 0..Len(p)
      /\ Len(q) \in 0..n /\ n # 0
  BY <1>1, <1>2, <1>3
<1>5. q \in DOMAIN tree /\ c \in DOMAIN tree
  BY <1>2, <1>4, PathsClosed
<1> HIDE DEF n
<1>6. /\ tree[c].fails # "entry" /\ tree[q].fails \notin {"list", "type"}
      /\ tree[q].type = "dir"
  BY <1>2, <1>4, ReachedIs
<1>7. c \in Seq(Nat) /\ Len(c) = n
  BY <1>1, <1>4, CutIs
<1>8. Cut(c, Len(q)) = q
  BY <1>1, <1>2, <1>4, CutAgain
<1>9. Cut(p, Len(c)) = c
  BY <1>7
<1> HIDE DEF c
<1>10. c # <<>>
  BY <1>4, <1>7
<1>11. Parent(c) = q
  BY <1>4, <1>7, <1>8, <1>10, ParentIs
<1>12. c \in Children(q)
  BY <1>5, <1>6, <1>10, <1>11 DEF Children
<1>13. Len(c) <= Len(p)
  BY <1>1, <1>4, <1>7
<1>14. Under(c, p)
  BY <1>1, <1>7, <1>9, <1>13, UnderIs
<1>15. QED
  BY <1>5, <1>6, <1>12, <1>14

\* Two entries of a directory are told apart, and put in order, by their names.
LEMMA Siblings ==
    ASSUME tree \in Trees, NEW d \in DOMAIN tree, NEW a \in Children(d),
           NEW b \in Children(d)
    PROVE  /\ Name(a) = Name(b) => a = b
           /\ Name(a) < Name(b) => Before(a, b)
<1> DEFINE n == Len(d)
<1>1. /\ a \in Seq(Nat) /\ Len(a) = n + 1 /\ Cut(a, n) = d
      /\ Name(a) = a[Len(a)] /\ n \in Nat
  BY ChildIs
<1>2. /\ b \in Seq(Nat) /\ Len(b) = n + 1 /\ Cut(b, n) = d
      /\ Name(b) = b[Len(b)]
  BY ChildIs
<1> HIDE DEF n
<1>3. n \in 0..Len(a) /\ n \in 0..Len(b)
  BY <1>1, <1>2
<1>4. \A i \in 1..n : a[i] = d[i] /\ b[i] = d[i]
  <2>1. \A i \in 1..n : Cut(a, n)[i] = a[i]
    BY <1>1, <1>3, CutIs
  <2>2. \A i \in 1..n : Cut(b, n)[i] = b[i]
    BY <1>2, <1>3, CutIs
  <2>3. QED
    BY <1>1, <1>2, <2>1, <2>2
<1>5. ASSUME Name(a) = Name(b)
      PROVE  a = b
  <2>1. a[n + 1] = b[n + 1]
    BY <1>1, <1>2, <1>5
  <2>2. \A i \in 1..Len(a) : i \in 1..n \/ i = n + 1
    BY <1>1
  <2>3. \A i \in 1..Len(a) : a[i] = b[i]
    BY <1>4, <2>1, <2>2
  <2>4. QED
    BY <1>1, <1>2, <2>3, SamePath
<1>6. ASSUME Name(a) < Name(b)
      PROVE  Before(a, b)
  <2>1. a[n + 1] < b[n + 1]
    BY <1>1, <1>2, <1>6
  <2>2. n + 1 \in 1..Len(a) /\ n + 1 \in 1..Len(b) /\ n + 1 \in Nat
        /\ (n + 1) - 1 = n
    BY <1>1, <1>2
  <2>3. \A i \in 1..n : a[i] = b[i]
    BY <1>4
  <2>4. Differ(a, b, n + 1)
    BY <2>1, <2>2, <2>3 DEF Differ
  <2>5. QED
    BY <1>1, <1>2, <2>2, <2>4, BeforeIs
<1>7. QED
  BY <1>5, <1>6

\* The entries of a directory, sorted, are all of them in the order of their paths.
LEMMA SortedListing ==
    ASSUME tree \in Trees, NEW d \in DOMAIN tree, NEW listing \in SetToSeqs(Children(d))
    PROVE  /\ Sorted(listing) \in Seq(DOMAIN tree)
           /\ ToSet(Sorted(listing)) = Children(d)
           /\ \A i, j \in DOMAIN Sorted(listing) :
                 i < j => Before(Sorted(listing)[i], Sorted(listing)[j])
<1> DEFINE S == Children(d)
           key == [c \in S |-> Name(c)]
           InOrder(s) == \A i, j \in DOMAIN s : i < j => Name(s[i]) < Name(s[j])
           s == CHOOSE t \in SetToSeqs(S) : InOrder(t)
<1>1. S \subseteq DOMAIN tree
  BY DEF Children
<1>2. IsFiniteSet(S)
  BY <1>1, PathsOf, FS_Subset
<1>3. ToSet(listing) = S
  BY <1>2, ListingOf
<1>4. \A a, b \in S : Name(a) \in Nat /\ (Name(a) = Name(b) => a = b)
  BY ChildIs, Siblings
<1>5. \E t \in SetToSeqs(S) : InOrder(t)
  <2>1. \A c \in S : key[c] = Name(c)
    OBVIOUS
  <2> HIDE DEF S, key
  <2>2. PICK t \in SetToSeqs(S) : \A i, j \in DOMAIN t : i < j => key[t[i]] < key[t[j]]
    BY <1>2, <1>4, <2>1, SortedExists
  <2>3. t \in Seq(S)
    BY <1>2, ListingOf
  <2>4. \A i \in DOMAIN t : t[i] \in S
    BY <2>3
  <2>5. InOrder(t)
    BY <2>1, <2>2, <2>4
  <2>6. QED
    BY <2>5
<1>6. s \in SetToSeqs(S) /\ InOrder(s)
  BY <1>5
<1>7. Sorted(listing) = s
  BY <1>3 DEF Sorted
<1> HIDE DEF s
<1>8. s \in Seq(S) /\ ToSet(s) = S
  BY <1>2, <1>6, ListingOf
<1>9. \A i \in DOMAIN s : s[i] \in S
  BY <1>8
<1>10. \A i, j \in DOMAIN s : i < j => Before(s[i], s[j])
  <2>1. TAKE i, j \in DOMAIN s
  <2>2. HAVE i < j
  <2>3. Name(s[i]) < Name(s[j]) /\ s[i] \in S /\ s[j] \in S
    BY <1>6, <1>9, <2>2
  <2>4. QED
    BY <2>3, Siblings
<1>11. s \in Seq(DOMAIN tree)
  BY <1>1, <1>8
<1>12. QED
  BY <1>7, <1>8, <1>10, <1>11
-----------------------------------------------------------------------------
(* What is left                                                            *)

\* An entry that is left is one of a call in progress.
LEMMA WaitingIs ==
    ASSUME NEW D, NEW calls \in Seq(Seq(D))
    PROVE  /\ \A q : q \in Waiting(calls) <=>
                  \E k \in 1..Len(calls) : \E i \in 1..Len(calls[k]) : q = calls[k][i]
           /\ Waiting(calls) \subseteq D
<1>1. DOMAIN calls = 1..Len(calls) /\ \A k \in 1..Len(calls) : calls[k] \in Seq(D)
  OBVIOUS
<1>2. \A k \in 1..Len(calls) : /\ DOMAIN calls[k] = 1..Len(calls[k])
                               /\ \A i \in 1..Len(calls[k]) : calls[k][i] \in D
  BY <1>1
<1>3. \A q : q \in Waiting(calls) <=>
            \E k \in 1..Len(calls) : \E i \in 1..Len(calls[k]) : q = calls[k][i]
  BY <1>1, <1>2 DEF Waiting, ToSet
<1>4. ASSUME NEW q \in Waiting(calls)
      PROVE  q \in D
  <2>1. PICK k \in 1..Len(calls) : \E i \in 1..Len(calls[k]) : q = calls[k][i]
    BY <1>3
  <2>2. QED
    BY <1>2, <2>1
<1>5. QED
  BY <1>3, <1>4

LEMMA InSequenceIs ==
    ASSUME NEW D, NEW calls \in Seq(Seq(D))
    PROVE  InSequence(calls) <=>
               \A k, l \in 1..Len(calls) :
                  \A i \in 1..Len(calls[k]), j \in 1..Len(calls[l]) :
                     k < l \/ (k = l /\ i < j) => Before(calls[k][i], calls[l][j])
<1>1. DOMAIN calls = 1..Len(calls) /\ \A k \in 1..Len(calls) : calls[k] \in Seq(D)
  OBVIOUS
<1>2. \A k \in 1..Len(calls) : DOMAIN calls[k] = 1..Len(calls[k])
  BY <1>1
<1>3. QED
  BY <1>1, <1>2 DEF InSequence

\* A call begins: its entries come before those that are left.
LEMMA OnTop ==
    ASSUME NEW D, NEW s \in Seq(D), NEW below \in Seq(Seq(D)),
           \A i, j \in DOMAIN s : i < j => Before(s[i], s[j]),
           \A c \in ToSet(s), q \in Waiting(below) : Before(c, q),
           InSequence(below)
    PROVE  /\ <<s>> \o below \in Seq(Seq(D)) /\ InSequence(<<s>> \o below)
           /\ Waiting(<<s>> \o below) = ToSet(s) \cup Waiting(below)
<1> DEFINE calls == <<s>> \o below
<1>1. /\ calls \in Seq(Seq(D)) /\ Len(calls) = 1 + Len(below) /\ Len(below) \in Nat
      /\ calls[1] = s /\ \A k \in 1..Len(below) : calls[k + 1] = below[k]
  <2> DEFINE one == <<s>>
             T == Seq(D)
  <2>1. one \in Seq(T) /\ Len(one) = 1 /\ one[1] = s
    OBVIOUS
  <2>7. below \in Seq(T)
    OBVIOUS
  <2> HIDE DEF one, T
  <2> DEFINE both == one \o below
  <2>2. /\ both \in Seq(T) /\ Len(both) = Len(one) + Len(below)
        /\ \A k \in 1..Len(one) : both[k] = one[k]
        /\ \A k \in 1..Len(below) : both[Len(one) + k] = below[k]
    <3>1. /\ one \o below \in Seq(T) /\ Len(one \o below) = Len(one) + Len(below)
          /\ \A i \in 1..Len(one) : (one \o below)[i] = one[i]
          /\ \A i \in 1..Len(below) : /\ Len(one) + i \in 1..Len(one \o below)
                                      /\ (one \o below)[Len(one) + i] = below[i]
      <4>1. one \in Seq(T)
        BY <2>1
      <4>2. QED
        BY <2>7, <4>1, Behind
    <3>2. QED
      BY <3>1, Zenon
  <2>3. both = calls
    BY DEF one
  <2> HIDE DEF both
  <2>4. both[1] = s /\ Len(both) = 1 + Len(below) /\ Len(below) \in Nat
    BY <2>1, <2>2
  <2>5. \A k \in 1..Len(below) : both[1 + k] = below[k] /\ k + 1 = 1 + k
    BY <2>1, <2>2
  <2>6. both \in Seq(Seq(D))
    BY <2>2 DEF T
  <2>8. QED
    BY <2>3, <2>4, <2>5, <2>6
<1> HIDE DEF calls
<1>12. calls \in Seq(Seq(D))
  BY <1>1
<1>2. DOMAIN s = 1..Len(s)
  OBVIOUS
<1>3. \A k \in 1..Len(calls) : k = 1 \/ (k - 1 \in 1..Len(below) /\ calls[k] = below[k - 1])
  <2>1. TAKE k \in 1..Len(calls)
  <2>2. CASE k # 1
    <3>1. k - 1 \in 1..Len(below) /\ (k - 1) + 1 = k
      BY <1>1, <2>2
    <3>2. QED
      BY <1>1, <3>1
  <2>3. QED
    BY <2>2
<1>4. 1 \in 1..Len(calls) /\ \A k \in 1..Len(below) : k + 1 \in 1..Len(calls)
  BY <1>1
<1>5. \A q : q \in ToSet(s) <=> \E i \in 1..Len(s) : q = s[i]
  BY <1>2 DEF ToSet
<1>9. \A q : q \in Waiting(calls) <=>
            \E k \in 1..Len(calls) : \E i \in 1..Len(calls[k]) : q = calls[k][i]
  BY <1>12, WaitingIs
<1>10. \A q : q \in Waiting(below) <=>
             \E k \in 1..Len(below) : \E i \in 1..Len(below[k]) : q = below[k][i]
  BY WaitingIs
<1>11. \A k, l \in 1..Len(below) :
          \A i \in 1..Len(below[k]), j \in 1..Len(below[l]) :
             k < l \/ (k = l /\ i < j) => Before(below[k][i], below[l][j])
  BY InSequenceIs
<1>6. Waiting(calls) = ToSet(s) \cup Waiting(below)
  <2>1. ASSUME NEW q \in Waiting(calls)
        PROVE  q \in ToSet(s) \cup Waiting(below)
    <3>1. PICK k \in 1..Len(calls) : \E i \in 1..Len(calls[k]) : q = calls[k][i]
      BY <2>1, <1>9
    <3>2. CASE k = 1
      BY <1>1, <1>5, <3>1, <3>2
    <3>3. CASE k # 1
      BY <1>3, <1>10, <3>1, <3>3
    <3>4. QED
      BY <3>2, <3>3
  <2>2. ASSUME NEW q \in ToSet(s)
        PROVE  q \in Waiting(calls)
    BY <1>1, <1>4, <1>5, <1>9, <2>2
  <2>3. ASSUME NEW q \in Waiting(below)
        PROVE  q \in Waiting(calls)
    <3>1. PICK k \in 1..Len(below) : \E i \in 1..Len(below[k]) : q = below[k][i]
      BY <1>10, <2>3
    <3>2. k + 1 \in 1..Len(calls) /\ calls[k + 1] = below[k]
      BY <1>1, <1>4
    <3>3. QED
      BY <1>9, <3>1, <3>2
  <2>4. QED
    BY <2>1, <2>2, <2>3
<1>7. InSequence(calls)
  <2>1. SUFFICES ASSUME NEW k \in 1..Len(calls), NEW l \in 1..Len(calls),
                        NEW i \in 1..Len(calls[k]), NEW j \in 1..Len(calls[l]),
                        k < l \/ (k = l /\ i < j)
                 PROVE  Before(calls[k][i], calls[l][j])
    BY <1>1, InSequenceIs
  <2>2. CASE k = 1 /\ l = 1
    <3>1. calls[k] = s /\ calls[l] = s
      BY <1>1, <2>2
    <3>2. i \in DOMAIN s /\ j \in DOMAIN s /\ i < j
      BY <1>2, <2>1, <2>2, <3>1
    <3>3. Before(s[i], s[j])
      BY <3>2
    <3>4. QED
      BY <3>1, <3>3
  <2>3. CASE k = 1 /\ l # 1
    <3>1. calls[k][i] \in ToSet(s)
      BY <1>1, <1>5, <2>3
    <3>2. calls[l][j] \in Waiting(below)
      BY <1>3, <1>10, <2>3
    <3>3. QED
      BY <3>1, <3>2
  <2>4. CASE k # 1
    <3>1. /\ k - 1 \in 1..Len(below) /\ calls[k] = below[k - 1]
          /\ l # 1 /\ l - 1 \in 1..Len(below) /\ calls[l] = below[l - 1]
          /\ k - 1 < l - 1 \/ (k - 1 = l - 1 /\ i < j)
      <4>1. l # 1
        BY <2>1, <2>4
      <4>2. k - 1 < l - 1 \/ (k - 1 = l - 1 /\ i < j)
        BY <2>1
      <4>3. QED
        BY <1>3, <2>4, <4>1, <4>2
    <3>2. QED
      BY <1>11, <3>1
  <2>5. QED
    BY <2>2, <2>3, <2>4
<1>8. QED
  BY <1>1, <1>6, <1>7 DEF calls

\* The call on top, and those below it.
LEMMA TopAndBelow ==
    ASSUME NEW D, NEW calls \in Seq(Seq(D)), calls # <<>>, InSequence(calls)
    PROVE  /\ calls[1] \in Seq(D)
           /\ Tail(calls) \in Seq(Seq(D)) /\ InSequence(Tail(calls))
           /\ Waiting(calls) = ToSet(calls[1]) \cup Waiting(Tail(calls))
           /\ \A i, j \in DOMAIN calls[1] : i < j => Before(calls[1][i], calls[1][j])
           /\ \A c \in ToSet(calls[1]), q \in Waiting(Tail(calls)) : Before(c, q)
<1> DEFINE below == Tail(calls)
           s == calls[1]
<1>1. below \in Seq(Seq(D)) /\ Len(below) \in Nat /\ Len(calls) = Len(below) + 1
  OBVIOUS
<1>2. \A k \in 1..Len(below) : below[k] = calls[k + 1]
  OBVIOUS
<1>3. 1 \in 1..Len(calls) /\ s \in Seq(D)
  OBVIOUS
<1> HIDE DEF below, s
<1>4. DOMAIN s = 1..Len(s)
  BY <1>3
<1>5. \A k \in 1..Len(below) : k + 1 \in 1..Len(calls)
  BY <1>1
<1>6. \A q : q \in Waiting(calls) <=>
            \E k \in 1..Len(calls) : \E i \in 1..Len(calls[k]) : q = calls[k][i]
  BY WaitingIs
<1>7. below \in Seq(Seq(D))
  BY <1>1
<1>8. \A q : q \in Waiting(below) <=>
            \E k \in 1..Len(below) : \E i \in 1..Len(below[k]) : q = below[k][i]
  BY <1>7, WaitingIs
<1>9. \A k, l \in 1..Len(calls) :
         \A i \in 1..Len(calls[k]), j \in 1..Len(calls[l]) :
            k < l \/ (k = l /\ i < j) => Before(calls[k][i], calls[l][j])
  BY InSequenceIs
<1>10. \A q : q \in ToSet(s) <=> \E i \in 1..Len(s) : q = s[i]
  BY <1>4 DEF ToSet
<1>11. \A k \in 1..Len(calls) :
          k = 1 \/ (k - 1 \in 1..Len(below) /\ calls[k] = below[k - 1])
  <2>1. TAKE k \in 1..Len(calls)
  <2>2. CASE k # 1
    <3>1. k - 1 \in 1..Len(below) /\ (k - 1) + 1 = k
      BY <1>1, <2>2
    <3>2. QED
      BY <1>2, <3>1
  <2>3. QED
    BY <2>2
<1>12. Waiting(calls) = ToSet(s) \cup Waiting(below)
  <2>1. ASSUME NEW q \in Waiting(calls)
        PROVE  q \in ToSet(s) \cup Waiting(below)
    <3>1. PICK k \in 1..Len(calls) : \E i \in 1..Len(calls[k]) : q = calls[k][i]
      BY <1>6, <2>1
    <3>2. CASE k = 1
      BY <1>10, <3>1, <3>2 DEF s
    <3>3. CASE k # 1
      BY <1>8, <1>11, <3>1, <3>3
    <3>4. QED
      BY <3>2, <3>3
  <2>2. ASSUME NEW q \in ToSet(s)
        PROVE  q \in Waiting(calls)
    BY <1>3, <1>6, <1>10, <2>2 DEF s
  <2>3. ASSUME NEW q \in Waiting(below)
        PROVE  q \in Waiting(calls)
    <3>1. PICK k \in 1..Len(below) : \E i \in 1..Len(below[k]) : q = below[k][i]
      BY <1>8, <2>3
    <3>2. k + 1 \in 1..Len(calls) /\ calls[k + 1] = below[k]
      BY <1>2, <1>5
    <3>3. QED
      BY <1>6, <3>1, <3>2
  <2>4. QED
    BY <2>1, <2>2, <2>3
<1>13. InSequence(below)
  <2>1. SUFFICES ASSUME NEW k \in 1..Len(below), NEW l \in 1..Len(below),
                        NEW i \in 1..Len(below[k]), NEW j \in 1..Len(below[l]),
                        k < l \/ (k = l /\ i < j)
                 PROVE  Before(below[k][i], below[l][j])
    BY <1>7, InSequenceIs
  <2>2. /\ k + 1 \in 1..Len(calls) /\ l + 1 \in 1..Len(calls)
        /\ below[k] = calls[k + 1] /\ below[l] = calls[l + 1]
    BY <1>2, <1>5
  <2>3. k + 1 < l + 1 \/ (k + 1 = l + 1 /\ i < j)
    BY <2>1
  <2>4. QED
    BY <1>9, <2>2, <2>3
<1>14. \A i, j \in DOMAIN s : i < j => Before(s[i], s[j])
  BY <1>3, <1>4, <1>9 DEF s
<1>15. ASSUME NEW c \in ToSet(s), NEW q \in Waiting(below)
       PROVE  Before(c, q)
  <2>1. PICK i \in 1..Len(s) : c = s[i]
    BY <1>10, <1>15
  <2>2. PICK k \in 1..Len(below) : \E j \in 1..Len(below[k]) : q = below[k][j]
    BY <1>8, <1>15
  <2>3. PICK j \in 1..Len(below[k]) : q = below[k][j]
    BY <2>2
  <2>4. k + 1 \in 1..Len(calls) /\ calls[k + 1] = below[k] /\ 1 < k + 1
    BY <1>2, <1>5
  <2>5. QED
    BY <1>3, <1>9, <2>1, <2>3, <2>4 DEF s
<1>16. QED
  BY <1>3, <1>7, <1>12, <1>13, <1>14, <1>15 DEF below, s

\* What the calls have left when the next entry is taken.
Taken(calls) == <<Tail(calls[1])>> \o Tail(calls)

\* The entry that is next comes before all others that are left.
LEMMA NextEntry ==
    ASSUME NEW D, NEW calls \in Seq(Seq(D)), calls # <<>>, InSequence(calls),
           calls[1] # <<>>
    PROVE  /\ calls[1][1] \in D
           /\ Taken(calls) \in Seq(Seq(D)) /\ InSequence(Taken(calls))
           /\ Waiting(calls) = {calls[1][1]} \cup Waiting(Taken(calls))
           /\ \A q \in Waiting(Taken(calls)) : Before(calls[1][1], q)
<1> DEFINE rest == Taken(calls)
           below == Tail(calls)
           top == calls[1]
           s == Tail(top)
<1>1. /\ top \in Seq(D) /\ below \in Seq(Seq(D)) /\ InSequence(below)
      /\ Waiting(calls) = ToSet(top) \cup Waiting(below)
      /\ \A i, j \in DOMAIN top : i < j => Before(top[i], top[j])
      /\ \A c \in ToSet(top), q \in Waiting(below) : Before(c, q)
  BY TopAndBelow
<1>2. top # <<>> /\ rest = <<s>> \o below
  BY DEF Taken
<1> HIDE DEF rest, below, top
<1>3. /\ s \in Seq(D) /\ Len(s) \in Nat /\ Len(top) = Len(s) + 1
      /\ DOMAIN s = 1..Len(s) /\ DOMAIN top = 1..Len(top)
      /\ \A i \in 1..Len(s) : s[i] = top[i + 1]
  BY <1>1, <1>2
<1> HIDE DEF s
<1>4. top[1] \in D
  BY <1>1, <1>2
<1>5. \A i \in 1..Len(s) : i + 1 \in 1..Len(top) /\ 1 < i + 1
  BY <1>3
<1>6. 1 \in 1..Len(top)
  BY <1>3
<1>7. \A q : q \in ToSet(s) <=> \E i \in 1..Len(s) : q = s[i]
  BY <1>3 DEF ToSet
<1>8. \A q : q \in ToSet(top) <=> \E i \in 1..Len(top) : q = top[i]
  BY <1>3 DEF ToSet
<1>9. ToSet(top) = {top[1]} \cup ToSet(s)
  <2>1. ASSUME NEW q \in ToSet(top)
        PROVE  q \in {top[1]} \cup ToSet(s)
    <3>1. PICK i \in 1..Len(top) : q = top[i]
      BY <1>8, <2>1
    <3>2. CASE i # 1
      <4>1. i - 1 \in 1..Len(s) /\ (i - 1) + 1 = i
        BY <1>3, <3>2
      <4>2. QED
        BY <1>3, <1>7, <3>1, <4>1
    <3>3. QED
      BY <3>1, <3>2
  <2>2. ASSUME NEW q \in ToSet(s)
        PROVE  q \in ToSet(top)
    <3>1. PICK i \in 1..Len(s) : q = s[i]
      BY <1>7, <2>2
    <3>2. q = top[i + 1] /\ i + 1 \in 1..Len(top)
      BY <1>3, <1>5, <3>1
    <3>3. QED
      BY <1>8, <3>2
  <2>3. top[1] \in ToSet(top)
    BY <1>6, <1>8
  <2>4. QED
    BY <2>1, <2>2, <2>3
<1>10. \A i, j \in DOMAIN s : i < j => Before(s[i], s[j])
  <2>1. TAKE i, j \in DOMAIN s
  <2>2. HAVE i < j
  <2>3. /\ s[i] = top[i + 1] /\ i + 1 \in DOMAIN top /\ i + 1 < j + 1
        /\ s[j] = top[j + 1] /\ j + 1 \in DOMAIN top
    BY <1>3, <1>5, <2>2
  <2>4. QED
    BY <1>1, <2>3
<1>11. \A c \in ToSet(s), q \in Waiting(below) : Before(c, q)
  BY <1>1, <1>9
<1>12. InSequence(below) /\ below \in Seq(Seq(D)) /\ s \in Seq(D)
  BY <1>1, <1>3
<1>13. /\ rest \in Seq(Seq(D)) /\ InSequence(rest)
       /\ Waiting(rest) = ToSet(s) \cup Waiting(below)
  <2>1. /\ <<s>> \o below \in Seq(Seq(D)) /\ InSequence(<<s>> \o below)
        /\ Waiting(<<s>> \o below) = ToSet(s) \cup Waiting(below)
    <3>1. /\ s \in Seq(D) /\ below \in Seq(Seq(D)) /\ InSequence(below)
      BY <1>12
    <3>2. QED
      BY <1>10, <1>11, <3>1, OnTop, Zenon
  <2>2. QED
    BY <1>2, <2>1, Zenon
<1>14. ASSUME NEW q \in ToSet(s)
       PROVE  Before(top[1], q)
  <2>1. PICK i \in 1..Len(s) : q = s[i]
    BY <1>7, <1>14
  <2>2. q = top[i + 1] /\ i + 1 \in DOMAIN top /\ 1 \in DOMAIN top /\ 1 < i + 1
    BY <1>3, <1>5, <1>6, <2>1
  <2>3. QED
    BY <1>1, <2>2
<1>15. ASSUME NEW q \in Waiting(below)
       PROVE  Before(top[1], q)
  BY <1>1, <1>6, <1>8, <1>15
<1>16. Waiting(calls) = {top[1]} \cup Waiting(rest)
  BY <1>1, <1>9, <1>13
<1>17. QED
  BY <1>4, <1>13, <1>14, <1>15, <1>16 DEF top, rest
-----------------------------------------------------------------------------
(* A visit                                                                 *)

\* What a visit of path e leaves to be visited.
Opened(e) ==
    IF tree[e].type = "dir" /\ tree[e].fails # "type" THEN Children(e) ELSE {}

\* It leaves only what is reached and below e, and so before what was left.
LEMMA OpenedIs ==
    ASSUME tree \in Trees, NEW e \in DOMAIN tree, Reached(e), NEW c \in Opened(e)
    PROVE  /\ c \in DOMAIN tree /\ c # <<>> /\ Reached(c)
           /\ c \in Seq(Nat) /\ Under(e, c) /\ c # e
<1>1. /\ tree[e].type = "dir" /\ tree[e].fails # "type" /\ c \in Children(e)
  BY DEF Opened
<1>2. Reached(c)
  BY <1>1, ReachedChild
<1>3. /\ c \in DOMAIN tree /\ c # <<>> /\ c \in Seq(Nat) /\ Under(e, c)
      /\ Len(e) + 1 = Len(c) /\ Len(e) \in Nat
  BY <1>1, ChildIs
<1>4. QED
  BY <1>2, <1>3

\* After it the walk is past e, and past nothing else that it was not past before.
LEMMA PastGrows ==
    ASSUME tree \in Trees, NEW left, left \subseteq DOMAIN tree,
           NEW e \in DOMAIN tree, e # <<>>, Reached(e),
           \A q \in left : Before(e, q), NEW p \in DOMAIN tree
    PROVE  Past(p, Opened(e) \cup left) <=> Past(p, {e} \cup left) \/ p = e
<1>1. e \in Seq(Nat) /\ p \in Seq(Nat) /\ left \subseteq Seq(Nat)
  BY PathsOf
<1>2. ASSUME p = e
      PROVE  Past(p, Opened(e) \cup left)
  <2>1. ASSUME NEW q \in left
        PROVE  ~Under(q, e)
    BY <1>1, BeforeApart
  <2>2. ASSUME NEW q \in Opened(e)
        PROVE  ~Under(q, e)
    <3>1. q \in Seq(Nat) /\ Under(e, q) /\ q # e
      BY OpenedIs
    <3>2. SUFFICES ASSUME Under(q, e)
                   PROVE  FALSE
      OBVIOUS
    <3>3. Len(q) = Len(e) /\ \A i \in 1..Len(e) : q[i] = e[i]
      <4>1. /\ Len(e) <= Len(q) /\ \A i \in 1..Len(e) : q[i] = e[i]
            /\ Len(q) <= Len(e)
        BY <3>1, <3>2 DEF Under
      <4>2. Len(e) \in Nat /\ Len(q) \in Nat
        BY <1>1, <3>1
      <4>3. QED
        BY <4>1, <4>2
    <3>4. q = e
      BY <1>1, <3>1, <3>3, SamePath
    <3>5. QED
      BY <3>1, <3>4
  <2>3. QED
    BY <1>2, <2>1, <2>2 DEF Past
<1>3. ASSUME Past(p, {e} \cup left)
      PROVE  Past(p, Opened(e) \cup left)
  <2>1. /\ p # <<>> /\ Reached(p) /\ ~Under(e, p)
        /\ \A q \in left : ~Under(q, p)
    BY <1>3 DEF Past
  <2>2. ASSUME NEW q \in Opened(e)
        PROVE  ~Under(q, p)
    <3>1. q \in Seq(Nat) /\ Under(e, q)
      BY OpenedIs
    <3>2. QED
      BY <1>1, <2>1, <3>1, UnderTwice
  <2>3. QED
    BY <2>1, <2>2 DEF Past
<1>4. ASSUME Past(p, Opened(e) \cup left), p # e
      PROVE  Past(p, {e} \cup left)
  <2>1. /\ p # <<>> /\ Reached(p)
        /\ \A q \in left : ~Under(q, p)
        /\ \A q \in Opened(e) : ~Under(q, p)
    BY <1>4 DEF Past
  <2>2. ~Under(e, p)
    <3>1. SUFFICES ASSUME Under(e, p)
                   PROVE  FALSE
      OBVIOUS
    <3>2. /\ tree[e].type = "dir" /\ tree[e].fails \notin {"list", "type"}
          /\ \E c \in Children(e) : Under(c, p)
      BY <1>1, <1>4, <2>1, <3>1, ReachedBelow
    <3>3. QED
      BY <2>1, <3>2 DEF Opened
  <2>3. QED
    BY <2>1, <2>2 DEF Past
<1>5. QED
  BY <1>2, <1>3, <1>4

\* A list in order stays so, and before all that is left; e may be added to it.
LEMMA ListGrows ==
    ASSUME tree \in Trees, NEW left, left \subseteq DOMAIN tree,
           NEW e \in DOMAIN tree, Reached(e), \A q \in left : Before(e, q),
           NEW list \in Seq(DOMAIN tree), Listed(list, {e} \cup left)
    PROVE  /\ Listed(list, Opened(e) \cup left)
           /\ Append(list, e) \in Seq(DOMAIN tree)
           /\ Listed(Append(list, e), left)
           /\ ToSet(Append(list, e)) = ToSet(list) \cup {e}
<1>1. e \in Seq(Nat) /\ left \subseteq Seq(Nat) /\ DOMAIN tree \subseteq Seq(Nat)
  BY PathsOf
<1>2. /\ DOMAIN list = 1..Len(list) /\ Len(list) \in Nat
      /\ \A i \in 1..Len(list) : list[i] \in DOMAIN tree
  OBVIOUS
<1>3. /\ \A i, j \in 1..Len(list) : i < j => Before(list[i], list[j])
      /\ \A i \in 1..Len(list) : Before(list[i], e)
      /\ \A i \in 1..Len(list) : \A q \in left : Before(list[i], q)
  BY <1>2 DEF Listed
<1>4. ASSUME NEW a \in Seq(Nat), Before(a, e), NEW q \in Opened(e)
      PROVE  Before(a, q)
  <2>1. q \in Seq(Nat) /\ Under(e, q)
    BY OpenedIs
  <2>2. Under(a, a)
    BY UnderSelf
  <2>3. QED
    BY <1>1, <1>4, <2>1, <2>2, BeforeBelow
<1>5. \A i \in 1..Len(list) : \A q \in Opened(e) \cup left : Before(list[i], q)
  BY <1>1, <1>2, <1>3, <1>4
<1>6. Listed(list, Opened(e) \cup left)
  BY <1>2, <1>3, <1>5 DEF Listed
<1> DEFINE more == Append(list, e)
<1>7. /\ more \in Seq(DOMAIN tree) /\ Len(more) = Len(list) + 1
      /\ DOMAIN more = 1..Len(more) /\ more[Len(more)] = e
      /\ \A i \in 1..Len(list) : more[i] = list[i]
  BY <1>2
<1> HIDE DEF more
<1>8. \A i \in 1..Len(more) : i \in 1..Len(list) \/ i = Len(more)
  BY <1>2, <1>7
<1>9. \A i \in 1..Len(list) : i \in 1..Len(more)
  BY <1>2, <1>7
<1>10. Len(more) \in 1..Len(more)
  BY <1>2, <1>7
<1>11. ToSet(more) = ToSet(list) \cup {e}
  <2>1. \A q : q \in ToSet(more) <=> \E i \in 1..Len(more) : q = more[i]
    BY <1>7 DEF ToSet
  <2>2. \A q : q \in ToSet(list) <=> \E i \in 1..Len(list) : q = list[i]
    BY <1>2 DEF ToSet
  <2>3. ASSUME NEW q \in ToSet(more)
        PROVE  q \in ToSet(list) \cup {e}
    BY <1>7, <1>8, <2>1, <2>2, <2>3
  <2>4. ASSUME NEW q \in ToSet(list)
        PROVE  q \in ToSet(more)
    BY <1>7, <1>9, <2>1, <2>2, <2>4
  <2>5. e \in ToSet(more)
    BY <1>7, <1>10, <2>1
  <2>6. QED
    BY <2>3, <2>4, <2>5
<1>12. ASSUME NEW i \in 1..Len(more), NEW j \in 1..Len(more), i < j
       PROVE  Before(more[i], more[j])
  <2>1. i \in 1..Len(list)
    BY <1>2, <1>7, <1>12
  <2>2. QED
    BY <1>3, <1>7, <1>8, <1>12, <2>1
<1>13. ASSUME NEW i \in 1..Len(more), NEW q \in left
       PROVE  Before(more[i], q)
  BY <1>3, <1>7, <1>8
<1>14. Listed(more, left)
  BY <1>7, <1>12, <1>13 DEF Listed
<1>15. QED
  BY <1>6, <1>7, <1>11, <1>14 DEF more

\* What is asked of the collection is asked of its tree and of what is left.
LEMMA SameTree ==
    ASSUME tree' = tree
    PROVE  /\ \A p : Reached(p)' <=> Reached(p)
           /\ \A p : Past(p, Waiting(stack))' <=> Past(p, Waiting(stack'))
           /\ InSequence(stack)' <=> InSequence(stack')
           /\ Waiting(stack)' = Waiting(stack')
           /\ Listed(files, Waiting(stack))' <=> Listed(files', Waiting(stack'))
           /\ Listed(skipped, Waiting(stack))' <=> Listed(skipped', Waiting(stack'))
           /\ \A p : Keeps(tree[p])' <=> Keeps(tree[p])
           /\ \A p : Skips(tree[p])' <=> Skips(tree[p])
<1>1. \A p : Reached(p)' <=> Reached(p)
  BY DEF Reached
<1>2. Waiting(stack)' = Waiting(stack')
  BY DEF Waiting, ToSet
<1>3. \A p : Past(p, Waiting(stack))' <=> Past(p, Waiting(stack'))
  BY <1>1, <1>2 DEF Past, Under
<1>4. InSequence(stack)' <=> InSequence(stack')
  BY DEF InSequence, Before
<1>5. Listed(files, Waiting(stack))' <=> Listed(files', Waiting(stack'))
  BY <1>2 DEF Listed, Before
<1>6. Listed(skipped, Waiting(stack))' <=> Listed(skipped', Waiting(stack'))
  BY <1>2 DEF Listed, Before
<1>7. /\ \A p : Keeps(tree[p])' <=> Keeps(tree[p])
      /\ \A p : Skips(tree[p])' <=> Skips(tree[p])
  BY DEF Keeps, Skips
<1>8. QED
  BY <1>1, <1>2, <1>3, <1>4, <1>5, <1>6, <1>7

\* An entry is visited.
LEMMA Visited ==
    ASSUME WalkInvariant, Visiting, UNCHANGED <<tree, walking>>,
           stack' \in Seq(Seq(DOMAIN tree)), InSequence(stack'),
           Waiting(stack') = Opened(Entry) \cup Waiting(Rest),
           files' = IF Keeps(Node) THEN Append(files, Entry) ELSE files,
           skipped' = IF Skips(Node) THEN Append(skipped, Entry) ELSE skipped
    PROVE  WalkInvariant'
<1> DEFINE left == Waiting(Rest)
           now == Waiting(stack)
           then == Waiting(stack')
<1>1. /\ walking = "yes" /\ stack # <<>> /\ stack[1] # <<>>
      /\ tree \in Trees /\ stack \in Seq(Seq(DOMAIN tree)) /\ InSequence(stack)
      /\ files \in Seq(DOMAIN tree) /\ skipped \in Seq(DOMAIN tree)
      /\ \A q \in now : q # <<>> /\ Reached(q)
      /\ Listed(files, now) /\ Listed(skipped, now)
      /\ ToSet(files) = {p \in DOMAIN tree : Past(p, now) /\ Keeps(tree[p])}
      /\ ToSet(skipped) = {p \in DOMAIN tree : Past(p, now) /\ Skips(tree[p])}
  BY DEF WalkInvariant, Visiting
<1>2. /\ Entry \in DOMAIN tree /\ Rest \in Seq(Seq(DOMAIN tree))
      /\ now = {Entry} \cup left /\ \A q \in left : Before(Entry, q)
  <2>1. Rest = Taken(stack)
    BY DEF Rest, Taken
  <2>2. /\ stack[1][1] \in DOMAIN tree /\ Taken(stack) \in Seq(Seq(DOMAIN tree))
        /\ Waiting(stack) = {stack[1][1]} \cup Waiting(Taken(stack))
        /\ \A q \in Waiting(Taken(stack)) : Before(stack[1][1], q)
    BY <1>1, NextEntry
  <2>3. QED
    BY <2>1, <2>2 DEF Entry
<1>3. left \subseteq DOMAIN tree
  BY <1>2, WaitingIs
<1>4. then = Opened(Entry) \cup left
  OBVIOUS
<1> DEFINE e == Entry
<1>5. Node = tree[e]
  BY DEF Node
<1>6. e \in DOMAIN tree /\ e # <<>> /\ Reached(e)
  BY <1>1, <1>2
<1> HIDE DEF left, now, then, e
<1>7. \A p \in DOMAIN tree : Past(p, then) <=> Past(p, now) \/ p = e
  BY <1>1, <1>2, <1>3, <1>4, <1>6, PastGrows DEF e
<1>8. /\ \A q \in then : q # <<>> /\ Reached(q)
  BY <1>1, <1>2, <1>4, <1>6, OpenedIs DEF e
<1>9. ASSUME NEW list \in Seq(DOMAIN tree), Listed(list, now)
      PROVE  /\ Listed(list, then)
             /\ Append(list, e) \in Seq(DOMAIN tree)
             /\ Opened(e) = {} => Listed(Append(list, e), then)
             /\ ToSet(Append(list, e)) = ToSet(list) \cup {e}
  <2>1. Listed(list, {e} \cup left)
    BY <1>2, <1>9 DEF e
  <2>2. \A q \in left : Before(e, q)
    BY <1>2 DEF e
  <2>3. /\ Listed(list, Opened(e) \cup left)
        /\ Append(list, e) \in Seq(DOMAIN tree)
        /\ Listed(Append(list, e), left)
        /\ ToSet(Append(list, e)) = ToSet(list) \cup {e}
    BY <1>1, <1>3, <1>6, <2>1, <2>2, ListGrows
  <2>4. Opened(e) = {} => then = left
    BY <1>4 DEF e
  <2>5. then = Opened(e) \cup left
    BY <1>4 DEF e
  <2>6. QED
    BY <2>3, <2>4, <2>5
<1>10. Keeps(tree[e]) \/ Skips(tree[e]) => Opened(e) = {}
  BY DEF Keeps, Skips, Opened
<1>11. /\ files' \in Seq(DOMAIN tree) /\ Listed(files', then)
       /\ ToSet(files') = {p \in DOMAIN tree : Past(p, then) /\ Keeps(tree[p])}
  <2>1. CASE Keeps(tree[e])
    <3>1. files' = Append(files, e)
      BY <1>5, <2>1 DEF e
    <3>2. /\ files' \in Seq(DOMAIN tree) /\ Listed(files', then)
          /\ ToSet(files') = ToSet(files) \cup {e}
      BY <1>1, <1>9, <1>10, <2>1, <3>1
    <3>3. QED
      BY <1>1, <1>6, <1>7, <2>1, <3>2
  <2>2. CASE ~Keeps(tree[e])
    <3>1. files' = files
      BY <1>5, <2>2
    <3>2. files' \in Seq(DOMAIN tree) /\ Listed(files', then)
      BY <1>1, <1>9, <3>1
    <3>3. QED
      BY <1>1, <1>7, <2>2, <3>1, <3>2
  <2>3. QED
    BY <2>1, <2>2
<1>12. /\ skipped' \in Seq(DOMAIN tree) /\ Listed(skipped', then)
       /\ ToSet(skipped') = {p \in DOMAIN tree : Past(p, then) /\ Skips(tree[p])}
  <2>1. CASE Skips(tree[e])
    <3>1. skipped' = Append(skipped, e)
      BY <1>5, <2>1 DEF e
    <3>2. /\ skipped' \in Seq(DOMAIN tree) /\ Listed(skipped', then)
          /\ ToSet(skipped') = ToSet(skipped) \cup {e}
      BY <1>1, <1>9, <1>10, <2>1, <3>1
    <3>3. QED
      BY <1>1, <1>6, <1>7, <2>1, <3>2
  <2>2. CASE ~Skips(tree[e])
    <3>1. skipped' = skipped
      BY <1>5, <2>2
    <3>2. skipped' \in Seq(DOMAIN tree) /\ Listed(skipped', then)
      BY <1>1, <1>9, <3>1
    <3>3. QED
      BY <1>1, <1>7, <2>2, <3>1, <3>2
  <2>3. QED
    BY <2>1, <2>2
<1>13. tree' = tree /\ walking' = "yes"
  BY <1>1
<1>14. /\ \A q \in Waiting(stack)' : q # <<>> /\ Reached(q)'
       /\ InSequence(stack)'
       /\ Listed(files, Waiting(stack))' /\ Listed(skipped, Waiting(stack))'
  BY <1>8, <1>11, <1>12, <1>13, SameTree DEF then
<1>15. /\ ToSet(files') = {p \in DOMAIN tree :
                             Past(p, Waiting(stack))' /\ Keeps(tree[p])'}
       /\ ToSet(skipped') = {p \in DOMAIN tree :
                               Past(p, Waiting(stack))' /\ Skips(tree[p])'}
  BY <1>11, <1>12, <1>13, SameTree DEF then
<1>16. /\ stack' \in Seq(Seq(DOMAIN tree'))
       /\ files' \in Seq(DOMAIN tree') /\ skipped' \in Seq(DOMAIN tree')
       /\ tree' \in Trees
  BY <1>1, <1>11, <1>12, <1>13
<1>17. QED
  BY <1>13, <1>14, <1>15, <1>16 DEF WalkInvariant
-----------------------------------------------------------------------------
(* The steps of the walk                                                   *)

\* The entry that is visited, and what is left without it.
LEMMA VisitingIs ==
    ASSUME WalkInvariant, Visiting
    PROVE  /\ tree \in Trees /\ walking = "yes"
           /\ Entry \in DOMAIN tree /\ Reached(Entry) /\ Node = tree[Entry]
           /\ Rest \in Seq(Seq(DOMAIN tree)) /\ InSequence(Rest)
           /\ \A q \in Waiting(Rest) : Before(Entry, q) /\ q \in DOMAIN tree
<1>1. /\ walking = "yes" /\ stack # <<>> /\ stack[1] # <<>>
      /\ tree \in Trees /\ stack \in Seq(Seq(DOMAIN tree)) /\ InSequence(stack)
      /\ \A q \in Waiting(stack) : Reached(q)
  BY DEF WalkInvariant, Visiting
<1>2. Rest = Taken(stack)
  BY DEF Rest, Taken
<1>3. /\ stack[1][1] \in DOMAIN tree
      /\ Taken(stack) \in Seq(Seq(DOMAIN tree)) /\ InSequence(Taken(stack))
      /\ Waiting(stack) = {stack[1][1]} \cup Waiting(Taken(stack))
      /\ \A q \in Waiting(Taken(stack)) : Before(stack[1][1], q)
  BY <1>1, NextEntry
<1>4. Waiting(Taken(stack)) \subseteq DOMAIN tree
  BY <1>3, WaitingIs
<1>5. QED
  BY <1>1, <1>2, <1>3, <1>4 DEF Entry, Node

\* A file is added.
LEMMA AddFileKeeps ==
    ASSUME WalkInvariant, AddFile
    PROVE  WalkInvariant'
<1>1. Visiting /\ Keeps(Node) /\ UNCHANGED <<tree, walking>>
      /\ stack' = Rest /\ files' = Append(files, Entry) /\ skipped' = skipped
  BY DEF AddFile
<1>2. ~Skips(Node) /\ Node.type # "dir"
  BY <1>1 DEF Keeps, Skips
<1>3. Rest \in Seq(Seq(DOMAIN tree)) /\ InSequence(Rest) /\ Node = tree[Entry]
  BY <1>1, VisitingIs
<1>4. Opened(Entry) = {}
  BY <1>2, <1>3 DEF Opened
<1>5. /\ stack' \in Seq(Seq(DOMAIN tree)) /\ InSequence(stack')
      /\ Waiting(stack') = Opened(Entry) \cup Waiting(Rest)
  BY <1>1, <1>3, <1>4
<1>6. QED
  BY <1>1, <1>2, <1>5, Visited

\* An entry is skipped.
LEMMA SkipKeeps ==
    ASSUME WalkInvariant, Skip
    PROVE  WalkInvariant'
<1>1. /\ Visiting /\ ~Keeps(Node) /\ UNCHANGED <<tree, walking>>
      /\ Node.fails = "type" \/ Node.type # "dir"
      /\ stack' = Rest /\ skipped' = Append(skipped, Entry) /\ files' = files
  BY DEF Skip
<1>2. Skips(Node)
  BY <1>1 DEF Skips
<1>3. Rest \in Seq(Seq(DOMAIN tree)) /\ InSequence(Rest) /\ Node = tree[Entry]
  BY <1>1, VisitingIs
<1>4. Opened(Entry) = {}
  BY <1>1, <1>3 DEF Opened
<1>5. /\ stack' \in Seq(Seq(DOMAIN tree)) /\ InSequence(stack')
      /\ Waiting(stack') = Opened(Entry) \cup Waiting(Rest)
  BY <1>1, <1>3, <1>4
<1>6. QED
  BY <1>1, <1>2, <1>5, Visited

\* A directory is listed on top of what was left.
LEMMA Listing ==
    ASSUME tree \in Trees, NEW d \in DOMAIN tree, NEW below \in Seq(Seq(DOMAIN tree)),
           InSequence(below),
           \A c \in Children(d), q \in Waiting(below) : Before(c, q),
           Walk(d, below)
    PROVE  /\ stack' \in Seq(Seq(DOMAIN tree)) /\ InSequence(stack')
           /\ Waiting(stack') = Children(d) \cup Waiting(below)
<1>1. PICK listing \in SetToSeqs(Children(d)) : stack' = <<Sorted(listing)>> \o below
  BY DEF Walk
<1> DEFINE s == Sorted(listing)
<1>2. /\ s \in Seq(DOMAIN tree) /\ ToSet(s) = Children(d)
      /\ \A i, j \in DOMAIN s : i < j => Before(s[i], s[j])
  BY SortedListing
<1>3. stack' = <<s>> \o below
  BY <1>1
<1> HIDE DEF s
<1>4. \A c \in ToSet(s), q \in Waiting(below) : Before(c, q)
  BY <1>2
<1>5. /\ <<s>> \o below \in Seq(Seq(DOMAIN tree)) /\ InSequence(<<s>> \o below)
      /\ Waiting(<<s>> \o below) = ToSet(s) \cup Waiting(below)
  <2>1. s \in Seq(DOMAIN tree) /\ \A i, j \in DOMAIN s : i < j => Before(s[i], s[j])
    BY <1>2
  <2>2. QED
    BY <1>4, <2>1, OnTop
<1>6. QED
  BY <1>2, <1>3, <1>5, Zenon

\* A directory is walked.
LEMMA DescendKeeps ==
    ASSUME WalkInvariant, Descend
    PROVE  WalkInvariant'
<1>1. /\ Visiting /\ Node.fails # "type" /\ Node.type = "dir"
      /\ Walk(Entry, Rest) /\ UNCHANGED <<tree, walking>>
      /\ files' = files /\ skipped' = skipped
  BY DEF Descend
<1>2. ~Keeps(Node) /\ ~Skips(Node)
  BY <1>1 DEF Keeps, Skips
<1>3. /\ tree \in Trees /\ Entry \in DOMAIN tree /\ Reached(Entry)
      /\ Rest \in Seq(Seq(DOMAIN tree)) /\ InSequence(Rest) /\ Node = tree[Entry]
      /\ \A q \in Waiting(Rest) : Before(Entry, q) /\ q \in DOMAIN tree
  BY <1>1, VisitingIs
<1>4. Opened(Entry) = Children(Entry)
  BY <1>1, <1>3 DEF Opened
<1>5. ASSUME NEW c \in Children(Entry), NEW q \in Waiting(Rest)
      PROVE  Before(c, q)
  <2>1. c \in Seq(Nat) /\ Under(Entry, c)
    BY <1>3, ChildIs
  <2>2. Entry \in Seq(Nat) /\ q \in Seq(Nat) /\ Under(q, q)
    BY <1>3, PathsOf, UnderSelf
  <2>3. QED
    BY <1>3, <2>1, <2>2, BeforeBelow
<1>6. /\ stack' \in Seq(Seq(DOMAIN tree)) /\ InSequence(stack')
      /\ Waiting(stack') = Opened(Entry) \cup Waiting(Rest)
  BY <1>1, <1>3, <1>4, <1>5, Listing
<1>7. QED
  BY <1>1, <1>2, <1>6, Visited

\* The collection is opened.
LEMMA OpenCollectionKeeps ==
    ASSUME WalkInvariant, OpenCollection
    PROVE  WalkInvariant'
<1>1. /\ walking = "no" /\ tree' = tree /\ files' = files /\ skipped' = skipped
      /\ tree \in Trees /\ stack = <<>> /\ files = <<>> /\ skipped = <<>>
  BY DEF OpenCollection, WalkInvariant
<1>2. CASE walking' = "error" /\ stack' = stack
  BY <1>1, <1>2 DEF WalkInvariant
<1>3. CASE walking' = "yes" /\ Walk(<<>>, <<>>) /\ tree[<<>>].type = "dir"
  <2> DEFINE root == <<>>
             then == Waiting(stack')
  <2>1. /\ root \in DOMAIN tree /\ tree[root].fails # "type" /\ root \in Seq(Nat)
        /\ tree[root].type = "dir" /\ \A p \in Seq(Nat) : Under(root, p)
    BY <1>1, <1>3, PathsOf DEF Under
  <2>2. Reached(root)
    BY DEF Reached
  <2> DEFINE none == <<>>
  <2>3. /\ none \in Seq(Seq(DOMAIN tree)) /\ Waiting(none) = {} /\ InSequence(none)
    BY DEF Waiting, InSequence
  <2>4. Walk(root, none)
    BY <1>3
  <2> HIDE DEF root, none
  <2>5. /\ stack' \in Seq(Seq(DOMAIN tree)) /\ InSequence(stack')
        /\ then = Children(root)
    BY <1>1, <2>1, <2>3, <2>4, Listing
  <2> HIDE DEF then
  <2>6. \A q \in then : q # <<>> /\ Reached(q)
    BY <1>1, <2>1, <2>2, <2>5, ReachedChild, ChildIs
  <2>7. ASSUME NEW p \in DOMAIN tree
        PROVE  ~Past(p, then)
    <3>1. SUFFICES ASSUME Past(p, then)
                   PROVE  FALSE
      OBVIOUS
    <3>2. /\ p # <<>> /\ Reached(p) /\ \A q \in then : ~Under(q, p)
      BY <3>1 DEF Past
    <3>3. p \in Seq(Nat) /\ p # root
      BY <1>1, <3>2, PathsOf DEF root
    <3>4. \E c \in Children(root) : Under(c, p)
      BY <1>1, <2>1, <3>2, <3>3, ReachedBelow
    <3>5. QED
      BY <2>5, <3>2, <3>4
  <2>8. /\ files' = <<>> /\ skipped' = <<>>
        /\ ToSet(files') = {} /\ ToSet(skipped') = {}
        /\ Listed(files', then) /\ Listed(skipped', then)
    BY <1>1 DEF ToSet, Listed
  <2>9. /\ \A q \in Waiting(stack)' : q # <<>> /\ Reached(q)'
        /\ InSequence(stack)'
        /\ Listed(files, Waiting(stack))' /\ Listed(skipped, Waiting(stack))'
    BY <1>1, <2>5, <2>6, <2>8, SameTree DEF then
  <2>10. \A p \in DOMAIN tree : ~Past(p, Waiting(stack))'
    BY <1>1, <2>7, SameTree DEF then
  <2>11. /\ ToSet(files') = {p \in DOMAIN tree :
                               Past(p, Waiting(stack))' /\ Keeps(tree[p])'}
         /\ ToSet(skipped') = {p \in DOMAIN tree :
                                 Past(p, Waiting(stack))' /\ Skips(tree[p])'}
    BY <2>8, <2>10
  <2>12. /\ stack' \in Seq(Seq(DOMAIN tree')) /\ walking' = "yes" /\ tree' = tree
         /\ files' \in Seq(DOMAIN tree') /\ skipped' \in Seq(DOMAIN tree')
         /\ tree' \in Trees
    BY <1>1, <1>3, <2>5, <2>8
  <2>13. QED
    BY <2>9, <2>11, <2>12 DEF WalkInvariant
<1>4. QED
  BY <1>2, <1>3 DEF OpenCollection

\* A directory is done with.
LEMMA ReturnFromWalkKeeps ==
    ASSUME WalkInvariant, ReturnFromWalk
    PROVE  WalkInvariant'
<1>1. /\ walking = "yes" /\ stack # <<>> /\ stack[1] = <<>>
      /\ stack' = Tail(stack) /\ tree' = tree /\ files' = files /\ skipped' = skipped
      /\ walking' \in {"yes", "done"} /\ (walking' # "yes" => stack' = <<>>)
  BY DEF ReturnFromWalk
<1>2. /\ tree \in Trees /\ stack \in Seq(Seq(DOMAIN tree)) /\ InSequence(stack)
      /\ files \in Seq(DOMAIN tree) /\ skipped \in Seq(DOMAIN tree)
      /\ \A q \in Waiting(stack) : q # <<>> /\ Reached(q)
      /\ Listed(files, Waiting(stack)) /\ Listed(skipped, Waiting(stack))
      /\ ToSet(files) = {p \in DOMAIN tree :
                           Past(p, Waiting(stack)) /\ Keeps(tree[p])}
      /\ ToSet(skipped) = {p \in DOMAIN tree :
                             Past(p, Waiting(stack)) /\ Skips(tree[p])}
  BY <1>1 DEF WalkInvariant
<1>3. /\ Tail(stack) \in Seq(Seq(DOMAIN tree)) /\ InSequence(Tail(stack))
      /\ Waiting(stack) = ToSet(stack[1]) \cup Waiting(Tail(stack))
  BY <1>1, <1>2, TopAndBelow
<1>4. ToSet(stack[1]) = {}
  BY <1>1 DEF ToSet
<1>5. /\ stack' \in Seq(Seq(DOMAIN tree)) /\ InSequence(stack')
      /\ Waiting(stack') = Waiting(stack)
  BY <1>1, <1>3, <1>4
<1>6. /\ \A q \in Waiting(stack)' : q # <<>> /\ Reached(q)'
      /\ InSequence(stack)'
      /\ Listed(files, Waiting(stack))' /\ Listed(skipped, Waiting(stack))'
  BY <1>1, <1>2, <1>5, SameTree
<1>7. /\ ToSet(files') = {p \in DOMAIN tree :
                            Past(p, Waiting(stack))' /\ Keeps(tree[p])'}
      /\ ToSet(skipped') = {p \in DOMAIN tree :
                              Past(p, Waiting(stack))' /\ Skips(tree[p])'}
  BY <1>1, <1>2, <1>5, SameTree
<1>8. /\ stack' \in Seq(Seq(DOMAIN tree')) /\ tree' \in Trees
      /\ files' \in Seq(DOMAIN tree') /\ skipped' \in Seq(DOMAIN tree')
  BY <1>1, <1>2, <1>5
<1>9. QED
  BY <1>1, <1>6, <1>7, <1>8 DEF WalkInvariant

\* Before it is opened nothing is known of the collection.
LEMMA WalkBegins == CollectionInit => WalkInvariant
<1>1. SUFFICES ASSUME CollectionInit
               PROVE  WalkInvariant
  OBVIOUS
<1>2. /\ tree \in Trees /\ walking = "no" /\ stack = <<>>
      /\ files = <<>> /\ skipped = <<>>
  BY <1>1 DEF CollectionInit
<1>3. /\ stack \in Seq(Seq(DOMAIN tree))
      /\ files \in Seq(DOMAIN tree) /\ skipped \in Seq(DOMAIN tree)
  BY <1>2
<1>4. QED
  BY <1>2, <1>3 DEF WalkInvariant

\* What does not touch the collection leaves it as it is.
LEMMA WalkUntouched ==
    ASSUME WalkInvariant, UNCHANGED collection
    PROVE  WalkInvariant'
<1>1. /\ tree' = tree /\ walking' = walking /\ stack' = stack
      /\ files' = files /\ skipped' = skipped
  BY DEF collection
<1>2. /\ \A p : Reached(p)' <=> Reached(p)
      /\ \A p : Past(p, Waiting(stack))' <=> Past(p, Waiting(stack))
      /\ InSequence(stack)' <=> InSequence(stack)
      /\ Waiting(stack)' = Waiting(stack)
      /\ Listed(files, Waiting(stack))' <=> Listed(files, Waiting(stack))
      /\ Listed(skipped, Waiting(stack))' <=> Listed(skipped, Waiting(stack))
      /\ \A p : Keeps(tree[p])' <=> Keeps(tree[p])
      /\ \A p : Skips(tree[p])' <=> Skips(tree[p])
  BY <1>1, SameTree
<1>3. QED
  BY <1>1, <1>2 DEF WalkInvariant

\* Every step of an intake keeps the invariant of the walk.
LEMMA WalkCorrect == Spec => []WalkInvariant
<1>1. Init => WalkInvariant
  BY WalkBegins DEF Init
<1>2. WalkInvariant /\ [Next]_vars => WalkInvariant'
  <2>1. SUFFICES ASSUME WalkInvariant, [Next]_vars
                 PROVE  WalkInvariant'
    OBVIOUS
  <2>2. CASE WalkTree
    <3>1. WalkStep
      BY <2>2 DEF WalkTree
    <3>2. QED
      BY <2>1, <3>1, OpenCollectionKeeps, DescendKeeps, AddFileKeeps, SkipKeeps,
         ReturnFromWalkKeeps DEF WalkStep
  <2>3. CASE ~WalkTree
    <3>1. UNCHANGED collection
      BY <2>1, <2>3 DEF Next, vars, OpenNext, OpenImage, Read, Proceed, LetGo
    <3>2. QED
      BY <2>1, <3>1, WalkUntouched
  <2>4. QED
    BY <2>2, <2>3
<1>3. QED
  BY <1>1, <1>2, PTL DEF Spec

\* However the system lists the directories, the walk of a tree of any size and
\* depth lists exactly the files that can be reached and are told to be sources,
\* each once and in the order of their paths, and reports as skipped exactly what
\* else was come to (collection.rs:59-90).
THEOREM WalkIsExact == Spec => []WalkExact
<1>1. WalkInvariant => WalkExact
  <2>1. SUFFICES ASSUME WalkInvariant, walking = "done"
                 PROVE  WalkExact
    BY DEF WalkExact
  <2> DEFINE reached == {p \in DOMAIN tree \ {<<>>} : Reached(p)}
             kept == {p \in reached : Keeps(tree[p])}
             left == {p \in reached \ kept :
                        tree[p].type # "dir" \/ tree[p].fails = "type"}
  <2>2. /\ stack = <<>> /\ files \in Seq(DOMAIN tree) /\ skipped \in Seq(DOMAIN tree)
        /\ Listed(files, Waiting(stack)) /\ Listed(skipped, Waiting(stack))
        /\ ToSet(files) = {p \in DOMAIN tree :
                             Past(p, Waiting(stack)) /\ Keeps(tree[p])}
        /\ ToSet(skipped) = {p \in DOMAIN tree :
                               Past(p, Waiting(stack)) /\ Skips(tree[p])}
        /\ tree \in Trees
    BY <2>1 DEF WalkInvariant
  <2>3. Waiting(stack) = {}
    BY <2>2 DEF Waiting
  <2>4. \A p \in DOMAIN tree : Past(p, Waiting(stack)) <=> p \in reached
    BY <2>3 DEF Past
  <2>5. ToSet(files) = kept
    BY <2>2, <2>4
  <2>6. ToSet(skipped) = left
    BY <2>2, <2>4 DEF Skips
  <2>7. ASSUME NEW list \in Seq(DOMAIN tree), Listed(list, Waiting(stack))
        PROVE  /\ Len(list) = Cardinality(ToSet(list))
               /\ \A i, j \in DOMAIN list : i < j => Before(list[i], list[j])
    <3>1. \A i, j \in DOMAIN list : i < j => Before(list[i], list[j])
      BY <2>7 DEF Listed
    <3>2. DOMAIN list = 1..Len(list) /\ \A i \in 1..Len(list) : list[i] \in Seq(Nat)
      BY <2>2, PathsOf
    <3>3. \A i, j \in 1..Len(list) : i < j => list[i] # list[j]
      BY <3>1, <3>2, BeforeApart
    <3>4. QED
      BY <3>1, <3>3, CountedOnce
  <2> HIDE DEF kept, left
  <2>8. /\ Len(files) = Cardinality(kept) /\ ToSet(files) = kept
        /\ \A i, j \in DOMAIN files : i < j => Before(files[i], files[j])
    BY <2>2, <2>5, <2>7
  <2>9. /\ Len(skipped) = Cardinality(ToSet(skipped)) /\ ToSet(skipped) = left
    BY <2>2, <2>6, <2>7
  <2>10. QED
    BY <2>8, <2>9 DEF WalkExact, kept, left
<1>2. QED
  BY <1>1, WalkCorrect, PTL
-----------------------------------------------------------------------------
(***************************************************************************)
(* Types.  That a position is one of the image and a read no longer than   *)
(* what was asked for takes what the bounds of read_at leave: a thread that*)
(* waits for the mutex, or has it, wants bytes of the image.               *)
(***************************************************************************)

InBounds(call) ==
    /\ Len(call.got) <= call.want.n
    /\ call.at \in {"locking", "locked", "reading"} =>
          call.want.offset + Len(call.got) <= MediaSize

EwfBounds ==
    /\ \A p \in Images : ewf[p].position \in 0..MediaSize
    /\ \A t \in Threads : reader[t] # Idle => InBounds(reader[t])

\* To open an image moves no position.
LEMMA OpenMovesNothing ==
    ASSUME EwfInvariant, NEW p \in Images, Begin(p) \/ OpenEwf(p)
    PROVE  /\ reader' = reader
           /\ \A q \in Images : ewf'[q].position = ewf[q].position
<1>1. ewf \in [Images -> Image] /\ ewf[p] \in Image
  BY DEF EwfInvariant, EwfType
<1>2. reader' = reader
  BY DEF Begin, OpenEwf, Glob, Initialize, OpenHandle, GetMediaSize, GetHashes
<1> DEFINE Moves(e) == ewf' = [ewf EXCEPT ![p] = e] /\ e.position = ewf[p].position
<1>3. \E e : Moves(e)
  <2>1. CASE Begin(p)
    <3> DEFINE e == [ewf[p] EXCEPT !.at = "begun"]
    <3>1. Moves(e)
      BY <1>1, <2>1 DEF Begin, Image
    <3>2. QED
      BY <3>1
  <2>2. CASE Glob(p)
    <3>1. PICK e \in {[ewf[p] EXCEPT !.at = "globbed", !.names = "held"],
                      [ewf[p] EXCEPT !.at = "failed"]} :
                        ewf' = [ewf EXCEPT ![p] = e]
      BY <2>2 DEF Glob, Call
    <3>2. e.position = ewf[p].position
      BY <1>1, <3>1 DEF Image
    <3>3. QED
      BY <3>1, <3>2
  <2>3. CASE Initialize(p)
    <3>1. PICK e \in {[ewf[p] EXCEPT !.at = "initialized", !.handle = "closed"],
                      [ewf[p] EXCEPT !.at = "failed", !.names = "freed"]} :
                        ewf' = [ewf EXCEPT ![p] = e]
      BY <2>3 DEF Initialize, Call
    <3>2. e.position = ewf[p].position
      BY <1>1, <3>1 DEF Image
    <3>3. QED
      BY <3>1, <3>2
  <2>4. CASE OpenHandle(p)
    <3>1. PICK e \in {[ewf[p] EXCEPT !.at = "opened", !.names = "freed",
                                     !.handle = "open"],
                      [ewf[p] EXCEPT !.at = "failed", !.names = "freed",
                                     !.handle = "freed"]} :
                        ewf' = [ewf EXCEPT ![p] = e]
      BY <2>4 DEF OpenHandle, Call
    <3>2. e.position = ewf[p].position
      BY <1>1, <3>1 DEF Image
    <3>3. QED
      BY <3>1, <3>2
  <2>5. CASE GetMediaSize(p)
    <3>1. PICK e \in {[ewf[p] EXCEPT !.at = "sized"],
                      [ewf[p] EXCEPT !.at = "failed", !.handle = "freed"]} :
                        ewf' = [ewf EXCEPT ![p] = e]
      BY <2>5 DEF GetMediaSize, Call
    <3>2. e.position = ewf[p].position
      BY <1>1, <3>1 DEF Image
    <3>3. QED
      BY <3>1, <3>2
  <2>6. CASE GetHashes(p)
    <3> DEFINE e == [ewf[p] EXCEPT !.at = "live"]
    <3>1. Moves(e)
      BY <1>1, <2>6 DEF GetHashes, Call, Image
    <3>2. QED
      BY <3>1
  <2>7. QED
    BY <2>1, <2>2, <2>3, <2>4, <2>5, <2>6 DEF OpenEwf
<1>4. PICK e : Moves(e)
  BY <1>3
<1>5. \A q \in Images : ewf'[q].position = ewf[q].position
  BY <1>1, <1>4
<1>6. QED
  BY <1>2, <1>5

\* Amount is at most what is left of the request and of the image.
LEMMA AmountBounds ==
    ASSUME EwfInvariant, NEW t \in Threads, reader[t] # Idle
    PROVE  /\ Amount(t) <= Left(t) /\ Amount(t) <= MediaSize - Offset(t)
           /\ Len(reader[t].got) \in Nat /\ reader[t].want.n \in Nat
           /\ reader[t].want.offset \in Nat
<1>1. reader[t] \in Reading /\ Offset(t) \in Nat /\ Left(t) \in Int
  BY AmountType
<1>2. /\ Len(reader[t].got) \in Nat /\ reader[t].want.n \in Nat
      /\ reader[t].want.offset \in Nat
  BY <1>1, EwfAssumption DEF Reading
<1> DEFINE a == Left(t)
           b == MediaSize - Offset(t)
<1>3. a \in Int /\ b \in Int
  BY <1>1, EwfAssumption
<1> HIDE DEF a, b
<1>4. Min({a, b}) <= a /\ Min({a, b}) <= b
  BY <1>3, MinOfTwo
<1>5. QED
  BY <1>2, <1>4 DEF Amount, a, b

\* A turn of a read keeps to the image and to the request.
LEMMA ReadStepBounds ==
    ASSUME EwfInvariant, EwfBounds, NEW t \in Threads, ReadStep(t)
    PROVE  EwfBounds'
<1>1. /\ reader[t] # Idle
      /\ ewf \in [Images -> Image] /\ reader \in [Threads -> {Idle} \cup Reading]
  <2>1. reader[t].at \in {"begin", "locking", "locked", "reading"}
    BY DEF ReadStep, Bounds, Lock, Seek, ReadRandom
  <2>2. reader[t] # Idle
    BY <2>1 DEF Idle
  <2>3. QED
    BY <2>2 DEF EwfInvariant, EwfType
<1>2. /\ reader[t] \in Reading /\ reader[t].path \in Images
      /\ Offset(t) \in Nat /\ Left(t) \in Int /\ Amount(t) \in Int
      /\ Amount(t) <= Left(t) /\ Amount(t) <= MediaSize - Offset(t)
      /\ Len(reader[t].got) \in Nat /\ reader[t].want.n \in Nat
      /\ reader[t].want.offset \in Nat /\ MediaSize \in Nat
  BY <1>1, AmountType, AmountBounds, EwfAssumption
<1>3. InBounds(reader[t])
  BY <1>1 DEF EwfBounds
<1>4. ASSUME NEW call, reader' = [reader EXCEPT ![t] = call], InBounds(call),
             \A p \in Images : ewf'[p].position \in 0..MediaSize
      PROVE  EwfBounds'
  <2>1. ASSUME NEW u \in Threads, reader'[u] # Idle
        PROVE  InBounds(reader'[u])
    <3>1. CASE u = t
      BY <1>1, <1>4, <3>1
    <3>2. CASE u # t
      BY <1>1, <1>4, <2>1, <3>2 DEF EwfBounds
    <3>3. QED
      BY <3>1, <3>2
  <2>2. QED
    BY <1>4, <2>1 DEF EwfBounds, InBounds
<1>5. \A p \in Images : ewf[p].position \in 0..MediaSize
  BY DEF EwfBounds
<1>6. CASE Bounds(t)
  <2> DEFINE how == IF Left(t) = 0 THEN "ok"
                    ELSE IF Offset(t) > MediaSize \/ Amount(t) = 0 THEN "error"
                    ELSE "locking"
  <2>1. /\ reader' = [reader EXCEPT ![t] = [reader[t] EXCEPT !.at = how]]
        /\ how \in {"ok", "error"} \/ Offset(t) <= MediaSize
    <3>1. reader' = [reader EXCEPT ![t] = [reader[t] EXCEPT !.at = how]]
      BY <1>6 DEF Bounds, Answer, Turn
    <3>2. how \in {"ok", "error"} \/ Offset(t) <= MediaSize
      BY <1>2
    <3>3. QED
      BY <3>1, <3>2
  <2> HIDE DEF how
  <2>2. ewf' = ewf
    BY <1>6 DEF Bounds
  <2> DEFINE call == [reader[t] EXCEPT !.at = how]
  <2>3. /\ call.got = reader[t].got /\ call.want = reader[t].want /\ call.at = how
    BY <1>2 DEF Reading
  <2>4. reader' = [reader EXCEPT ![t] = call]
    BY <2>1
  <2> HIDE DEF call
  <2>5. InBounds(call)
    BY <1>3, <2>1, <2>3 DEF InBounds, Offset
  <2>6. QED
    BY <1>4, <1>5, <2>2, <2>4, <2>5
<1>7. CASE Lock(t)
  <2> DEFINE call == [reader[t] EXCEPT !.at = "locked"]
  <2>1. reader' = [reader EXCEPT ![t] = call] /\ ewf' = ewf /\ reader[t].at = "locking"
    BY <1>7 DEF Lock, Answer, Turn
  <2>2. /\ call.got = reader[t].got /\ call.want = reader[t].want
    BY <1>2 DEF Reading
  <2> HIDE DEF call
  <2>3. InBounds(call)
    BY <1>3, <2>1, <2>2 DEF InBounds
  <2>4. QED
    BY <1>4, <1>5, <2>1, <2>3
<1>8. CASE Seek(t)
  <2> DEFINE call == [reader[t] EXCEPT !.at = "reading"]
             p == reader[t].path
             e == [ewf[p] EXCEPT !.position = Offset(t)]
  <2>1. /\ reader' = [reader EXCEPT ![t] = call] /\ reader[t].at = "locked"
        /\ ewf' = [ewf EXCEPT ![p] = e]
    BY <1>8 DEF Seek, Answer, Turn, Call
  <2>2. /\ call.got = reader[t].got /\ call.want = reader[t].want
    BY <1>2 DEF Reading
  <2>3. e.position = Offset(t)
    BY <1>1, <1>2 DEF Image
  <2>4. Offset(t) \in 0..MediaSize
    BY <1>2, <1>3, <2>1 DEF InBounds, Offset
  <2> HIDE DEF call, e
  <2>5. \A q \in Images : ewf'[q].position \in 0..MediaSize
    BY <1>1, <1>5, <2>1, <2>3, <2>4
  <2>6. InBounds(call)
    BY <1>3, <2>1, <2>2 DEF InBounds
  <2>7. QED
    BY <1>4, <2>1, <2>5, <2>6
<1>9. CASE ReadRandom(t)
  <2> DEFINE p == reader[t].path
  <2>1. ewf' = [ewf EXCEPT ![p] = ewf[p]]
    BY <1>9 DEF ReadRandom, Call
  <2>2. ewf' = ewf
    BY <1>1, <1>2, <2>1
  <2>3. CASE Answer(t, "error")
    <3> DEFINE call == [reader[t] EXCEPT !.at = "error"]
    <3>1. reader' = [reader EXCEPT ![t] = call]
      BY <2>3 DEF Answer, Turn
    <3>2. /\ call.got = reader[t].got /\ call.want = reader[t].want
          /\ call.at = "error"
      BY <1>2 DEF Reading
    <3> HIDE DEF call
    <3>3. InBounds(call)
      BY <1>3, <3>2 DEF InBounds
    <3>4. QED
      BY <1>4, <1>5, <2>2, <3>1, <3>3
  <2>4. ASSUME NEW m \in 0..Amount(t),
               Turn(t, [reader[t] EXCEPT !.at = AfterRead(m),
                                         !.got = @ \o Media(p, ewf[p].position, m)])
        PROVE  EwfBounds'
    <3> DEFINE more == Media(p, ewf[p].position, m)
               got == reader[t].got \o more
               call == [reader[t] EXCEPT !.at = AfterRead(m), !.got = got]
    <3>1. reader' = [reader EXCEPT ![t] = call]
      BY <2>4 DEF Turn
    <3>2. /\ call.got = got /\ call.want = reader[t].want
          /\ call.at = AfterRead(m)
      BY <1>2 DEF Reading
    <3>3. Len(got) = Len(reader[t].got) + m
      <4>1. m \in Nat
        BY <1>2
      <4>2. more \in Seq({p} \X Int) /\ Len(more) = m
        BY <1>1, <1>2, <4>1 DEF Media, Image
      <4>3. reader[t].got \in Seq(Images \X Int) /\ more \in Seq(Images \X Int)
        BY <1>2, <4>2 DEF Reading
      <4> DEFINE had == reader[t].got
                 S == Images \X Int
      <4>4. had \in Seq(S) /\ more \in Seq(S)
        BY <4>3
      <4> HIDE DEF more, had, S
      <4>5. Len(had \o more) = Len(had) + Len(more)
        BY <4>4
      <4>6. QED
        BY <4>2, <4>5 DEF had
    <3> HIDE DEF got, call
    <3>4. Len(got) <= reader[t].want.n
      BY <1>2, <3>3, SMTT(30) DEF Left
    <3>5. AfterRead(m) \in {"error", "begin"}
      BY DEF AfterRead
    <3>6. InBounds(call)
      BY <3>2, <3>4, <3>5 DEF InBounds
    <3>7. QED
      BY <1>4, <1>5, <2>2, <3>1, <3>6
  <2>5. QED
    BY <1>9, <2>3, <2>4 DEF ReadRandom
<1>10. QED
  BY <1>6, <1>7, <1>8, <1>9 DEF ReadStep

\* So do all steps on images.
LEMMA EwfStaysInBounds == EwfSpec => []EwfBounds
<1>1. EwfInit => EwfBounds
  BY EwfAssumption DEF EwfInit, EwfBounds
<1>2. EwfInvariant /\ EwfBounds /\ [EwfNext]_image => EwfBounds'
  <2>1. SUFFICES ASSUME EwfInvariant, EwfBounds, [EwfNext]_image
                 PROVE  EwfBounds'
    OBVIOUS
  <2>2. /\ ewf \in [Images -> Image] /\ reader \in [Threads -> {Idle} \cup Reading]
    BY <2>1 DEF EwfInvariant, EwfType
  <2>3. ASSUME NEW p \in Images, Begin(p) \/ OpenEwf(p)
        PROVE  EwfBounds'
    <3>1. /\ reader' = reader /\ \A q \in Images : ewf'[q].position = ewf[q].position
      BY <2>1, <2>3, OpenMovesNothing
    <3>2. QED
      BY <2>1, <3>1 DEF EwfBounds, InBounds
  <2>4. ASSUME NEW t \in Threads, ReadStep(t)
        PROVE  EwfBounds'
    BY <2>1, <2>4, ReadStepBounds
  <2>5. ASSUME NEW t \in Threads, NEW p \in Images, NEW r \in Requests,
               StartRead(t, p, r)
        PROVE  EwfBounds'
    <3> DEFINE call == [at |-> "begin", path |-> p, want |-> r, got |-> <<>>]
    <3>1. reader' = [reader EXCEPT ![t] = call] /\ ewf' = ewf
      BY <2>5 DEF StartRead, Turn
    <3>2. InBounds(call)
      BY EwfAssumption DEF InBounds
    <3> HIDE DEF call
    <3>3. ASSUME NEW u \in Threads, reader'[u] # Idle
          PROVE  InBounds(reader'[u])
      <4>1. CASE u = t
        BY <2>2, <3>1, <3>2, <4>1
      <4>2. CASE u # t
        BY <2>1, <2>2, <3>1, <3>3, <4>2 DEF EwfBounds
      <4>3. QED
        BY <4>1, <4>2
    <3>4. QED
      BY <2>1, <3>1, <3>3 DEF EwfBounds, InBounds
  <2>6. ASSUME NEW p \in Images, NEW holder \in Threads \cup {Main},
               Release(p, holder)
        PROVE  EwfBounds'
    <3>1. \E e : ewf' = [ewf EXCEPT ![p] = e] /\ e.position = ewf[p].position
      <4>1. CASE refs[p] = {holder}
        <5> DEFINE e == [ewf[p] EXCEPT !.at = "dropped", !.handle = "freed"]
        <5>1. ewf' = [ewf EXCEPT ![p] = e]
          BY <2>6, <4>1 DEF Release, Call
        <5>2. e.position = ewf[p].position
          BY <2>2 DEF Image
        <5>3. QED
          BY <5>1, <5>2
      <4>2. CASE refs[p] # {holder}
        <5>1. ewf' = ewf
          BY <2>6, <4>2 DEF Release
        <5>2. ewf' = [ewf EXCEPT ![p] = ewf[p]]
          BY <2>2, <5>1
        <5>3. QED
          BY <5>2
      <4>3. QED
        BY <4>1, <4>2
    <3>2. PICK e : ewf' = [ewf EXCEPT ![p] = e] /\ e.position = ewf[p].position
      BY <3>1
    <3>3. \A q \in Images : ewf'[q].position = ewf[q].position
      BY <2>2, <3>2
    <3>4. reader' = IF holder = Main THEN reader ELSE [reader EXCEPT ![holder] = Idle]
      BY <2>6 DEF Release
    <3>5. ASSUME NEW u \in Threads, reader'[u] # Idle
          PROVE  reader'[u] = reader[u]
      BY <2>2, <3>4, <3>5
    <3>6. QED
      BY <2>1, <3>3, <3>5 DEF EwfBounds, InBounds
  <2>7. CASE UNCHANGED image
    BY <2>1, <2>7 DEF image, EwfBounds, InBounds
  <2>8. QED
    BY <2>1, <2>3, <2>4, <2>5, <2>6, <2>7 DEF EwfNext
<1>3. QED
  BY <1>1, <1>2, EwfCorrect, PTL DEF EwfSpec

\* How far the intake is.
IntakeBounds ==
    /\ opening \in BOOLEAN /\ next \in 0..Len(files) /\ reads \in 0..MaxReads
    /\ next # 0 => walking = "done"

LEMMA IntakeStaysInBounds == Spec => []IntakeBounds
<1>1. ASSUME Init
      PROVE  IntakeBounds
  <2>1. next = 0 /\ opening = FALSE /\ reads = 0 /\ files = <<>>
    BY <1>1 DEF Init, CollectionInit
  <2>2. 0 \in 0..Len(files) /\ 0 \in 0..MaxReads
    BY <2>1, IntakeAssumption
  <2>3. QED
    BY <2>1, <2>2 DEF IntakeBounds
<1>2. WalkInvariant /\ WalkInvariant' /\ IntakeBounds /\ [Next]_vars => IntakeBounds'
  <2>1. SUFFICES ASSUME WalkInvariant, WalkInvariant', IntakeBounds, [Next]_vars
                 PROVE  IntakeBounds'
    OBVIOUS
  <2>2. /\ files \in Seq(DOMAIN tree) /\ files' \in Seq(DOMAIN tree')
        /\ Len(files) \in Nat /\ Len(files') \in Nat /\ next \in Nat
        /\ opening \in BOOLEAN /\ reads \in 0..MaxReads /\ MaxReads \in Nat
    BY <2>1, IntakeAssumption DEF WalkInvariant, IntakeBounds
  <2>3. CASE WalkTree
    <3>1. UNCHANGED <<next, opening, reads>> /\ WalkStep
      BY <2>3 DEF WalkTree
    <3>2. walking # "done"
      BY <3>1 DEF WalkStep, OpenCollection, Descend, AddFile, Skip, ReturnFromWalk,
                  Visiting
    <3>3. QED
      BY <2>1, <2>2, <3>1, <3>2 DEF IntakeBounds
  <2>4. CASE OpenNext
    <3>1. /\ walking = "done" /\ next < Len(files) /\ next' = next + 1
          /\ UNCHANGED <<files, walking, reads>> /\ opening' \in BOOLEAN
      BY <2>2, <2>4 DEF OpenNext, collection
    <3>2. QED
      BY <2>1, <2>2, <3>1 DEF IntakeBounds
  <2>5. CASE OpenImage
    <3>1. UNCHANGED <<files, walking, next, reads>> /\ opening' \in BOOLEAN
      BY <2>5 DEF OpenImage, collection
    <3>2. QED
      BY <2>1, <3>1 DEF IntakeBounds
  <2>6. ASSUME NEW t \in Threads, NEW p \in Images, NEW r \in Requests, Read(t, p, r)
        PROVE  IntakeBounds'
    <3>1. /\ UNCHANGED <<files, walking, next, opening>>
          /\ reads < MaxReads /\ reads' = reads + 1
      BY <2>6 DEF Read, collection
    <3>2. QED
      BY <2>1, <2>2, <3>1 DEF IntakeBounds
  <2>7. CASE \/ \E t \in Threads : Proceed(t)
             \/ \E p \in Images, holder \in Threads \cup {Main} : LetGo(p, holder)
             \/ UNCHANGED vars
    <3>1. UNCHANGED <<files, walking, next, opening, reads>>
      BY <2>7 DEF Proceed, LetGo, vars, collection
    <3>2. QED
      BY <2>1, <3>1 DEF IntakeBounds
  <2>8. QED
    BY <2>1, <2>3, <2>4, <2>5, <2>6, <2>7 DEF Next
<1>3. QED
  BY <1>1, <1>2, WalkCorrect, PTL DEF Spec

\* Positions are in the image, reads as long as asked for, and the lists of the
\* walk what the tree has (collection.rs:48-90, ewf.rs:231-261).
THEOREM TypeCorrect == Spec => []TypeOK
<1>1. /\ EwfInvariant /\ EwfBounds /\ WalkInvariant /\ IntakeBounds
      => TypeOK
  <2>1. SUFFICES ASSUME EwfInvariant, EwfBounds, WalkInvariant, IntakeBounds
                 PROVE  TypeOK
    OBVIOUS
  <2>2. /\ walking \in {"no", "yes", "done", "error"} /\ opening \in BOOLEAN
        /\ next \in 0..Len(files) /\ reads \in 0..MaxReads
    BY <2>1 DEF WalkInvariant, IntakeBounds
  <2>3. ToSet(files) \cup ToSet(skipped) \subseteq DOMAIN tree
    BY <2>1 DEF WalkInvariant, ToSet
  <2>4. ASSUME NEW p \in Images
        PROVE  /\ ewf[p].names \in {"none", "held", "freed"}
               /\ ewf[p].handle \in {"none", "closed", "open", "freed"}
               /\ ewf[p].position \in 0..MediaSize
               /\ refs[p] # {} => ewf[p].at = "live"
    BY <2>1 DEF EwfInvariant, EwfType, Image, EwfBounds
  <2>5. ASSUME NEW t \in Threads, reader[t] # Idle
        PROVE  Len(reader[t].got) <= reader[t].want.n
    BY <2>1, <2>5 DEF EwfBounds, InBounds
  <2>6. QED
    BY <2>2, <2>3, <2>4, <2>5 DEF TypeOK
<1>2. QED
  BY <1>1, EwfCorrect, EwfStaysInBounds, IntakeUsesEwf, WalkCorrect,
     IntakeStaysInBounds, PTL
=============================================================================
