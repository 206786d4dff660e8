--------------------------- MODULE OperatorProofs ---------------------------
(***************************************************************************)
(* What the operators that the models are built from return, for every     *)
(* argument.  Induction is said of a set, over the naturals or over the    *)
(* parts of a finite set.                                                  *)
(***************************************************************************)
EXTENDS Integers, Sequences, FiniteSets, SequencesExt, FiniteSetsExt,
        FiniteSetTheorems, FunctionTheorems, SequenceTheorems,
        WellFoundedInduction, TLAPS

(***************************************************************************)
(* Induction                                                               *)
(***************************************************************************)

LessThan == {p \in Nat \X Nat : p[1] < p[2]}

\* Every set of naturals that is not empty has a least number.
LEMMA LeastNumber ==
    ASSUME NEW T, T \subseteq Nat, T # {}
    PROVE  \E x \in T : \A y \in T : x <= y
<1>1. IsWellFoundedOn(LessThan, Nat)
  <2>1. OpToRel(<, Nat) = LessThan
    BY DEF OpToRel, LessThan
  <2>2. QED
    BY <2>1, NatLessThanWellFounded
<1>2. PICK x \in T : \A y \in T : <<y, x>> \notin LessThan
  BY <1>1, WFMin
<1>3. ASSUME NEW y \in T PROVE x <= y
  <2>1. x \in Nat /\ y \in Nat
    OBVIOUS
  <2>2. y < x => <<y, x>> \in LessThan
    BY <2>1 DEF LessThan
  <2>3. QED
    BY <1>2, <2>1, <2>2
<1>4. QED
  BY <1>3

\* Induction.
LEMMA Induction ==
    ASSUME NEW S, 0 \in S, \A n \in Nat : n \in S => n + 1 \in S
    PROVE  Nat \subseteq S
<1>1. SUFFICES ASSUME Nat \ S # {} PROVE FALSE
  OBVIOUS
<1>2. PICK x \in Nat \ S : \A y \in Nat \ S : x <= y
  BY <1>1, LeastNumber
<1>3. x \in Nat /\ x # 0
  BY <1>2
<1>4. x - 1 \in Nat /\ x - 1 \notin Nat \ S
  BY <1>2, <1>3
<1>5. QED
  BY <1>2, <1>3, <1>4

\* Induction over the parts of a finite set.
LEMMA FiniteInduction ==
    ASSUME NEW S, IsFiniteSet(S), NEW Good, {} \in Good,
           \A T \in SUBSET S, x \in S :
               T \in Good /\ x \notin T => T \cup {x} \in Good
    PROVE  S \in Good
<1> DEFINE Sizes == {n \in Nat : \A T \in SUBSET S :
                        Cardinality(T) = n => T \in Good}
<1>1. \A T \in SUBSET S : IsFiniteSet(T)
  BY FS_Subset
<1>2. 0 \in Sizes
  BY <1>1, FS_EmptySet
<1>3. ASSUME NEW n \in Nat, n \in Sizes PROVE n + 1 \in Sizes
  <2> SUFFICES ASSUME NEW T \in SUBSET S, Cardinality(T) = n + 1
               PROVE  T \in Good
    OBVIOUS
  <2>1. PICK x \in T : TRUE
    BY <1>1, FS_EmptySet
  <2>2. T \ {x} \in SUBSET S /\ x \in S /\ x \notin T \ {x}
    BY <2>1
  <2>3. IsFiniteSet(T)
    BY <1>1
  <2>4. Cardinality(T \ {x}) = n
    <3>1. Cardinality(T \ {x}) = Cardinality(T) - 1
      BY <2>1, <2>3, FS_RemoveElement
    <3>2. QED
      BY <3>1
  <2>5. T \ {x} \in Good
    BY <2>2, <2>4, <1>3
  <2>6. (T \ {x}) \cup {x} = T
    BY <2>1
  <2>7. QED
    BY <2>2, <2>5, <2>6
<1>4. Nat \subseteq Sizes
  <2> HIDE DEF Sizes
  <2>1. QED
    BY <1>2, <1>3, Induction
<1>5. Cardinality(S) \in Nat
  BY FS_CardinalityType
<1>6. QED
  BY <1>4, <1>5

(***************************************************************************)
(* FlattenSeq                                                              *)
(***************************************************************************)

\* A function on 1..n is a sequence of length n.
LEMMA FunctionIsSequence ==
    ASSUME NEW T, NEW n \in Nat, NEW f \in [1..n -> T]
    PROVE  f \in Seq(T) /\ Len(f) = n
  OBVIOUS

\* One sequence behind the other.
LEMMA Behind ==
    ASSUME NEW S, NEW a \in Seq(S), NEW b \in Seq(S)
    PROVE  /\ a \o b \in Seq(S) /\ Len(a \o b) = Len(a) + Len(b)
           /\ \A i \in 1..Len(a) : (a \o b)[i] = a[i]
           /\ \A i \in 1..Len(b) : /\ Len(a) + i \in 1..Len(a \o b)
                                  /\ (a \o b)[Len(a) + i] = b[i]
  OBVIOUS

\* Three sequences, one behind the other.
LEMMA Associates ==
    ASSUME NEW S, NEW a \in Seq(S), NEW b \in Seq(S), NEW c \in Seq(S)
    PROVE  (a \o b) \o c = a \o (b \o c)
  BY ConcatAssociative

\* The front of a sequence.
LEMMA FrontOf ==
    ASSUME NEW S, NEW s \in Seq(S), NEW m \in 0..Len(s)
    PROVE  /\ SubSeq(s, 1, m) \in Seq(S) /\ Len(SubSeq(s, 1, m)) = m
           /\ \A i \in 1..m : SubSeq(s, 1, m)[i] = s[i]
  OBVIOUS

\* A part of a sequence.
LEMMA SliceIs ==
    ASSUME NEW S, NEW s \in Seq(S), NEW o \in Nat, NEW n \in Nat, o + n <= Len(s)
    PROVE  /\ SubSeq(s, o + 1, o + n) \in Seq(S) /\ Len(SubSeq(s, o + 1, o + n)) = n
           /\ \A i \in 1..n : SubSeq(s, o + 1, o + n)[i] = s[o + i]
  OBVIOUS

\* A part of a part is a part.
LEMMA PartOfSlice ==
    ASSUME NEW S, NEW s \in Seq(S), NEW o \in Nat, NEW n \in Nat, o + n <= Len(s),
           NEW k \in 0..n
    PROVE  SubSeq(SubSeq(s, o + 1, o + n), k + 1, n) = SubSeq(s, o + k + 1, o + n)
<1> DEFINE a == SubSeq(s, o + 1, o + n)
           m == n - k
           b == SubSeq(a, k + 1, k + m)
           c == SubSeq(s, (o + k) + 1, (o + k) + m)
<1>1. /\ m \in Nat /\ k \in Nat /\ k + m = n /\ (o + k) + m = o + n /\ o + k \in Nat
      /\ (o + k) + m <= Len(s)
  OBVIOUS
<1>2. a \in Seq(S) /\ Len(a) = n /\ \A i \in 1..n : a[i] = s[o + i]
  BY SliceIs
<1> HIDE DEF a, m
<1>3. b \in Seq(S) /\ Len(b) = m /\ \A i \in 1..m : b[i] = a[k + i]
  BY <1>1, <1>2, SliceIs
<1>4. c \in Seq(S) /\ Len(c) = m /\ \A i \in 1..m : c[i] = s[(o + k) + i]
  BY <1>1, SliceIs
<1>5. \A i \in 1..m : k + i \in 1..n /\ o + (k + i) = (o + k) + i
  BY <1>1
<1> HIDE DEF b, c
<1>6. \A i \in 1..m : b[i] = c[i]
  BY <1>2, <1>3, <1>4, <1>5
<1>7. b = c
  BY <1>3, <1>4, <1>6, SeqEqual
<1>8. QED
  BY <1>1, <1>7 DEF a, b, c

\* The pieces put together so far: joined[k] is the first k of them.
Joins(joined, pieces, n) ==
    /\ DOMAIN joined = 0..n /\ joined[0] = <<>>
    /\ \A k \in 0 .. n - 1 : joined[k + 1] = joined[k] \o pieces[k + 1]

\* They can be put together.
LEMMA JoinsExist ==
    ASSUME NEW S, NEW pieces, NEW n \in Nat, \A k \in 1..n : pieces[k] \in Seq(S)
    PROVE  \E joined : Joins(joined, pieces, n) /\ \A k \in 0..n : joined[k] \in Seq(S)
<1> DEFINE Can == {m \in Nat : m <= n =>
                      \E joined : /\ Joins(joined, pieces, m)
                                  /\ \A k \in 0..m : joined[k] \in Seq(S)}
<1>1. 0 \in Can
  <2> DEFINE none == [k \in 0..0 |-> <<>>]
  <2>1. Joins(none, pieces, 0) /\ \A k \in 0..0 : none[k] \in Seq(S)
    BY DEF Joins
  <2>2. QED
    BY <2>1
<1>2. ASSUME NEW m \in Nat, m \in Can PROVE m + 1 \in Can
  <2> SUFFICES ASSUME m + 1 <= n
               PROVE  \E joined : /\ Joins(joined, pieces, m + 1)
                                  /\ \A k \in 0 .. m + 1 : joined[k] \in Seq(S)
    OBVIOUS
  <2>1. PICK joined : /\ Joins(joined, pieces, m)
                      /\ \A k \in 0..m : joined[k] \in Seq(S)
    BY <1>2
  <2> DEFINE more == [k \in 0 .. m + 1 |->
                         IF k = m + 1 THEN joined[m] \o pieces[m + 1]
                                      ELSE joined[k]]
  <2>2. pieces[m + 1] \in Seq(S) /\ joined[m] \in Seq(S)
    BY <2>1
  <2>3. \A k \in 0 .. m + 1 : more[k] \in Seq(S)
    BY <2>1, <2>2
  <2>4. Joins(more, pieces, m + 1)
    <3>1. more[0] = <<>>
      BY <2>1 DEF Joins
    <3>2. ASSUME NEW k \in 0 .. m PROVE more[k + 1] = joined[k] \o pieces[k + 1]
      <4>1. CASE k = m
        <5>1. m + 1 \in 0 .. m + 1
          OBVIOUS
        <5>2. more[m + 1] = joined[m] \o pieces[m + 1]
          BY <5>1
        <5>3. QED
          <6> HIDE DEF more
          <6>1. QED
            BY <4>1, <5>2
      <4>2. CASE k # m
        <5>1. k \in 0 .. m - 1
          BY <4>2
        <5>2. more[k + 1] = joined[k + 1]
          BY <5>1
        <5>3. joined[k + 1] = joined[k] \o pieces[k + 1]
          BY <5>1, <2>1 DEF Joins
        <5>4. QED
          BY <5>2, <5>3
      <4>3. QED
        BY <4>1, <4>2
    <3>3. \A k \in 0..m : more[k] = joined[k]
      OBVIOUS
    <3>4. DOMAIN more = 0 .. m + 1 /\ (m + 1) - 1 = m
      OBVIOUS
    <3>5. QED
      <4> HIDE DEF more
      <4>1. QED
        BY <3>1, <3>2, <3>3, <3>4 DEF Joins
  <2>5. QED
    BY <2>3, <2>4
<1>3. Nat \subseteq Can
  <2> HIDE DEF Can
  <2>1. QED
    BY <1>1, <1>2, Induction
<1>4. QED
  BY <1>3

\* FlattenSeq puts the pieces together, in order.
LEMMA FlattenJoins ==
    ASSUME NEW S, NEW pieces \in Seq(Seq(S))
    PROVE  \E joined : /\ Joins(joined, pieces, Len(pieces))
                       /\ \A k \in 0..Len(pieces) : joined[k] \in Seq(S)
                       /\ FlattenSeq(pieces) = joined[Len(pieces)]
<1> DEFINE n == Len(pieces)
           Grown(f) == f = [i \in 1..n |-> IF i = 1 THEN pieces[i]
                                                    ELSE f[i - 1] \o pieces[i]]
           flat == CHOOSE f : Grown(f)
<1>1. n \in Nat /\ \A k \in 1..n : pieces[k] \in Seq(S)
  OBVIOUS
<1>2. PICK joined : Joins(joined, pieces, n) /\ \A k \in 0..n : joined[k] \in Seq(S)
  BY <1>1, JoinsExist
<1>3. CASE n = 0
  <2>1. FlattenSeq(pieces) = pieces
    BY <1>3 DEF FlattenSeq
  <2>2. pieces = <<>>
    BY <1>3
  <2>3. QED
    BY <2>1, <2>2, <1>2, <1>3 DEF Joins
<1>4. CASE n # 0
  <2>1. FlattenSeq(pieces) = flat[n]
    BY <1>4 DEF FlattenSeq
  <2>2. Grown(flat)
    <3> DEFINE f == [i \in 1..n |-> joined[i]]
    <3>1. joined[1] = pieces[1]
      <4>1. joined[0] = <<>> /\ joined[1] = joined[0] \o pieces[1]
        <5>1. 0 \in 0 .. n - 1 /\ 0 + 1 = 1
          BY <1>1, <1>4
        <5>2. QED
          BY <5>1, <1>2 DEF Joins
      <4>2. pieces[1] \in Seq(S)
        BY <1>1, <1>4
      <4>3. QED
        BY <4>1, <4>2
    <3>2. ASSUME NEW i \in 1..n, i # 1 PROVE joined[i] = f[i - 1] \o pieces[i]
      <4>1. i - 1 \in 1..n /\ i - 1 \in 0 .. n - 1 /\ (i - 1) + 1 = i
        BY <3>2
      <4>2. joined[(i - 1) + 1] = joined[i - 1] \o pieces[(i - 1) + 1]
        BY <4>1, <1>2 DEF Joins
      <4>3. QED
        BY <4>1, <4>2
    <3>3. Grown(f)
      BY <3>1, <3>2
    <3> HIDE DEF f, Grown
    <3>4. QED
      BY <3>3
  <2> HIDE DEF flat
  <2>3. flat = [i \in 1..n |-> IF i = 1 THEN pieces[i] ELSE flat[i - 1] \o pieces[i]]
    BY <2>2
  <2>4. \A i \in 1..n : flat[i] = IF i = 1 THEN pieces[i] ELSE flat[i - 1] \o pieces[i]
    BY <2>3
  <2> DEFINE Same == {m \in Nat : m \in 1..n => flat[m] = joined[m]}
  <2>5. 0 \in Same
    OBVIOUS
  <2>6. ASSUME NEW m \in Nat, m \in Same PROVE m + 1 \in Same
    <3> SUFFICES ASSUME m + 1 \in 1..n PROVE flat[m + 1] = joined[m + 1]
      OBVIOUS
    <3>1. joined[m + 1] = joined[m] \o pieces[m + 1]
      <4>1. m \in 0 .. n - 1
        OBVIOUS
      <4>2. QED
        BY <4>1, <1>2 DEF Joins
    <3>2. CASE m = 0
      <4>1. joined[0] = <<>> /\ pieces[1] \in Seq(S) /\ flat[1] = pieces[1]
        BY <1>1, <1>2, <1>4, <2>4 DEF Joins
      <4>2. joined[1] = <<>> \o pieces[1]
        <5>1. 0 \in 0 .. n - 1 /\ 0 + 1 = 1
          BY <1>1, <1>4
        <5>2. QED
          BY <5>1, <4>1, <1>2 DEF Joins
      <4>3. QED
        BY <4>1, <4>2, <3>2
    <3>3. CASE m # 0
      <4>1. flat[m + 1] = flat[m] \o pieces[m + 1]
        <5>1. m + 1 # 1 /\ (m + 1) - 1 = m
          BY <3>3
        <5>2. QED
          BY <5>1, <2>4
      <4>2. flat[m] = joined[m]
        BY <2>6, <3>3
      <4>3. QED
        BY <4>1, <4>2, <3>1
    <3>4. QED
      BY <3>2, <3>3
  <2>7. Nat \subseteq Same
    <3> HIDE DEF Same
    <3>1. QED
      BY <2>5, <2>6, Induction
  <2>8. flat[n] = joined[n]
    BY <2>7, <1>4, <1>1
  <2>9. QED
    BY <2>1, <2>8, <1>2
<1>5. QED
  BY <1>3, <1>4

\* The joined pieces are the same however they are put together.
LEMMA JoinsSame ==
    ASSUME NEW pieces, NEW n \in Nat, NEW f, Joins(f, pieces, n), NEW g, NEW more,
           NEW m \in Nat, n <= m, Joins(g, more, m),
           \A k \in 1..n : more[k] = pieces[k]
    PROVE  f[n] = g[n]
<1> DEFINE Same == {k \in Nat : k <= n => f[k] = g[k]}
<1>1. 0 \in Same
  BY DEF Joins
<1>2. ASSUME NEW k \in Nat, k \in Same PROVE k + 1 \in Same
  <2> SUFFICES ASSUME k + 1 <= n PROVE f[k + 1] = g[k + 1]
    OBVIOUS
  <2>1. k \in 0 .. n - 1 /\ k \in 0 .. m - 1 /\ k + 1 \in 1..n
    OBVIOUS
  <2>2. f[k + 1] = f[k] \o pieces[k + 1] /\ g[k + 1] = g[k] \o more[k + 1]
    BY <2>1 DEF Joins
  <2>3. f[k] = g[k] /\ pieces[k + 1] = more[k + 1]
    BY <1>2, <2>1
  <2>4. QED
    BY <2>2, <2>3
<1>3. Nat \subseteq Same
  <2> HIDE DEF Same
  <2>1. QED
    BY <1>1, <1>2, Induction
<1>4. QED
  BY <1>3

\* FlattenSeq returns a sequence of what the pieces hold.
LEMMA FlattenType ==
    ASSUME NEW S, NEW pieces \in Seq(Seq(S))
    PROVE  FlattenSeq(pieces) \in Seq(S)
  BY FlattenJoins

\* Flattening nothing gives nothing.
LEMMA FlattenNone ==
    FlattenSeq(<<>>) = <<>>
  BY DEF FlattenSeq

\* One more piece is put behind the others.
LEMMA FlattenMore ==
    ASSUME NEW S, NEW pieces \in Seq(Seq(S)), NEW more \in Seq(Seq(S)),
           Len(more) = Len(pieces) + 1,
           \A k \in 1..Len(pieces) : more[k] = pieces[k]
    PROVE  FlattenSeq(more) = FlattenSeq(pieces) \o more[Len(more)]
<1> DEFINE n == Len(pieces)
<1>1. n \in Nat
  OBVIOUS
<1>2. PICK f : Joins(f, pieces, n) /\ FlattenSeq(pieces) = f[n]
  BY FlattenJoins
<1>3. PICK g : Joins(g, more, n + 1) /\ FlattenSeq(more) = g[n + 1]
  BY FlattenJoins
<1> HIDE DEF n
<1>4. f[n] = g[n]
  <2>1. n + 1 \in Nat /\ n <= n + 1 /\ \A k \in 1..n : more[k] = pieces[k]
    BY <1>1 DEF n
  <2>2. QED
    BY <2>1, <1>1, <1>2, <1>3, JoinsSame
<1>5. g[n + 1] = g[n] \o more[n + 1]
  <2>1. n \in 0 .. (n + 1) - 1
    BY <1>1
  <2>2. QED
    BY <2>1, <1>3 DEF Joins
<1>6. QED
  BY <1>2, <1>3, <1>4, <1>5 DEF n

\* Flattening one sequence of pieces behind another gives the one behind the other.
LEMMA FlattenBehind ==
    ASSUME NEW S, NEW a \in Seq(Seq(S)), NEW b \in Seq(Seq(S))
    PROVE  FlattenSeq(a \o b) = FlattenSeq(a) \o FlattenSeq(b)
<1>0. \A x, y, z \in Seq(S) : (x \o y) \o z = x \o (y \o z)
  BY Associates, SMTT(30)
<1>1. PICK c, n, m : c = a \o b /\ n = Len(a) /\ m = Len(b)
  OBVIOUS
<1>2. /\ c \in Seq(Seq(S)) /\ Len(c) = n + m /\ n \in Nat /\ m \in Nat
      /\ \A i \in 1..n : c[i] = a[i]
      /\ \A i \in 1..m : c[n + i] = b[i]
  BY <1>1, Behind
<1>3. PICK f : /\ Joins(f, a, n) /\ FlattenSeq(a) = f[n]
               /\ \A k \in 0..n : f[k] \in Seq(S)
  BY <1>1, FlattenJoins
<1>4. PICK h : /\ Joins(h, b, m) /\ FlattenSeq(b) = h[m]
               /\ \A k \in 0..m : h[k] \in Seq(S)
  BY <1>1, FlattenJoins
<1>5. PICK g : Joins(g, c, n + m) /\ FlattenSeq(c) = g[n + m]
  BY <1>2, FlattenJoins
<1>6. f[n] \in Seq(S) /\ n + m \in Nat /\ n <= n + m
  BY <1>2, <1>3
<1>7. f[n] = g[n]
  BY <1>2, <1>3, <1>5, <1>6, JoinsSame
<1> DEFINE Same == {k \in Nat : k <= m => g[n + k] = f[n] \o h[k]}
<1>8. 0 \in Same
  <2>1. h[0] = <<>> /\ f[n] \o <<>> = f[n] /\ n + 0 = n
    BY <1>2, <1>4, <1>6 DEF Joins
  <2>2. QED
    BY <1>7, <2>1
<1>9. ASSUME NEW k \in Nat, k \in Same PROVE k + 1 \in Same
  <2> SUFFICES ASSUME k + 1 <= m PROVE g[n + (k + 1)] = f[n] \o h[k + 1]
    <3>1. k + 1 \in Nat
      OBVIOUS
    <3>2. QED
      BY <3>1, Zenon
  <2>1. /\ n + k \in 0 .. (n + m) - 1 /\ k \in 0 .. m - 1 /\ k \in 0..m
        /\ k + 1 \in 1..m /\ (n + k) + 1 = n + (k + 1)
    BY <1>2
  <2>2. g[n + (k + 1)] = g[n + k] \o c[n + (k + 1)]
    BY <1>5, <2>1 DEF Joins
  <2>3. h[k + 1] = h[k] \o b[k + 1]
    BY <1>4, <2>1 DEF Joins
  <2>4. c[n + (k + 1)] = b[k + 1] /\ g[n + k] = f[n] \o h[k]
    <3>1. k <= m
      BY <2>1
    <3>2. g[n + k] = f[n] \o h[k]
      BY <1>9, <3>1, Zenon
    <3>3. QED
      BY <1>2, <2>1, <3>2
  <2>5. h[k] \in Seq(S) /\ b[k + 1] \in Seq(S)
    BY <1>1, <1>4, <2>1
  <2>6. (f[n] \o h[k]) \o b[k + 1] = f[n] \o (h[k] \o b[k + 1])
    <3>1. PICK x, y, z : x = f[n] /\ y = h[k] /\ z = b[k + 1]
      OBVIOUS
    <3>2. x \in Seq(S) /\ y \in Seq(S) /\ z \in Seq(S)
      BY <1>6, <2>5, <3>1
    <3>3. (x \o y) \o z = x \o (y \o z)
      BY <1>0, <3>2, Zenon
    <3>4. QED
      BY <3>1, <3>3
  <2>7. QED
    BY <2>2, <2>3, <2>4, <2>6
<1>10. Nat \subseteq Same
  <2> HIDE DEF Same
  <2>1. QED
    BY <1>8, <1>9, Induction
<1>11. g[n + m] = f[n] \o h[m]
  <2>1. m \in Same
    BY <1>2, <1>10, Zenon
  <2>2. m <= m
    BY <1>2
  <2>3. QED
    BY <2>1, <2>2, Zenon
<1>12. QED
  BY <1>1, <1>3, <1>4, <1>5, <1>11

\* Flattening pieces that are all empty gives nothing.
LEMMA FlattenEmpties ==
    ASSUME NEW S, NEW pieces \in Seq(Seq(S)),
           \A k \in 1..Len(pieces) : pieces[k] = <<>>
    PROVE  FlattenSeq(pieces) = <<>>
<1>1. PICK n : n = Len(pieces) /\ n \in Nat
  OBVIOUS
<1>2. PICK f : Joins(f, pieces, n) /\ FlattenSeq(pieces) = f[n]
  BY <1>1, FlattenJoins
<1> DEFINE None == {k \in Nat : k <= n => f[k] = <<>>}
<1>3. 0 \in None
  BY <1>2 DEF Joins
<1>4. ASSUME NEW k \in Nat, k \in None PROVE k + 1 \in None
  <2> SUFFICES ASSUME k + 1 <= n PROVE f[k + 1] = <<>>
    OBVIOUS
  <2>1. k \in 0 .. n - 1 /\ k + 1 \in 1..n
    BY <1>1
  <2>2. f[k + 1] = f[k] \o pieces[k + 1] /\ pieces[k + 1] = <<>> /\ f[k] = <<>>
    BY <1>1, <1>2, <1>4, <2>1 DEF Joins
  <2>3. QED
    BY <2>2
<1>5. Nat \subseteq None
  <2> HIDE DEF None
  <2>1. QED
    BY <1>3, <1>4, Induction
<1>6. QED
  BY <1>1, <1>2, <1>5

\* Piece k begins where the pieces before it end.
Places(start, pieces, n) ==
    /\ DOMAIN start = 0..n /\ start[0] = 0
    /\ \A k \in 0 .. n - 1 : start[k + 1] = start[k] + Len(pieces[k + 1])

\* Flattened pieces lie one behind the other.
LEMMA FlattenPlaces ==
    ASSUME NEW S, NEW pieces \in Seq(Seq(S)), NEW start,
           Places(start, pieces, Len(pieces))
    PROVE  /\ FlattenSeq(pieces) \in Seq(S)
           /\ Len(FlattenSeq(pieces)) = start[Len(pieces)]
           /\ \A k \in 0 .. Len(pieces) - 1 : \A i \in 1..Len(pieces[k + 1]) :
                 /\ start[k] + i \in 1..start[Len(pieces)]
                 /\ FlattenSeq(pieces)[start[k] + i] = pieces[k + 1][i]
<1> DEFINE n == Len(pieces)
<1>1. n \in Nat /\ \A k \in 1..n : pieces[k] \in Seq(S)
  OBVIOUS
<1>2. PICK joined : /\ Joins(joined, pieces, n)
                    /\ \A k \in 0..n : joined[k] \in Seq(S)
                    /\ FlattenSeq(pieces) = joined[n]
  BY FlattenJoins
<1>3. Places(start, pieces, n)
  OBVIOUS
<1> HIDE DEF n
<1> DEFINE Placed(m) ==
              /\ Len(joined[m]) = start[m]
              /\ \A k \in 0 .. m - 1 : \A i \in 1..Len(pieces[k + 1]) :
                    /\ start[k] \in Nat /\ start[k] + i \in 1..start[m]
                    /\ joined[m][start[k] + i] = pieces[k + 1][i]
           Good == {m \in Nat : m <= n => Placed(m)}
<1>4. 0 \in Good
  BY <1>2, <1>3 DEF Joins, Places
<1>5. ASSUME NEW m \in Nat, m \in Good PROVE m + 1 \in Good
  <2> SUFFICES ASSUME m + 1 <= n PROVE Placed(m + 1)
    OBVIOUS
  <2>1. m \in 0 .. n - 1 /\ m \in 0..n /\ m + 1 \in 1..n
    BY <1>1
  <2> DEFINE a == joined[m]
             b == pieces[m + 1]
  <2>2. joined[m + 1] = a \o b /\ start[m + 1] = start[m] + Len(b)
    BY <2>1, <1>2, <1>3 DEF Joins, Places
  <2>3. a \in Seq(S) /\ b \in Seq(S) /\ Placed(m)
    BY <2>1, <1>1, <1>2, <1>5
  <2>4. Len(a) = start[m] /\ start[m] \in Nat
    BY <2>3
  <2>5. Len(joined[m + 1]) = start[m + 1] /\ start[m + 1] = Len(a) + Len(b)
    <3>1. Len(a \o b) = Len(a) + Len(b)
      <4> HIDE DEF a, b
      <4>1. QED
        BY <2>3
    <3>2. QED
      BY <3>1, <2>2, <2>4
  <2>6. ASSUME NEW k \in 0 .. (m + 1) - 1, NEW i \in 1..Len(pieces[k + 1])
        PROVE  /\ start[k] \in Nat /\ start[k] + i \in 1..start[m + 1]
               /\ joined[m + 1][start[k] + i] = pieces[k + 1][i]
    <3>1. CASE k = m
      <4>1. i \in 1..Len(b) /\ Len(b) \in Nat
        BY <3>1, <2>3
      <4>2. (a \o b)[Len(a) + i] = b[i] /\ Len(a) + i \in 1 .. Len(a) + Len(b)
        <5> HIDE DEF a, b
        <5>1. QED
          BY <4>1, <2>3
      <4>3. QED
        BY <3>1, <4>2, <2>2, <2>4
    <3>2. CASE k # m
      <4>1. k \in 0 .. m - 1
        BY <3>2
      <4>2. /\ start[k] \in Nat /\ start[k] + i \in 1..Len(a)
            /\ a[start[k] + i] = pieces[k + 1][i]
        BY <2>3, <2>4, <4>1
      <4>3. (a \o b)[start[k] + i] = a[start[k] + i] /\ Len(b) \in Nat
        <5> HIDE DEF a, b
        <5>1. QED
          BY <4>2, <2>3
      <4>4. joined[m + 1][start[k] + i] = pieces[k + 1][i]
        BY <4>2, <4>3, <2>2
      <4>5. start[k] + i \in 1..start[m + 1]
        <5> DEFINE at == start[k] + i
        <5>1. at \in 1..Len(a)
          BY <4>2
        <5> HIDE DEF at, a, b
        <5>2. at \in 1 .. Len(a) + Len(b)
          BY <5>1, <4>3, <2>4
        <5>3. QED
          BY <5>2, <2>5 DEF at
      <4>6. QED
        BY <4>2, <4>4, <4>5
    <3>3. QED
      BY <3>1, <3>2
  <2>7. QED
    BY <2>5, <2>6
<1>6. Nat \subseteq Good
  <2> HIDE DEF Good
  <2>1. QED
    BY <1>4, <1>5, Induction
<1>7. Placed(n)
  <2>1. n \in Good
    BY <1>1, <1>6
  <2>2. QED
    BY <1>1, <2>1
<1>8. joined[n] \in Seq(S)
  BY <1>1, <1>2
<1>9. QED
  BY <1>2, <1>7, <1>8 DEF n

\* Every place is in a piece.
Covered(start, pieces) ==
    \A q \in 1..start[Len(pieces)] :
        \E k \in 0 .. Len(pieces) - 1 : \E i \in 1..Len(pieces[k + 1]) : q = start[k] + i

LEMMA PlacesCover ==
    ASSUME NEW S, NEW pieces \in Seq(Seq(S)), NEW start,
           Places(start, pieces, Len(pieces)),
           \A k \in 0..Len(pieces) : start[k] \in Nat
    PROVE  Covered(start, pieces)
<1> SUFFICES ASSUME NEW q \in 1..start[Len(pieces)]
             PROVE  \E k \in 0 .. Len(pieces) - 1 : \E i \in 1..Len(pieces[k + 1]) :
                       q = start[k] + i
  BY DEF Covered
<1> DEFINE n == Len(pieces)
           T == {k \in 0..n : q <= start[k]}
<1>1. n \in Nat /\ n \in T /\ T \subseteq Nat /\ q \in Nat /\ q >= 1
  OBVIOUS
<1>2. PICK x \in T : \A y \in T : x <= y
  BY <1>1, LeastNumber
<1>3. x # 0
  BY <1>1, <1>2 DEF Places
<1>4. /\ x - 1 \in 0 .. n - 1 /\ x - 1 \in Nat /\ (x - 1) + 1 = x /\ x \in 0..n
  BY <1>1, <1>2, <1>3
<1>5. ~(q <= start[x - 1])
  BY <1>1, <1>2, <1>4
<1>6. start[x - 1] \in Nat /\ start[x] \in Nat /\ q <= start[x]
  BY <1>1, <1>2, <1>4
<1>7. start[x] = start[x - 1] + Len(pieces[x])
  BY <1>4 DEF Places
<1>8. pieces[x] \in Seq(S) /\ Len(pieces[x]) \in Nat
  BY <1>1, <1>3, <1>4
<1>9. q - start[x - 1] \in 1..Len(pieces[x])
  BY <1>1, <1>5, <1>6, <1>7, <1>8
<1>10. q = start[x - 1] + (q - start[x - 1])
  BY <1>1, <1>6
<1> QED
  BY <1>4, <1>9, <1>10

(***************************************************************************)
(* Min and Max                                                             *)
(***************************************************************************)

\* The least of a set of numbers, and the greatest.
LEMMA MinIs ==
    ASSUME NEW S, S \subseteq Int, NEW x \in S, \A y \in S : x <= y
    PROVE  Min(S) = x
<1>1. \A z \in S : (\A y \in S : z <= y) => z = x
  OBVIOUS
<1>2. QED
  BY <1>1 DEF Min

LEMMA MaxIs ==
    ASSUME NEW S, S \subseteq Int, NEW x \in S, \A y \in S : y <= x
    PROVE  Max(S) = x
<1>1. \A z \in S : (\A y \in S : z >= y) => z = x
  OBVIOUS
<1>2. \A y \in S : x >= y
  OBVIOUS
<1>3. QED
  BY <1>1, <1>2 DEF Max

(***************************************************************************)
(* Sums                                                                    *)
(***************************************************************************)

\* As many units for each element of S as w gives it.
Units(w, S) == {u \in S \X Nat : u[2] \in 1..w[u[1]]}

\* The weight of S under w: a sum that no order of summing goes into.
Weight(w, S) == Cardinality(Units(w, S))

\* Nothing weighs nothing.
LEMMA WeightOfNone ==
    ASSUME NEW w
    PROVE  IsFiniteSet(Units(w, {})) /\ Weight(w, {}) = 0
<1>1. Units(w, {}) = {}
  BY DEF Units
<1>2. QED
  BY <1>1, FS_EmptySet DEF Weight

\* One more element adds its weight.
LEMMA WeightOfMore ==
    ASSUME NEW w, NEW S, IsFiniteSet(Units(w, S)), NEW x, x \notin S, w[x] \in Nat
    PROVE  /\ IsFiniteSet(Units(w, S \cup {x}))
           /\ Weight(w, S \cup {x}) = Weight(w, S) + w[x]
           /\ Weight(w, S) \in Nat
<1> DEFINE own == {u \in {x} \X Nat : u[2] \in 1..w[x]}
           unit == [i \in 1..w[x] |-> <<x, i>>]
<1>1. unit \in Bijection(1..w[x], own)
  <2>1. unit \in [1..w[x] -> own]
    OBVIOUS
  <2>2. \A i, j \in 1..w[x] : unit[i] = unit[j] => i = j
    OBVIOUS
  <2>3. \A u \in own : \E i \in 1..w[x] : unit[i] = u
    OBVIOUS
  <2>4. QED
    BY <2>1, <2>2, <2>3, Fun_IsBij DEF ExistsBijection, Bijection, Injection,
       Surjection, IsInjective, Range
<1>2. IsFiniteSet(own) /\ Cardinality(own) = w[x]
  <2>1. IsFiniteSet(1..w[x]) /\ Cardinality(1..w[x]) = w[x]
    BY FS_Interval, SMTT(30)
  <2>2. ExistsBijection(1..w[x], own)
    <3> HIDE DEF unit, own
    <3>1. QED
      BY <1>1 DEF ExistsBijection
  <2> HIDE DEF unit, own
  <2>3. QED
    BY <2>1, <2>2, FS_Bijection
<1>3. Units(w, S \cup {x}) = Units(w, S) \cup own /\ Units(w, S) \cap own = {}
  BY DEF Units
<1> HIDE DEF unit, own
<1>4. /\ IsFiniteSet(Units(w, S) \cup own)
      /\ Cardinality(Units(w, S) \cup own) =
            Cardinality(Units(w, S)) + Cardinality(own)
                - Cardinality(Units(w, S) \cap own)
  BY <1>2, FS_Union
<1>5. Cardinality(Units(w, S) \cap own) = 0 /\ Cardinality(Units(w, S)) \in Nat
  BY <1>3, FS_EmptySet, FS_CardinalityType
<1>6. Units(w, S \cup {x}) = Units(w, S) \cup own
  BY <1>3
<1>7. Cardinality(Units(w, S \cup {x})) = Cardinality(Units(w, S)) + w[x]
  <2> DEFINE many == Cardinality(Units(w, S))
  <2>1. Cardinality(Units(w, S) \cup own) = many + w[x] - 0
    BY <1>2, <1>4, <1>5
  <2>2. many \in Nat
    BY <1>5
  <2> HIDE DEF many
  <2>3. many + w[x] - 0 = many + w[x]
    BY <2>2
  <2>4. QED
    BY <1>6, <2>1, <2>3 DEF many
<1>8. QED
  BY <1>4, <1>5, <1>6, <1>7 DEF Weight

\* A finite set has a weight, ...
LEMMA WeightType ==
    ASSUME NEW w, NEW S, IsFiniteSet(S), \A x \in S : w[x] \in Nat
    PROVE  IsFiniteSet(Units(w, S)) /\ Weight(w, S) \in Nat
<1> DEFINE Good == {T \in SUBSET S : IsFiniteSet(Units(w, T))}
<1>1. {} \in Good
  BY WeightOfNone
<1>2. ASSUME NEW T \in SUBSET S, NEW x \in S, T \in Good, x \notin T
      PROVE  T \cup {x} \in Good
  BY <1>2, WeightOfMore
<1>3. S \in Good
  <2> HIDE DEF Good
  <2>1. QED
    BY <1>1, <1>2, FiniteInduction
<1>4. QED
  BY <1>3, FS_CardinalityType DEF Weight

\* ... which is its size when each element weighs one.
LEMMA WeightOfOnes ==
    ASSUME NEW w, NEW S, IsFiniteSet(S), \A x \in S : w[x] = 1
    PROVE  Weight(w, S) = Cardinality(S)
<1> DEFINE Good == {T \in SUBSET S : Weight(w, T) = Cardinality(T)}
<1>1. {} \in Good
  BY WeightOfNone, FS_EmptySet
<1>2. ASSUME NEW T \in SUBSET S, NEW x \in S, T \in Good, x \notin T
      PROVE  T \cup {x} \in Good
  <2>1. IsFiniteSet(T) /\ w[x] = 1 /\ \A y \in T : w[y] \in Nat
    BY FS_Subset
  <2>2. IsFiniteSet(Units(w, T))
    BY <2>1, WeightType
  <2>3. Weight(w, T \cup {x}) = Weight(w, T) + 1
    BY <1>2, <2>1, <2>2, WeightOfMore
  <2>4. Cardinality(T \cup {x}) = Cardinality(T) + 1
    BY <1>2, <2>1, FS_AddElement
  <2>5. QED
    BY <1>2, <2>3, <2>4
<1>3. S \in Good
  <2> HIDE DEF Good
  <2>1. QED
    BY <1>1, <1>2, FiniteInduction
<1>4. QED
  BY <1>3

\* SumFunction adds up the weights, in whatever order it takes them.
LEMMA SumIsWeight ==
    ASSUME NEW w, IsFiniteSet(DOMAIN w), \A x \in DOMAIN w : w[x] \in Nat
    PROVE  SumFunction(w) = Weight(w, DOMAIN w)
<1> DEFINE S == DOMAIN w
           One(T) == CHOOSE x \in T : TRUE
           Sums(f) == f = [T \in SUBSET S |->
                             IF T = {} THEN 0 ELSE w[One(T)] + f[T \ {One(T)}]]
           sum == CHOOSE f : Sums(f)
<1>1. SumFunction(w) = sum[S]
  BY DEF SumFunction, SumFunctionOnSet, FoldFunctionOnSet, MapThenFoldSet
<1>2. ASSUME NEW T \in SUBSET S, T # {}
      PROVE  /\ One(T) \in T /\ T \ {One(T)} \in SUBSET S
             /\ Weight(w, T) = w[One(T)] + Weight(w, T \ {One(T)})
             /\ w[One(T)] \in Nat /\ Weight(w, T \ {One(T)}) \in Nat
  <2>1. One(T) \in T
    BY <1>2
  <2> HIDE DEF One
  <2> DEFINE rest == T \ {One(T)}
  <2>2. rest \in SUBSET S /\ One(T) \notin rest /\ rest \cup {One(T)} = T
    BY <2>1
  <2>3. IsFiniteSet(rest) /\ w[One(T)] \in Nat /\ \A x \in rest : w[x] \in Nat
    BY <2>1, <2>2, FS_Subset
  <2> HIDE DEF rest
  <2>4. IsFiniteSet(Units(w, rest)) /\ Weight(w, rest) \in Nat
    BY <2>3, WeightType
  <2>5. Weight(w, rest \cup {One(T)}) = Weight(w, rest) + w[One(T)]
    BY <2>2, <2>3, <2>4, WeightOfMore
  <2>6. Weight(w, T) = w[One(T)] + Weight(w, rest)
    BY <2>2, <2>3, <2>4, <2>5, SMTT(30)
  <2>7. QED
    BY <2>1, <2>2, <2>3, <2>4, <2>6 DEF rest
<1>3. Sums([T \in SUBSET S |-> Weight(w, T)])
  <2>1. \A T \in SUBSET S : Weight(w, T) =
            IF T = {} THEN 0 ELSE w[One(T)] + Weight(w, T \ {One(T)})
    <3> HIDE DEF One
    <3>1. QED
      BY <1>2, WeightOfNone
  <2>2. \A T \in SUBSET S : T # {} => T \ {One(T)} \in SUBSET S
    OBVIOUS
  <2> HIDE DEF One
  <2>3. QED
    BY <2>1, <2>2
<1>4. Sums(sum)
  <2> HIDE DEF Sums
  <2>1. QED
    BY <1>3
<1>5. \A T \in SUBSET S : sum[T] =
          IF T = {} THEN 0 ELSE w[One(T)] + sum[T \ {One(T)}]
  <2> HIDE DEF sum, One
  <2>1. QED
    BY <1>4
<1> HIDE DEF sum, Sums
<1> DEFINE Good == {n \in Nat : \A T \in SUBSET S :
                       Cardinality(T) = n => sum[T] = Weight(w, T)}
<1>6. \A T \in SUBSET S : IsFiniteSet(T)
  BY FS_Subset
<1>7. 0 \in Good
  <2>1. \A T \in SUBSET S : Cardinality(T) = 0 => T = {}
    BY <1>6, FS_EmptySet
  <2>2. sum[{}] = 0
    BY <1>5
  <2>3. QED
    BY <2>1, <2>2, WeightOfNone
<1>8. ASSUME NEW n \in Nat, n \in Good PROVE n + 1 \in Good
  <2> SUFFICES ASSUME NEW T \in SUBSET S, Cardinality(T) = n + 1
               PROVE  sum[T] = Weight(w, T)
    OBVIOUS
  <2>1. T # {} /\ IsFiniteSet(T)
    BY <1>6, FS_EmptySet
  <2>2. /\ One(T) \in T /\ T \ {One(T)} \in SUBSET S
        /\ Weight(w, T) = w[One(T)] + Weight(w, T \ {One(T)})
    BY <1>2, <2>1
  <2>3. sum[T] = w[One(T)] + sum[T \ {One(T)}]
    BY <1>5, <2>1
  <2> HIDE DEF One
  <2>4. Cardinality(T \ {One(T)}) = n
    <3>1. Cardinality(T \ {One(T)}) = Cardinality(T) - 1
      BY <2>1, <2>2, FS_RemoveElement
    <3>2. QED
      BY <3>1
  <2>5. sum[T \ {One(T)}] = Weight(w, T \ {One(T)})
    BY <1>8, <2>2, <2>4
  <2>6. QED
    BY <2>2, <2>3, <2>5
<1>9. Nat \subseteq Good
  <2> HIDE DEF Good
  <2>1. QED
    BY <1>7, <1>8, Induction
<1>10. Cardinality(S) \in Nat
  BY FS_CardinalityType
<1>11. QED
  BY <1>1, <1>9, <1>10

\* Flattened, two sequences of pieces of the same lengths are as long as each other.
LEMMA FlattenLength ==
    ASSUME NEW S, NEW pieces \in Seq(Seq(S)), NEW T, NEW others \in Seq(Seq(T)),
           Len(others) = Len(pieces),
           \A k \in 1..Len(pieces) : Len(others[k]) = Len(pieces[k])
    PROVE  Len(FlattenSeq(others)) = Len(FlattenSeq(pieces))
<1> DEFINE n == Len(pieces)
<1>1. n \in Nat /\ \A k \in 1..n : pieces[k] \in Seq(S) /\ others[k] \in Seq(T)
  OBVIOUS
<1>2. PICK f : /\ Joins(f, pieces, n) /\ \A k \in 0..n : f[k] \in Seq(S)
               /\ FlattenSeq(pieces) = f[n]
  BY FlattenJoins
<1>3. PICK g : /\ Joins(g, others, n) /\ \A k \in 0..n : g[k] \in Seq(T)
               /\ FlattenSeq(others) = g[n]
  BY FlattenJoins
<1>4. \A k \in 1..n : Len(others[k]) = Len(pieces[k])
  OBVIOUS
<1> HIDE DEF n
<1> DEFINE Same == {m \in Nat : m <= n => Len(g[m]) = Len(f[m])}
<1>5. 0 \in Same
  BY <1>2, <1>3 DEF Joins
<1>6. ASSUME NEW m \in Nat, m \in Same PROVE m + 1 \in Same
  <2> SUFFICES ASSUME m + 1 <= n PROVE Len(g[m + 1]) = Len(f[m + 1])
    OBVIOUS
  <2>1. m \in 0 .. n - 1 /\ m \in 0..n /\ m + 1 \in 1..n
    BY <1>1
  <2>2. f[m + 1] = f[m] \o pieces[m + 1] /\ g[m + 1] = g[m] \o others[m + 1]
    BY <2>1, <1>2, <1>3 DEF Joins
  <2>3. f[m] \in Seq(S) /\ pieces[m + 1] \in Seq(S)
    BY <2>1, <1>1, <1>2
  <2>4. g[m] \in Seq(T) /\ others[m + 1] \in Seq(T)
    BY <2>1, <1>1, <1>3
  <2>5. Len(f[m + 1]) = Len(f[m]) + Len(pieces[m + 1])
    BY <2>2, <2>3, Behind
  <2>6. Len(g[m + 1]) = Len(g[m]) + Len(others[m + 1])
    BY <2>2, <2>4, Behind
  <2>7. Len(g[m]) = Len(f[m]) /\ Len(others[m + 1]) = Len(pieces[m + 1])
    BY <2>1, <1>4, <1>6
  <2>8. QED
    BY <2>5, <2>6, <2>7
<1>7. Nat \subseteq Same
  <2> HIDE DEF Same
  <2>1. QED
    BY <1>5, <1>6, Induction
<1>8. QED
  BY <1>1, <1>2, <1>3, <1>7
(***************************************************************************)
(* Listings of sets                                                        *)
(***************************************************************************)

\* A listing of a set has its elements, each once.
LEMMA ListingOf ==
    ASSUME NEW S, IsFiniteSet(S), NEW s \in SetToSeqs(S)
    PROVE  /\ s \in Seq(S) /\ Len(s) = Cardinality(S) /\ ToSet(s) = S
           /\ \A i, j \in DOMAIN s : i # j => s[i] # s[j]
<1> DEFINE n == Cardinality(S)
<1>1. n \in Nat
  BY FS_CardinalityType
<1>2. /\ s \in [1..n -> S]
      /\ \A i, j \in 1..n : i # j => s[i] # s[j]
  BY DEF SetToSeqs
<1> HIDE DEF n
<1>3. s \in Seq(S) /\ Len(s) = n /\ DOMAIN s = 1..n
  BY <1>1, <1>2, FunctionIsSequence
<1>4. s \in Surjection(1..n, S)
  <2>1. s \in Injection(1..n, S)
    BY <1>2 DEF Injection, IsInjective
  <2>2. Cardinality(1..n) = n
    BY <1>1, FS_Interval
  <2>3. QED
    BY <2>1, <2>2, FS_Injection DEF n
<1>5. ToSet(s) = S
  BY <1>2, <1>3, <1>4 DEF ToSet, Surjection
<1>6. QED
  BY <1>2, <1>3, <1>5 DEF n

\* A sequence without repetitions has as many elements as places.
LEMMA CountedOnce ==
    ASSUME NEW T, NEW s \in Seq(T), \A i, j \in 1..Len(s) : i < j => s[i] # s[j]
    PROVE  IsFiniteSet(ToSet(s)) /\ Cardinality(ToSet(s)) = Len(s)
<1> DEFINE n == Len(s)
<1>1. n \in Nat /\ DOMAIN s = 1..n
  OBVIOUS
<1>2. s \in [1..n -> ToSet(s)]
  BY DEF ToSet
<1>3. \A i, j \in 1..n : s[i] = s[j] => i = j
  OBVIOUS
<1>4. \A x \in ToSet(s) : \E i \in 1..n : s[i] = x
  BY DEF ToSet
<1> HIDE DEF n
<1>5. s \in Bijection(1..n, ToSet(s))
  BY <1>2, <1>3, <1>4, Fun_IsBij
<1>6. IsFiniteSet(1..n) /\ Cardinality(1..n) = n
  BY <1>1, FS_Interval
<1>7. ExistsBijection(1..n, ToSet(s))
  BY <1>5 DEF ExistsBijection
<1>8. QED
  BY <1>6, <1>7, FS_Bijection DEF n

\* A finite set whose elements have different keys can be listed by them.
LEMMA SortedExists ==
    ASSUME NEW S, IsFiniteSet(S), NEW key, \A x \in S : key[x] \in Nat,
           \A x, y \in S : key[x] = key[y] => x = y
    PROVE  \E s \in SetToSeqs(S) :
               \A i, j \in DOMAIN s : i < j => key[s[i]] < key[s[j]]
<1> DEFINE Listed(T, n, s) ==
              /\ s \in [1..n -> T]
              /\ \A i, j \in 1..n : i < j => key[s[i]] < key[s[j]]
           Good == {n \in Nat : \A T \in SUBSET S :
                       Cardinality(T) = n => \E s : Listed(T, n, s)}
<1>1. \A T \in SUBSET S : IsFiniteSet(T)
  BY FS_Subset
<1>2. 0 \in Good
  <2> SUFFICES ASSUME NEW T \in SUBSET S PROVE \E s : Listed(T, 0, s)
    OBVIOUS
  <2>1. Listed(T, 0, [i \in 1..0 |-> i])
    OBVIOUS
  <2>2. QED
    BY <2>1
<1>3. ASSUME NEW n \in Nat, n \in Good PROVE n + 1 \in Good
  <2> SUFFICES ASSUME NEW T \in SUBSET S, Cardinality(T) = n + 1
               PROVE  \E s : Listed(T, n + 1, s)
    OBVIOUS
  <2>1. T # {} /\ IsFiniteSet(T)
    BY <1>1, FS_EmptySet
  <2>2. PICK x \in T : \A y \in T : key[x] <= key[y]
    <3> DEFINE keys == {key[y] : y \in T}
    <3>1. keys \subseteq Nat /\ keys # {}
      BY <2>1
    <3>2. PICK k \in keys : \A l \in keys : k <= l
      <4> HIDE DEF keys
      <4>1. QED
        BY <3>1, LeastNumber
    <3>3. QED
      BY <3>2
  <2> DEFINE R == T \ {x}
  <2>3. R \in SUBSET S /\ Cardinality(R) = n
    <3>1. Cardinality(R) = Cardinality(T) - 1
      BY <2>1, <2>2, FS_RemoveElement
    <3>2. QED
      BY <3>1
  <2>4. \A y \in R : key[x] < key[y]
    <3> SUFFICES ASSUME NEW y \in R PROVE key[x] < key[y]
      OBVIOUS
    <3>1. x \in S /\ y \in S /\ x # y /\ key[x] <= key[y]
      BY <2>2
    <3>2. key[x] \in Nat /\ key[y] \in Nat /\ key[x] # key[y]
      BY <3>1
    <3>3. QED
      BY <3>1, <3>2
  <2>5. R \subseteq T /\ x \in T
    BY <2>2
  <2> HIDE DEF R
  <2>6. PICK r : Listed(R, n, r)
    BY <1>3, <2>3
  <2> DEFINE s == [i \in 1 .. n + 1 |-> IF i = 1 THEN x ELSE r[i - 1]]
  <2>7. \A i \in 1 .. n + 1 : i # 1 => i - 1 \in 1..n /\ s[i] = r[i - 1]
    OBVIOUS
  <2>8. s[1] = x
    OBVIOUS
  <2>9. r \in [1..n -> R] /\ \A i, j \in 1..n : i < j => key[r[i]] < key[r[j]]
    BY <2>6
  <2>10. s \in [1 .. n + 1 -> T]
    BY <2>5, <2>7, <2>8, <2>9
  <2>11. ASSUME NEW i \in 1 .. n + 1, NEW j \in 1 .. n + 1, i < j
         PROVE  key[s[i]] < key[s[j]]
    <3>1. j # 1 /\ j - 1 \in 1..n /\ s[j] = r[j - 1] /\ r[j - 1] \in R
      <4>1. j # 1
        BY <2>11
      <4>2. j - 1 \in 1..n /\ s[j] = r[j - 1]
        BY <2>7, <4>1
      <4>3. QED
        BY <2>9, <4>1, <4>2
    <3>2. CASE i = 1
      BY <2>4, <2>8, <3>1, <3>2
    <3>3. CASE i # 1
      <4>1. i - 1 \in 1..n /\ s[i] = r[i - 1]
        BY <2>7, <3>3
      <4>2. i - 1 < j - 1
        BY <2>11
      <4> HIDE DEF s
      <4>3. QED
        BY <2>9, <3>1, <4>1, <4>2
    <3>4. QED
      BY <3>2, <3>3
  <2> HIDE DEF s
  <2>12. Listed(T, n + 1, s)
    BY <2>10, <2>11
  <2>13. QED
    BY <2>12
<1>4. Nat \subseteq Good
  <2> HIDE DEF Good
  <2>1. QED
    BY <1>2, <1>3, Induction
<1>5. Cardinality(S) \in Nat
  BY FS_CardinalityType
<1>6. PICK s : Listed(S, Cardinality(S), s)
  BY <1>4, <1>5
<1>7. DOMAIN s = 1..Cardinality(S)
  BY <1>6
<1>8. \A i, j \in 1..Cardinality(S) : i # j => s[i] # s[j]
  <2> SUFFICES ASSUME NEW i \in 1..Cardinality(S), NEW j \in 1..Cardinality(S),
                      i # j
               PROVE  s[i] # s[j]
    OBVIOUS
  <2>1. s[i] \in S /\ s[j] \in S
    BY <1>6
  <2>2. key[s[i]] \in Nat /\ key[s[j]] \in Nat
    BY <2>1
  <2>3. i < j \/ j < i
    BY <1>5
  <2>4. key[s[i]] < key[s[j]] \/ key[s[j]] < key[s[i]]
    BY <1>6, <2>3
  <2>5. QED
    BY <2>2, <2>4
<1>9. s \in SetToSeqs(S)
  BY <1>6, <1>8 DEF SetToSeqs
<1>10. QED
  BY <1>6, <1>7, <1>9
=============================================================================
