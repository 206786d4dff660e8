-------------------------- MODULE ScanEngineProofs --------------------------
(***************************************************************************)
(* What holds of the scan engine for every configuration, source, pattern  *)
(* set and number of threads.                                              *)
(***************************************************************************)
EXTENDS ScanRefinement, OperatorProofs

(***************************************************************************)
(* InOrder                                                                 *)
(***************************************************************************)

AnyHit == [offset : Int, pattern : Int]

\* Sequence s lists the hits of S, each once, in their order.
Sorts(s, S) ==
    /\ s \in Seq(S) /\ S \subseteq ToSet(s)
    /\ \A i, j \in 1..Len(s) : i < j => HitBefore(s[i], s[j])

\* The order of hits is strict and total.
LEMMA HitOrder ==
    /\ \A g \in AnyHit : ~HitBefore(g, g)
    /\ \A g, h \in AnyHit : HitBefore(g, h) => ~HitBefore(h, g)
    /\ \A g, h, k \in AnyHit :
          HitBefore(g, h) /\ HitBefore(h, k) => HitBefore(g, k)
    /\ \A g, h \in AnyHit : g = h \/ HitBefore(g, h) \/ HitBefore(h, g)
<1>1. ASSUME NEW g \in AnyHit, NEW h \in AnyHit,
             g.offset = h.offset, g.pattern = h.pattern
      PROVE  g = h
  BY <1>1 DEF AnyHit
<1>2. \A g \in AnyHit : g.offset \in Int /\ g.pattern \in Int
  BY DEF AnyHit
<1>3. QED
  BY <1>1, <1>2 DEF HitBefore

\* A sorted listing has no hit twice.
LEMMA SortedInjective ==
    ASSUME NEW S, S \subseteq AnyHit, NEW s, Sorts(s, S)
    PROVE  /\ Len(s) \in Nat /\ DOMAIN s = 1..Len(s)
           /\ \A i \in 1..Len(s) : s[i] \in S
           /\ \A i, j \in 1..Len(s) :
                 /\ s[i] = s[j] => i = j
                 /\ HitBefore(s[i], s[j]) => i < j
<1>1. /\ Len(s) \in Nat /\ DOMAIN s = 1..Len(s)
      /\ \A i \in 1..Len(s) : s[i] \in S
  BY DEF Sorts
<1>2. ASSUME NEW i \in 1..Len(s), NEW j \in 1..Len(s), ~(i < j)
      PROVE  ~HitBefore(s[i], s[j])
  <2>1. i = j \/ j < i
    BY <1>1, <1>2
  <2>2. s[i] \in AnyHit /\ s[j] \in AnyHit
    BY <1>1
  <2>3. QED
    BY <2>1, <2>2, HitOrder DEF Sorts
<1>3. ASSUME NEW i \in 1..Len(s), NEW j \in 1..Len(s), s[i] = s[j]
      PROVE  i = j
  <2>1. s[i] \in AnyHit
    BY <1>1
  <2>2. ~(i < j) /\ ~(j < i)
    BY <2>1, <1>3, HitOrder DEF Sorts
  <2>3. QED
    BY <2>2, <1>1
<1>4. QED
  BY <1>1, <1>2, <1>3

\* A sorted listing is the one InOrder chooses.
LEMMA SortedIsInOrder ==
    ASSUME NEW S, S \subseteq AnyHit, NEW s, Sorts(s, S)
    PROVE  InOrder(S) = s
<1> DEFINE n == Len(s)
           before(h) == {g \in S : HitBefore(g, h)}
<1>1. /\ n \in Nat /\ DOMAIN s = 1..n
      /\ \A i \in 1..n : s[i] \in S
      /\ \A i, j \in 1..n : s[i] = s[j] => i = j
      /\ \A i, j \in 1..n : HitBefore(s[i], s[j]) => i < j
  BY SortedInjective
<1>2. \A h \in S : \E i \in 1..n : s[i] = h
  BY <1>1 DEF Sorts, ToSet
<1> HIDE DEF n
<1>3. Cardinality(S) = n
  <2> DEFINE f == [i \in 1..n |-> s[i]]
  <2>1. f \in Bijection(1..n, S)
    BY <1>1, <1>2, Fun_IsBij
  <2>2. ExistsBijection(1..n, S)
    BY <2>1 DEF ExistsBijection
  <2>3. QED
    BY <2>2, <1>1, FS_CountingElements
<1>4. ASSUME NEW i \in 1..n PROVE Cardinality(before(s[i])) = i - 1
  <2> DEFINE f == [j \in 1 .. i - 1 |-> s[j]]
  <2>1. \A j \in 1 .. i - 1 : j \in 1..n /\ s[j] \in before(s[i])
    <3> SUFFICES ASSUME NEW j \in 1 .. i - 1
                 PROVE  j \in 1..n /\ s[j] \in before(s[i])
      OBVIOUS
    <3>1. j \in 1..n /\ j < i
      BY <1>1
    <3>2. HitBefore(s[j], s[i])
      BY <3>1 DEF Sorts, n
    <3>3. QED
      BY <3>1, <3>2, <1>1
  <2>2. ASSUME NEW h \in before(s[i]) PROVE \E j \in 1 .. i - 1 : s[j] = h
    <3>1. PICK j \in 1..n : s[j] = h
      BY <1>2
    <3>2. j < i
      BY <3>1, <1>1
    <3>3. QED
      BY <3>1, <3>2, <1>1
  <2> HIDE DEF before
  <2>3. f \in Bijection(1 .. i - 1, before(s[i]))
    BY <1>1, <2>1, <2>2, Fun_IsBij
  <2>4. ExistsBijection(1 .. i - 1, before(s[i]))
    BY <2>3 DEF ExistsBijection
  <2>5. i - 1 \in Nat
    BY <1>1
  <2>6. QED
    BY <2>4, <2>5, FS_CountingElements
<1>5. ASSUME NEW i \in 1..n
      PROVE  (CHOOSE h \in S : Cardinality(before(h)) = i - 1) = s[i]
  <2>1. s[i] \in S /\ Cardinality(before(s[i])) = i - 1
    BY <1>1, <1>4
  <2>2. ASSUME NEW h \in S, Cardinality(before(h)) = i - 1 PROVE h = s[i]
    <3>1. PICK j \in 1..n : s[j] = h
      BY <1>2
    <3>2. Cardinality(before(s[j])) = j - 1
      BY <1>4
    <3>3. j = i
      BY <3>1, <3>2, <2>2, <1>1
    <3>4. QED
      BY <3>1, <3>3
  <2> HIDE DEF before
  <2>3. QED
    BY <2>1, <2>2
<1>6. InOrder(S) = [i \in 1..n |-> s[i]]
  BY <1>3, <1>5 DEF InOrder
<1>7. s = [i \in 1..n |-> s[i]]
  BY DEF Sorts, n
<1>8. QED
  BY <1>6, <1>7

\* Hits that are not empty have a last one.
LEMMA LastHit ==
    ASSUME NEW S, S \subseteq AnyHit, IsFiniteSet(S), S # {}
    PROVE  \E h \in S : \A g \in S \ {h} : HitBefore(g, h)
<1> DEFINE Good == {T \in SUBSET S : T # {} =>
                       \E h \in T : \A g \in T \ {h} : HitBefore(g, h)}
<1>1. ASSUME NEW T \in SUBSET S, NEW x \in S, T \in Good, x \notin T
      PROVE  T \cup {x} \in Good
  <2>1. CASE T = {}
    BY <2>1
  <2>2. CASE T # {}
    <3>1. PICK h \in T : \A g \in T \ {h} : HitBefore(g, h)
      BY <1>1, <2>2
    <3>2. h \in AnyHit /\ x \in AnyHit /\ h # x /\ T \subseteq AnyHit
      BY <1>1
    <3>3. CASE HitBefore(x, h)
      BY <3>1, <3>3
    <3>4. CASE HitBefore(h, x)
      <4>1. \A g \in (T \cup {x}) \ {x} : HitBefore(g, x)
        BY <3>1, <3>2, <3>4, HitOrder
      <4>2. QED
        BY <4>1
    <3>5. QED
      BY <3>2, <3>3, <3>4, HitOrder
  <2>3. QED
    BY <2>1, <2>2
<1>2. {} \in Good
  OBVIOUS
<1>3. S \in Good
  <2> HIDE DEF Good
  <2>1. QED
    BY <1>1, <1>2, FiniteInduction
<1>4. QED
  BY <1>3

\* A hit behind all the others is appended to their listing.
LEMMA SortsMore ==
    ASSUME NEW T, NEW h \in T, NEW s, Sorts(s, T \ {h}),
           \A g \in T \ {h} : HitBefore(g, h)
    PROVE  Sorts(Append(s, h), T)
<1> DEFINE n == Len(s)
           t == Append(s, h)
<1>1. n \in Nat /\ DOMAIN s = 1..n /\ \A i \in 1..n : s[i] \in T \ {h}
  BY DEF Sorts
<1>2. /\ s \in Seq(T) /\ t \in Seq(T) /\ Len(t) = n + 1
      /\ \A i \in 1..n : t[i] = s[i]
      /\ t[n + 1] = h
  BY DEF Sorts
<1> HIDE DEF n, t
<1>3. T \subseteq ToSet(t)
  <2> SUFFICES ASSUME NEW g \in T PROVE \E i \in 1 .. n + 1 : t[i] = g
    BY <1>2 DEF ToSet
  <2>1. CASE g = h
    BY <2>1, <1>1, <1>2
  <2>2. CASE g # h
    <3>1. PICK i \in 1..n : s[i] = g
      BY <2>2, <1>1 DEF Sorts, ToSet
    <3>2. QED
      BY <3>1, <1>1, <1>2
  <2>3. QED
    BY <2>1, <2>2
<1>4. ASSUME NEW i \in 1 .. n + 1, NEW j \in 1 .. n + 1, i < j
      PROVE  HitBefore(t[i], t[j])
  <2>1. i \in 1..n
    BY <1>1, <1>4
  <2>2. CASE j = n + 1
    BY <2>1, <2>2, <1>1, <1>2
  <2>3. CASE j # n + 1
    <3>1. j \in 1..n
      BY <2>3, <1>1
    <3>2. HitBefore(s[i], s[j])
      BY <2>1, <3>1, <1>4 DEF Sorts, n
    <3>3. QED
      BY <2>1, <3>1, <3>2, <1>2
  <2>4. QED
    BY <2>2, <2>3
<1>5. QED
  BY <1>2, <1>3, <1>4 DEF Sorts, t

\* InOrder lists the hits of a finite set, each once, in their order.
LEMMA InOrderSorts ==
    ASSUME NEW S, S \subseteq AnyHit, IsFiniteSet(S)
    PROVE  Sorts(InOrder(S), S)
<1> DEFINE Good == {n \in Nat : \A T \in SUBSET S :
                       Cardinality(T) = n => \E s : Sorts(s, T)}
<1>1. 0 \in Good
  <2> SUFFICES ASSUME NEW T \in SUBSET S, Cardinality(T) = 0
               PROVE  \E s : Sorts(s, T)
    OBVIOUS
  <2>1. T = {}
    <3>1. IsFiniteSet(T)
      BY FS_Subset
    <3>2. QED
      BY <3>1, FS_EmptySet
  <2>2. Sorts(<<>>, {})
    BY DEF Sorts
  <2>3. QED
    BY <2>1, <2>2
<1>2. ASSUME NEW n \in Nat, n \in Good PROVE n + 1 \in Good
  <2> SUFFICES ASSUME NEW T \in SUBSET S, Cardinality(T) = n + 1
               PROVE  \E s : Sorts(s, T)
    OBVIOUS
  <2>1. IsFiniteSet(T) /\ T \subseteq AnyHit
    BY FS_Subset
  <2>2. T # {}
    BY <2>1, FS_EmptySet
  <2>3. PICK h \in T : \A g \in T \ {h} : HitBefore(g, h)
    BY <2>1, <2>2, LastHit
  <2>4. Cardinality(T \ {h}) = n
    <3>1. Cardinality(T \ {h}) = Cardinality(T) - 1
      BY <2>1, <2>3, FS_RemoveElement
    <3>2. QED
      BY <3>1
  <2>5. PICK s : Sorts(s, T \ {h})
    BY <2>4, <1>2
  <2>6. QED
    BY <2>3, <2>5, SortsMore
<1>3. Nat \subseteq Good
  <2> HIDE DEF Good
  <2>1. QED
    BY <1>1, <1>2, Induction
<1>4. Cardinality(S) \in Nat
  BY FS_CardinalityType
<1>5. PICK s : Sorts(s, S)
  BY <1>3, <1>4
<1>6. QED
  BY <1>5, SortedIsInOrder

\* A listing followed by the listing of later hits is one of them all.
LEMMA SortsTogether ==
    ASSUME NEW S, NEW T, NEW s, NEW t, Sorts(s, S), Sorts(t, T),
           \A g \in S, h \in T : HitBefore(g, h)
    PROVE  Sorts(s \o t, S \cup T)
<1> DEFINE n == Len(s)
           m == Len(t)
           u == s \o t
<1>1. /\ n \in Nat /\ m \in Nat /\ DOMAIN s = 1..n /\ DOMAIN t = 1..m
      /\ \A i \in 1..n : s[i] \in S
      /\ \A i \in 1..m : t[i] \in T
  BY DEF Sorts
<1>2. /\ u \in Seq(S \cup T) /\ Len(u) = n + m
      /\ \A i \in 1..n : u[i] = s[i]
      /\ \A i \in 1..m : u[n + i] = t[i]
  <2>1. s \in Seq(S \cup T) /\ t \in Seq(S \cup T)
    BY DEF Sorts
  <2>2. QED
    BY <2>1
<1> HIDE DEF n, m, u
<1>3. \A i \in 1 .. n + m : i \in 1..n \/ (i - n \in 1..m /\ n + (i - n) = i)
  BY <1>1
<1>4. S \cup T \subseteq ToSet(u)
  <2> SUFFICES ASSUME NEW g \in S \cup T PROVE \E i \in 1 .. n + m : u[i] = g
    BY <1>2 DEF ToSet
  <2>1. CASE g \in S
    <3>1. PICK i \in 1..n : s[i] = g
      BY <2>1, <1>1 DEF Sorts, ToSet
    <3>2. QED
      BY <3>1, <1>1, <1>2
  <2>2. CASE g \in T
    <3>1. PICK i \in 1..m : t[i] = g
      BY <2>2, <1>1 DEF Sorts, ToSet
    <3>2. n + i \in 1 .. n + m
      BY <1>1
    <3>3. QED
      BY <3>1, <3>2, <1>2
  <2>3. QED
    BY <2>1, <2>2
<1>5. ASSUME NEW i \in 1 .. n + m, NEW j \in 1 .. n + m, i < j
      PROVE  HitBefore(u[i], u[j])
  <2>1. CASE j \in 1..n
    <3>1. i \in 1..n
      BY <2>1, <1>1, <1>5
    <3>2. HitBefore(s[i], s[j])
      BY <2>1, <3>1, <1>5 DEF Sorts, n
    <3>3. QED
      BY <2>1, <3>1, <3>2, <1>2
  <2>2. CASE i \in 1..n /\ j \notin 1..n
    <3>1. u[i] = s[i] /\ s[i] \in S
      BY <2>2, <1>1, <1>2
    <3>2. u[n + (j - n)] = t[j - n] /\ t[j - n] \in T /\ n + (j - n) = j
      BY <2>2, <1>1, <1>2, <1>3
    <3>3. QED
      BY <3>1, <3>2
  <2>3. CASE i \notin 1..n
    <3>1. u[n + (i - n)] = t[i - n] /\ i - n \in 1..m /\ n + (i - n) = i
      BY <2>3, <1>2, <1>3
    <3>2. j \notin 1..n
      BY <2>3, <1>1, <1>5
    <3>3. u[n + (j - n)] = t[j - n] /\ j - n \in 1..m /\ n + (j - n) = j
      BY <3>2, <1>2, <1>3
    <3>4. i - n < j - n
      BY <1>1, <1>5
    <3>5. HitBefore(t[i - n], t[j - n])
      BY <3>1, <3>3, <3>4 DEF Sorts, m
    <3>6. QED
      BY <3>1, <3>3, <3>5
  <2>4. QED
    BY <2>1, <2>2, <2>3
<1>6. QED
  BY <1>2, <1>4, <1>5 DEF Sorts, u

\* Listings put together by FlattenSeq, each of hits behind those of the
\* listings before it, are one listing.
LEMMA FlattenSorts ==
    ASSUME NEW n \in Nat, NEW Found, NEW lists,
           lists \in Seq(Seq(AnyHit)), Len(lists) = n,
           \A k \in 1..n : Sorts(lists[k], Found[k]),
           \A k, m \in 1..n : k < m =>
              \A g \in Found[k], h \in Found[m] : HitBefore(g, h)
    PROVE  Sorts(FlattenSeq(lists), UNION {Found[k] : k \in 1..n})
<1>1. PICK joined : /\ Joins(joined, lists, n)
                    /\ \A k \in 0..n : joined[k] \in Seq(AnyHit)
                    /\ FlattenSeq(lists) = joined[n]
  BY FlattenJoins
<1> DEFINE upTo(k) == UNION {Found[i] : i \in 1..k}
           Good == {k \in Nat : k <= n => Sorts(joined[k], upTo(k))}
<1>2. 0 \in Good
  <2>1. joined[0] = <<>> /\ upTo(0) = {}
    BY <1>1 DEF Joins
  <2>2. Sorts(<<>>, {})
    BY DEF Sorts
  <2> HIDE DEF upTo
  <2>3. QED
    BY <2>1, <2>2
<1>3. ASSUME NEW k \in Nat, k \in Good PROVE k + 1 \in Good
  <2> SUFFICES ASSUME k + 1 <= n PROVE Sorts(joined[k + 1], upTo(k + 1))
    OBVIOUS
  <2>1. joined[k + 1] = joined[k] \o lists[k + 1]
    <3>1. k \in 0 .. n - 1
      OBVIOUS
    <3>2. QED
      BY <3>1, <1>1 DEF Joins
  <2>2. Sorts(joined[k], upTo(k))
    BY <1>3
  <2>3. Sorts(lists[k + 1], Found[k + 1])
    OBVIOUS
  <2>4. upTo(k + 1) = upTo(k) \cup Found[k + 1]
    <3>1. 1 .. k + 1 = (1..k) \cup {k + 1}
      OBVIOUS
    <3>2. QED
      BY <3>1
  <2>5. \A g \in upTo(k), h \in Found[k + 1] : HitBefore(g, h)
    <3> SUFFICES ASSUME NEW i \in 1..k, NEW g \in Found[i], NEW h \in Found[k + 1]
                 PROVE  HitBefore(g, h)
      OBVIOUS
    <3>1. i \in 1..n /\ k + 1 \in 1..n /\ i < k + 1
      OBVIOUS
    <3>2. QED
      BY <3>1
  <2> HIDE DEF upTo
  <2>6. Sorts(joined[k] \o lists[k + 1], upTo(k) \cup Found[k + 1])
    BY <2>2, <2>3, <2>5, SortsTogether
  <2>7. QED
    BY <2>1, <2>4, <2>6
<1>4. Nat \subseteq Good
  <2> HIDE DEF Good
  <2>1. QED
    BY <1>2, <1>3, Induction
<1>5. Sorts(joined[n], upTo(n))
  <2>1. n \in Good
    BY <1>4
  <2> HIDE DEF upTo
  <2>2. QED
    BY <2>1
<1>6. QED
  BY <1>1, <1>5

(***************************************************************************)
(* The layout                                                              *)
(***************************************************************************)

\* Integer division by a positive divisor.
LEMMA Division ==
    ASSUME NEW n \in Nat, NEW d \in Nat \ {0}
    PROVE  /\ n \div d \in Nat
           /\ (n \div d) * d <= n
           /\ n < (n \div d) * d + d
  OBVIOUS

\* What u64 arithmetic makes of an integer.
LEMMA Wrapping ==
    ASSUME NEW n \in Int
    PROVE  /\ n % Word \in 0 .. Word - 1
           /\ 0 <= n /\ n < Word => n % Word = n
           /\ 0 <= n => n % Word <= n
           /\ n < 0 /\ 0 < n + Word => n % Word = n + Word
<1>1. Word \in Nat \ {0}
  BY WordAssumption
<1>2. n % Word \in 0 .. Word - 1
  BY <1>1
<1>3. 0 <= n /\ n < Word => n % Word = n
  BY <1>1
<1>4. 0 <= n => n % Word <= n
  <2>1. CASE n < Word
    BY <2>1, <1>3
  <2>2. CASE ~(n < Word)
    BY <2>2, <1>1, <1>2
  <2>3. QED
    BY <2>1, <2>2
<1>5. n < 0 /\ 0 < n + Word => n % Word = n + Word
  BY <1>1
<1>6. QED
  BY <1>2, <1>3, <1>4, <1>5

\* A block buffer is a u64; it is the exact sum when that sum does not wrap.
LEMMA BufferType ==
    ASSUME NEW b \in Nat, NEW o \in Nat
    PROVE  /\ BufferBytes(b, o) \in 0 .. Word - 1
           /\ b + o < Word => BufferBytes(b, o) = b + o
  BY WordAssumption DEF BufferBytes

\* Plan::resolve returns a plan with at least one byte per block and at least
\* one thread, however its arguments are chosen.
LEMMA ResolveType ==
    ASSUME NEW c \in Config, NEW size \in Nat,
           ~InvalidConfig(c), ~DividesByZero(c)
    PROVE  Resolve(c, size) \in Plan
<1> DEFINE block == EffectiveBlock(c)
           buffer == BufferBytes(block, c.overlap)
<1>1. /\ c.block_size \in Nat \ {0} /\ c.overlap \in Nat \ {0}
      /\ c.threads \in Nat \ {0} /\ c.memory_budget \in Nat
  BY WordAssumption DEF Config, InvalidConfig
<1>2. block \in 1 .. Word - 1 /\ c.overlap \in 1 .. Word - 1
  <2>1. block \in 0 .. Word - 1
    <3>1. c.memory_budget - c.overlap \in Int
      BY <1>1
    <3>2. (c.memory_budget - c.overlap) % Word \in 0 .. Word - 1
      BY <3>1, Wrapping
    <3>3. c.block_size \in 0 .. Word - 1
      BY DEF Config
    <3>4. QED
      BY <3>2, <3>3 DEF EffectiveBlock
  <2>2. block # 0
    BY DEF DividesByZero
  <2>3. c.overlap \in 0 .. Word - 1
    BY DEF Config
  <2> HIDE DEF block
  <2>4. QED
    BY <2>1, <2>2, <2>3, <1>1, WordAssumption
<1>3. buffer \in Nat \ {0}
  <2>1. buffer \in 0 .. Word - 1
    <3> HIDE DEF block
    <3>1. block \in Nat /\ c.overlap \in Nat
      BY <1>1, <1>2, WordAssumption
    <3>2. QED
      BY <3>1, BufferType
  <2>2. buffer # 0
    BY DEF DividesByZero
  <2>3. QED
    BY <2>1, <2>2, WordAssumption
<1>4. c.memory_budget \div buffer \in Nat
  BY <1>1, <1>3, Division
<1>5. WorkerThreads(c) \in Nat \ {0}
  BY <1>1, <1>4 DEF WorkerThreads, AtLeastOne
<1>6. BlockCount(size, block) \in Nat
  <2>1. size + block - 1 \in Nat
    BY <1>2
  <2>2. QED
    BY <2>1, <1>2, Division DEF BlockCount
<1>7. QED
  BY <1>1, <1>2, <1>5, <1>6 DEF Resolve, Plan

\* As many buffers as there are worker threads fit in the budget together.
LEMMA PlanFitsBudget ==
    ASSUME NEW c \in Config,
           ~InvalidConfig(c), ~DividesByZero(c), NoWrap(c)
    PROVE  WorkerThreads(c) * (EffectiveBlock(c) + c.overlap)
               <= c.memory_budget
<1> DEFINE block == EffectiveBlock(c)
           buffer == BufferBytes(block, c.overlap)
<1>1. /\ c.block_size \in Nat \ {0} /\ c.overlap \in Nat \ {0}
      /\ c.threads \in Nat \ {0} /\ c.memory_budget \in 0 .. Word - 1
  BY WordAssumption DEF Config, InvalidConfig
<1>2. block \in Nat \ {0}
  <2>1. Resolve(c, 0) \in Plan
    BY ResolveType
  <2>2. Resolve(c, 0).block_size = block
    BY DEF Resolve
  <2> HIDE DEF block
  <2>3. QED
    BY <2>1, <2>2 DEF Plan
<1>3. /\ buffer = block + c.overlap
      /\ buffer <= c.memory_budget
  <2>1. CASE MustShrink(c)
    <3> DEFINE smallest == MinBlockSize + c.overlap
               spare == c.memory_budget - c.overlap
    <3>a. smallest \in Nat /\ c.overlap < smallest
      BY <1>1, MinBlockAssumption
    <3>b. smallest % Word = smallest
      <4>1. smallest < Word
        BY DEF NoWrap
      <4> HIDE DEF smallest
      <4>2. QED
        BY <3>a, <4>1, Wrapping
    <3>c. smallest <= c.memory_budget
      <4>1. ~(c.memory_budget < smallest % Word)
        BY <2>1 DEF InvalidConfig, SmallestBuffer
      <4> HIDE DEF smallest
      <4>2. QED
        BY <4>1, <3>a, <3>b, <1>1
    <3>d. spare \in Int /\ 0 <= spare /\ spare < Word
      <4> HIDE DEF smallest
      <4>1. QED
        BY <3>a, <3>c, <1>1, WordAssumption
    <3>e. block = spare
      <4>1. block = spare % Word
        BY <2>1 DEF EffectiveBlock
      <4> HIDE DEF spare, block
      <4>2. QED
        BY <4>1, <3>d, Wrapping
    <3>1. block + c.overlap = c.memory_budget
      <4> HIDE DEF block
      <4>1. QED
        BY <3>e, <1>1
    <3>2. block + c.overlap < Word
      BY <3>1, <1>1, WordAssumption
    <3>3. buffer = block + c.overlap
      <4> HIDE DEF block
      <4>1. QED
        BY <3>2, <1>1, <1>2, BufferType
    <3>4. QED
      BY <3>1, <3>3, <1>1
  <2>2. CASE ~MustShrink(c)
    <3>1. block = c.block_size
      BY <2>2 DEF EffectiveBlock
    <3>2. BufferBytes(c.block_size, c.overlap) = c.block_size + c.overlap
      BY <1>1, BufferType DEF NoWrap
    <3>3. QED
      BY <3>1, <3>2, <2>2, <1>1 DEF MustShrink
  <2>3. QED
    BY <2>1, <2>2
<1> DEFINE q == c.memory_budget \div buffer
<1>4. buffer \in Nat \ {0}
  BY <1>1, <1>2, <1>3
<1>5. q \in Nat /\ q * buffer <= c.memory_budget /\ q >= 1
  <2>1. /\ q \in Nat /\ q * buffer <= c.memory_budget
        /\ c.memory_budget < q * buffer + buffer
    <3> HIDE DEF buffer
    <3>1. QED
      BY <1>1, <1>4, Division, WordAssumption
  <2>2. q # 0
    <3> HIDE DEF buffer, q
    <3>1. ASSUME q = 0 PROVE FALSE
      <4>1. q * buffer = 0
        BY <3>1, <1>4
      <4>2. c.memory_budget < 0 + buffer
        BY <4>1, <2>1
      <4>3. buffer <= c.memory_budget /\ c.memory_budget \in Nat
        BY <1>1, <1>3
      <4>4. QED
        BY <4>2, <4>3, <1>4
    <3>2. QED
      BY <3>1
  <2>3. QED
    BY <2>1, <2>2
<1>6. WorkerThreads(c) \in Nat /\ WorkerThreads(c) <= q
  BY <1>1, <1>5 DEF WorkerThreads, AtLeastOne
<1>7. WorkerThreads(c) * buffer <= q * buffer
  <2> HIDE DEF q, buffer
  <2>1. QED
    BY <1>4, <1>5, <1>6
<1>8. QED
  <2> DEFINE t == WorkerThreads(c)
  <2>1. t * buffer \in Nat /\ q * buffer \in Nat /\ c.memory_budget \in Nat
    BY <1>1, <1>4, <1>5, <1>6
  <2>2. QED
    BY <2>1, <1>3, <1>5, <1>7
(***************************************************************************)
(* The geometry of the blocks                                              *)
(***************************************************************************)

\* A plan whose blocks are laid over its source, as Plan::resolve returns it.
Laid(p) ==
    /\ p \in Plan /\ p.block_count = BlockCount(p.source_size, p.block_size)
    /\ 2 * p.source_size < Word

\* The sizes of a plan.
LEMMA LaidSizes ==
    ASSUME NEW p, Laid(p)
    PROVE  /\ p.block_size \in Nat \ {0} /\ p.block_size < Word
           /\ p.overlap \in Nat \ {0} /\ p.overlap < Word
           /\ p.block_count \in Nat /\ p.source_size \in Nat
           /\ 2 * p.source_size < Word /\ Word \in Nat \ {0}
<1>1. p.block_size \in 1 .. Word - 1 /\ p.overlap \in 1 .. Word - 1
  BY DEF Laid, Plan
<1>2. QED
  BY <1>1, WordAssumption DEF Laid, Plan

\* Products of naturals are naturals and grow with their factors.
LEMMA Products ==
    ASSUME NEW a \in Nat, NEW b \in Nat, NEW d \in Nat \ {0}
    PROVE  /\ a * d \in Nat
           /\ a < b => a * d + d <= b * d
           /\ a <= b => a * d <= b * d
  OBVIOUS

\* The last block starts inside the source and the blocks reach its end.
LEMMA BlocksReachTheEnd ==
    ASSUME NEW p, Laid(p)
    PROVE  /\ p.block_count * p.block_size <= p.source_size + p.block_size - 1
           /\ p.source_size <= p.block_count * p.block_size
<1> DEFINE d == p.block_size
           n == p.source_size + p.block_size - 1
           q == n \div d
<1>1. d \in Nat \ {0} /\ p.source_size \in Nat
  BY DEF Laid, Plan
<1>2. n \in Nat
  BY <1>1
<1>3. p.block_count = q
  BY DEF Laid, BlockCount
<1>4. q \in Nat /\ q * d <= n /\ n < q * d + d
  <2> HIDE DEF n, d
  <2>1. QED
    BY <1>1, <1>2, Division
<1>5. q * d \in Nat
  <2> HIDE DEF q, d
  <2>1. QED
    BY <1>1, <1>4, Products
<1>6. QED
  <2> DEFINE m == q * d
  <2>1. m \in Nat /\ m <= p.source_size + d - 1 /\ p.source_size + d - 1 < m + d
    BY <1>4, <1>5
  <2>2. m <= p.source_size + d - 1 /\ p.source_size <= m
    <3> HIDE DEF m, d
    <3>1. QED
      BY <2>1, <1>1
  <2>3. QED
    BY <2>2, <1>3

\* A block is not empty and lies in the source.  It reads inside the source, and
\* unless its length wraps at most the overlap past what it owns; when the size
\* plus the overlap is a u64 it reads all it owns and the overlap behind it.
LEMMA BlockBounds ==
    ASSUME NEW p, Laid(p), NEW b \in Blocks(p)
    PROVE  /\ b \in Nat
           /\ Start(p, b) \in Nat /\ OwnedEnd(p, b) \in Nat
           /\ ReadEnd(p, b) \in Nat /\ ReadLen(p, b) \in Nat
           /\ Start(p, b) < OwnedEnd(p, b)
           /\ OwnedEnd(p, b) <= p.source_size
           /\ OwnedEnd(p, b) = AtMost(p.source_size, Start(p, b) + p.block_size)
           /\ ReadEnd(p, b) <= p.source_size
           /\ ~TooLong(ReadLen(p, b)) =>
                 /\ Start(p, b) + ReadLen(p, b) = ReadEnd(p, b)
                 /\ ReadLen(p, b) <= p.block_size + p.overlap
           /\ p.source_size + p.overlap < Word =>
                 /\ ReadEnd(p, b) = AtMost(p.source_size,
                                           OwnedEnd(p, b) + p.overlap)
                 /\ OwnedEnd(p, b) <= ReadEnd(p, b)
                 /\ ~TooLong(ReadLen(p, b))
<1> DEFINE d == p.block_size
           st == Start(p, b)
           own == OwnedEnd(p, b)
           end == ReadEnd(p, b)
           len == ReadLen(p, b)
           size == p.source_size
           over == p.overlap
<1>1. /\ d \in Nat \ {0} /\ d < Word /\ over \in Nat \ {0} /\ over < Word
      /\ p.block_count \in Nat /\ size \in Nat /\ 2 * size < Word
      /\ Word \in Nat \ {0}
  BY LaidSizes
<1>2. b \in Nat /\ b < p.block_count
  BY <1>1 DEF Blocks
<1>3. /\ st \in Nat
      /\ st + d <= p.block_count * d
      /\ p.block_count * d \in Nat
  BY <1>1, <1>2, Products DEF Start
<1>4. st < size
  <2> DEFINE m == p.block_count * d
  <2>1. m \in Nat /\ m <= size + d - 1 /\ st + d <= m
    BY <1>3, BlocksReachTheEnd
  <2> HIDE DEF m, st, d, size
  <2>2. QED
    BY <2>1, <1>1, <1>3
<1>5. st + d < Word
  <2>1. CASE b = 0
    <3>1. st = 0
      BY <2>1, <1>1 DEF Start
    <3> HIDE DEF st, d
    <3>2. QED
      BY <3>1, <1>1
  <2>2. CASE b # 0
    <3>1. 0 < b
      BY <2>2, <1>2
    <3>2. 0 * d + d <= b * d
      BY <3>1, <1>1, <1>2, Products
    <3>3. d <= st
      <4>1. b * d = st
        BY DEF Start
      <4> HIDE DEF d, st
      <4>2. QED
        BY <4>1, <3>2, <1>1, <1>3
    <3> HIDE DEF st, d, size
    <3>4. QED
      BY <3>3, <1>1, <1>3, <1>4
  <2>3. QED
    BY <2>1, <2>2
<1>6. own = AtMost(size, st + d)
  <2>1. own = AtMost(size, (st + d) % Word)
    BY DEF OwnedEnd
  <2> HIDE DEF st, d, own, size
  <2>2. st + d \in Int /\ 0 <= st + d
    BY <1>1, <1>3
  <2>3. (st + d) % Word = st + d
    BY <2>2, <1>5, Wrapping
  <2>4. QED
    BY <2>1, <2>3
<1>7. own \in Nat /\ st < own /\ own <= size /\ own <= st + d
  <2> HIDE DEF st, d, own, size
  <2>1. QED
    BY <1>1, <1>3, <1>4, <1>6 DEF AtMost
<1> DEFINE past == (own + over) % Word
<1>8. end = AtMost(size, past)
  BY DEF ReadEnd
<1>9. past \in Nat /\ past <= own + over
      /\ (size + over < Word => past = own + over)
  <2> HIDE DEF own, over, size
  <2>1. own + over \in Int /\ 0 <= own + over
    BY <1>1, <1>7
  <2>2. past \in 0 .. Word - 1 /\ past <= own + over
    BY <2>1, Wrapping
  <2>3. ASSUME size + over < Word PROVE past = own + over
    <3>1. own + over < Word
      BY <2>3, <1>1, <1>7
    <3>2. QED
      BY <3>1, <2>1, Wrapping
  <2> HIDE DEF past
  <2>4. QED
    BY <2>2, <2>3, <1>1
<1> HIDE DEF past
<1>10. end \in Nat /\ end <= size /\ end <= own + over
  <2> HIDE DEF own, over, size, end
  <2>1. QED
    BY <1>1, <1>7, <1>8, <1>9 DEF AtMost
<1>11. len = (end - st) % Word
  BY DEF ReadLen
<1>12. len \in Nat
  <2> HIDE DEF st, end, len
  <2>1. end - st \in Int
    BY <1>3, <1>10
  <2>2. len \in 0 .. Word - 1
    BY <2>1, <1>11, Wrapping
  <2>3. QED
    BY <2>2, <1>1
<1>13. st <= end => len = end - st
  <2> HIDE DEF st, end, len, size
  <2>1. SUFFICES ASSUME st <= end PROVE len = end - st
    OBVIOUS
  <2>2. end - st \in Int /\ 0 <= end - st /\ end - st < Word
    BY <2>1, <1>1, <1>3, <1>10
  <2>3. QED
    BY <2>2, <1>11, Wrapping
<1>14. end < st => TooLong(len)
  <2> HIDE DEF st, end, len, size
  <2>1. SUFFICES ASSUME end < st PROVE 2 * len >= Word
    BY DEF TooLong
  <2>2. end - st \in Int /\ end - st < 0 /\ 0 < (end - st) + Word
    BY <2>1, <1>1, <1>3, <1>4, <1>10
  <2>3. len = (end - st) + Word
    BY <2>2, <1>11, Wrapping
  <2>4. QED
    BY <2>3, <1>1, <1>3, <1>4, <1>10
<1>15. ~TooLong(len) => st + len = end /\ len <= d + over
  <2> HIDE DEF st, end, len, size, own, d, over
  <2>1. SUFFICES ASSUME ~TooLong(len) PROVE st + len = end /\ len <= d + over
    OBVIOUS
  <2>2. st <= end
    BY <2>1, <1>14, <1>3, <1>10
  <2>3. len = end - st
    BY <2>2, <1>13
  <2>4. QED
    BY <2>2, <2>3, <1>1, <1>3, <1>7, <1>10
<1>16. size + over < Word =>
          /\ end = AtMost(size, own + over) /\ own <= end /\ ~TooLong(len)
  <2> HIDE DEF st, end, len, size, own, d, over
  <2>1. SUFFICES ASSUME size + over < Word
                 PROVE  /\ end = AtMost(size, own + over)
                        /\ own <= end /\ ~TooLong(len)
    OBVIOUS
  <2>2. end = AtMost(size, own + over)
    BY <2>1, <1>8, <1>9
  <2>3. own <= end
    BY <2>2, <1>1, <1>7 DEF AtMost
  <2>4. len = end - st
    BY <2>3, <1>3, <1>7, <1>10, <1>13
  <2>5. 2 * len < Word
    BY <2>4, <1>1, <1>3, <1>10
  <2>6. QED
    BY <2>2, <2>3, <2>5, <1>1, <1>12 DEF TooLong
<1>17. QED
  BY <1>2, <1>3, <1>6, <1>7, <1>10, <1>12, <1>15, <1>16

\* Every byte of the source is owned by a block.
LEMMA OwnerExists ==
    ASSUME NEW p, Laid(p), NEW o \in 0 .. p.source_size - 1
    PROVE  \E b \in Blocks(p) : o \in Owned(p, b)
<1> DEFINE d == p.block_size
           b == o \div d
           m == p.block_count * d
<1>1. /\ d \in Nat \ {0} /\ p.block_count \in Nat
      /\ p.source_size \in Nat /\ o \in Nat
  BY DEF Laid, Plan
<1>2. b \in Nat /\ b * d <= o /\ o < b * d + d
  <2> HIDE DEF d
  <2>1. QED
    BY <1>1, Division
<1>3. m \in Nat /\ p.source_size <= m
  BY <1>1, Products, BlocksReachTheEnd
<1>4. b < p.block_count
  <2>1. ASSUME p.block_count <= b PROVE FALSE
    <3>1. m <= b * d /\ b * d \in Nat
      <4> HIDE DEF d, b
      <4>1. QED
        BY <2>1, <1>1, <1>2, Products DEF m
    <3>2. QED
      <4> DEFINE x == b * d
      <4>1. x \in Nat /\ m <= x /\ x <= o
        BY <3>1, <1>2
      <4> HIDE DEF x, m
      <4>2. QED
        BY <4>1, <1>1, <1>3
  <2>2. QED
    <3> HIDE DEF b
    <3>1. QED
      BY <2>1, <1>1, <1>2
<1>5. b \in Blocks(p)
  <2> HIDE DEF b
  <2>1. QED
    BY <1>1, <1>2, <1>4 DEF Blocks
<1>6. o \in Owned(p, b)
  <2> HIDE DEF b, d
  <2>1. Start(p, b) = b * d /\ b * d \in Nat
    BY <1>1, <1>2, Products DEF Start, d
  <2>2. OwnedEnd(p, b) = AtMost(p.source_size, b * d + d)
    BY <1>5, <2>1, BlockBounds DEF d
  <2>3. QED
    BY <2>1, <2>2, <1>1, <1>2 DEF Owned, AtMost
<1>7. QED
  BY <1>5, <1>6

\* What an earlier block owns lies before what a later one owns.
LEMMA OwnersOrdered ==
    ASSUME NEW p, Laid(p), NEW b \in Blocks(p), NEW c \in Blocks(p), b < c,
           NEW o \in Owned(p, b), NEW q \in Owned(p, c)
    PROVE  o < q
<1>1. p.block_size \in Nat \ {0} /\ b \in Nat /\ c \in Nat
  BY BlockBounds DEF Laid, Plan
<1>2. Start(p, b) + p.block_size <= Start(p, c)
  BY <1>1, Products DEF Start
<1>3. /\ Start(p, b) \in Nat /\ Start(p, c) \in Nat
      /\ OwnedEnd(p, b) \in Nat /\ OwnedEnd(p, c) \in Nat
      /\ p.source_size \in Nat
  BY BlockBounds DEF Laid, Plan
<1>4. OwnedEnd(p, b) <= Start(p, b) + p.block_size
  <2> DEFINE e == Start(p, b) + p.block_size
  <2>1. e \in Nat
    BY <1>1, <1>3
  <2>2. OwnedEnd(p, b) = AtMost(p.source_size, e)
    BY BlockBounds
  <2>3. QED
    BY <2>1, <2>2, <1>3 DEF AtMost
<1>5. QED
  BY <1>1, <1>2, <1>3, <1>4 DEF Owned

(***************************************************************************)
(* What the blocks find                                                    *)
(***************************************************************************)

\* The read of block b of a source of this plan.
BlockRead(p, src, b) == ReadAt(src, Start(p, b), ReadLen(p, b))

\* The buffer of a block holds the bytes of the source from its start on.
LEMMA BufferContents ==
    ASSUME NEW p, Laid(p), NEW src, src.bytes \in Seq(Byte),
           p.source_size = Len(src.bytes), NEW b \in Blocks(p),
           ~TooLong(ReadLen(p, b))
    PROVE  /\ BlockRead(p, src, b) \in Seq(Byte)
           /\ Len(BlockRead(p, src, b)) = ReadLen(p, b)
           /\ \A j \in 1..ReadLen(p, b) :
                  BlockRead(p, src, b)[j] = src.bytes[Start(p, b) + j]
<1> DEFINE st == Start(p, b)
           len == ReadLen(p, b)
<1>1. /\ st \in Nat /\ len \in Nat /\ st + len <= Len(src.bytes)
      /\ Len(src.bytes) \in Nat
  <2>1. /\ st \in Nat /\ ReadEnd(p, b) \in Nat /\ len \in Nat
        /\ ReadEnd(p, b) <= Len(src.bytes)
    BY BlockBounds
  <2>2. st + len = ReadEnd(p, b)
    BY BlockBounds
  <2>3. Len(src.bytes) \in Nat
    OBVIOUS
  <2>4. QED
    <3> HIDE DEF st, len
    <3>1. QED
      BY <2>1, <2>2, <2>3
<1>2. BlockRead(p, src, b) = SubSeq(src.bytes, st + 1, st + len)
  BY DEF BlockRead, ReadAt
<1>3. QED
  <2> HIDE DEF st, len
  <2>1. /\ SubSeq(src.bytes, st + 1, st + len) \in Seq(Byte)
        /\ Len(SubSeq(src.bytes, st + 1, st + len)) = len
        /\ \A j \in 1..len :
              SubSeq(src.bytes, st + 1, st + len)[j] = src.bytes[st + j]
    <3> DEFINE s == src.bytes
    <3>1. s \in Seq(Byte) /\ st + len <= Len(s)
      BY <1>1
    <3> HIDE DEF s
    <3>2. /\ SubSeq(s, st + 1, st + len) \in Seq(Byte)
          /\ Len(SubSeq(s, st + 1, st + len)) = len
          /\ \A j \in 1..len : SubSeq(s, st + 1, st + len)[j] = s[st + j]
      BY <3>1, <1>1, SMTT(30)
    <3>3. QED
      BY <3>2 DEF s
  <2>2. QED
    BY <2>1, <1>2 DEF st, len

\* A match found in the buffer is a match in the source: a block invents none.
\* With an overlap that covers the signature and whose read ends are u64, the
\* converse holds as well: a signature that starts in the owned region is in the
\* buffer to its end.
LEMMA MatchInBuffer ==
    ASSUME NEW p, Laid(p), NEW src, src.bytes \in Seq(Byte),
           p.source_size = Len(src.bytes), NEW b \in Blocks(p),
           NEW ps \in Seq(Seq(Byte)), NEW i \in DOMAIN ps,
           NEW o \in Owned(p, b), ~TooLong(ReadLen(p, b))
    PROVE  /\ MatchesAt(ps, BlockRead(p, src, b), o - Start(p, b), i)
                  => MatchesAt(ps, src.bytes, o, i)
           /\ p.source_size + p.overlap < Word /\ Len(ps[i]) - 1 <= p.overlap
                  /\ MatchesAt(ps, src.bytes, o, i)
                  => MatchesAt(ps, BlockRead(p, src, b), o - Start(p, b), i)
<1> DEFINE st == Start(p, b)
           len == ReadLen(p, b)
           L == Len(ps[i])
           buf == BlockRead(p, src, b)
<1>1. /\ st \in Nat /\ len \in Nat /\ L \in Nat /\ o \in Nat
      /\ Len(src.bytes) \in Nat /\ p.overlap \in Nat
      /\ st <= o /\ o <= OwnedEnd(p, b) - 1 /\ OwnedEnd(p, b) \in Nat
  <2>1. ps[i] \in Seq(Byte)
    OBVIOUS
  <2>2. /\ st \in Nat /\ len \in Nat /\ OwnedEnd(p, b) \in Nat
    BY BlockBounds
  <2>3. p.overlap \in Nat
    BY DEF Laid, Plan
  <2>4. QED
    BY <2>1, <2>2, <2>3 DEF Owned
<1>2. /\ st + len = ReadEnd(p, b) /\ ReadEnd(p, b) \in Nat
      /\ st + len <= Len(src.bytes)
  BY BlockBounds
<1>3. /\ Len(buf) = len
      /\ \A j \in 1..len : buf[j] = src.bytes[st + j]
  BY BufferContents
<1>4. ASSUME MatchesAt(ps, buf, o - st, i)
      PROVE  MatchesAt(ps, src.bytes, o, i)
  <2>1. /\ (o - st) + L <= len
        /\ \A k \in 1..L : buf[(o - st) + k] = ps[i][k]
    BY <1>4, <1>3 DEF MatchesAt
  <2>2. o + L <= Len(src.bytes)
    <3>1. o + L <= st + len
      <4>1. (o - st) + L <= len
        BY <2>1
      <4> HIDE DEF st, len, L
      <4>2. QED
        BY <4>1, <1>1
    <3>2. QED
      <4> HIDE DEF st, len, L
      <4>1. QED
        BY <3>1, <1>1, <1>2
  <2>3. ASSUME NEW k \in 1..L PROVE src.bytes[o + k] = ps[i][k]
    <3> HIDE DEF st, len, L, buf
    <3>1. (o - st) + k \in 1..len /\ st + ((o - st) + k) = o + k
      BY <2>1, <1>1
    <3>2. QED
      BY <3>1, <2>1, <1>3
  <2>4. QED
    BY <2>2, <2>3 DEF MatchesAt
<1>5. ASSUME p.source_size + p.overlap < Word, L - 1 <= p.overlap,
             MatchesAt(ps, src.bytes, o, i)
      PROVE  MatchesAt(ps, buf, o - st, i)
  <2>1. /\ o + L <= Len(src.bytes)
        /\ \A k \in 1..L : src.bytes[o + k] = ps[i][k]
    BY <1>5 DEF MatchesAt
  <2>2. o + L <= OwnedEnd(p, b) + p.overlap
    <3> HIDE DEF L
    <3>1. QED
      BY <1>1, <1>5, SMTT(30)
  <2>3. o + L <= ReadEnd(p, b)
    <3>1. ReadEnd(p, b) = AtMost(Len(src.bytes), OwnedEnd(p, b) + p.overlap)
      BY <1>5, BlockBounds
    <3>2. \/ ReadEnd(p, b) = OwnedEnd(p, b) + p.overlap
          \/ ReadEnd(p, b) = Len(src.bytes)
      BY <3>1 DEF AtMost
    <3>3. QED
      BY <3>2, <2>1, <2>2
  <2>4. (o - st) + L <= Len(buf)
    <3> HIDE DEF st, len, L, buf
    <3>1. QED
      BY <2>3, <1>1, <1>2, <1>3
  <2>5. ASSUME NEW k \in 1..L PROVE buf[(o - st) + k] = ps[i][k]
    <3> HIDE DEF st, len, L, buf
    <3>1. (o - st) + k \in 1..len /\ st + ((o - st) + k) = o + k
      BY <2>4, <1>1, <1>3
    <3>2. QED
      BY <3>1, <2>1, <1>3
  <2>6. QED
    BY <2>4, <2>5 DEF MatchesAt
<1>6. QED
  BY <1>4, <1>5

\* The hits that block b keeps of its read of the source.
BlockHits(p, src, b) == KeptHits(p, b, BlockRead(p, src, b))

\* The heart of the engine (engine.rs:233-235, 242-256).  Whatever the overlap, a
\* block that can be allocated keeps occurrences only, and every hit of an
\* earlier block precedes every hit of a later one, so none is kept twice and
\* appending the blocks in order keeps the hits sorted.  When the size of the
\* source plus the overlap is a u64, every block can be allocated, and the hits
\* kept by the blocks are all the occurrences if the overlap covers the longest
\* signature.
THEOREM BlocksPartitionTheOccurrences ==
    ASSUME NEW p, Laid(p), NEW src, src.bytes \in Seq(Byte),
           p.source_size = Len(src.bytes), patterns \in Seq(Seq(Byte))
    PROVE  /\ \A b \in Blocks(p) : ~TooLong(ReadLen(p, b)) =>
                  BlockHits(p, src, b) \subseteq Occurrences(patterns, src.bytes)
           /\ \A b, c \in Blocks(p) : b < c =>
                  \A g \in BlockHits(p, src, b), h \in BlockHits(p, src, c) :
                     HitBefore(g, h)
           /\ p.source_size + p.overlap < Word =>
                  \A b \in Blocks(p) : ~TooLong(ReadLen(p, b))
           /\ p.source_size + p.overlap < Word /\
              (\A i \in DOMAIN patterns : Len(patterns[i]) - 1 <= p.overlap) =>
                  Occurrences(patterns, src.bytes)
                     = UNION {BlockHits(p, src, b) : b \in Blocks(p)}
<1>0. ASSUME NEW b \in Blocks(p), NEW h \in BlockHits(p, src, b)
      PROVE  h \in Hits(patterns, Owned(p, b)) /\ h.offset \in Owned(p, b)
  BY DEF BlockHits, KeptHits, Hits
<1>1. ASSUME NEW b \in Blocks(p), ~TooLong(ReadLen(p, b)),
             NEW h \in BlockHits(p, src, b)
      PROVE  h \in Occurrences(patterns, src.bytes)
  <2>1. /\ h \in Hits(patterns, Owned(p, b))
        /\ MatchesAt(patterns, BlockRead(p, src, b), h.offset - Start(p, b),
                     h.pattern)
    BY DEF BlockHits, KeptHits
  <2>2. h.offset \in Owned(p, b) /\ h.pattern \in DOMAIN patterns
    BY <2>1 DEF Hits
  <2>3. MatchesAt(patterns, src.bytes, h.offset, h.pattern)
    BY <1>1, <2>1, <2>2, MatchInBuffer
  <2>4. h.offset \in 0 .. Len(src.bytes) - 1
    <3>1. /\ Start(p, b) \in Nat /\ OwnedEnd(p, b) \in Nat
          /\ OwnedEnd(p, b) <= Len(src.bytes) /\ Len(src.bytes) \in Nat
      BY BlockBounds
    <3>2. QED
      BY <3>1, <2>2 DEF Owned
  <2>5. h \in Hits(patterns, 0 .. Len(src.bytes) - 1)
    BY <2>1, <2>2, <2>4 DEF Hits
  <2>6. QED
    BY <2>2, <2>3, <2>5 DEF Occurrences
<1>2. ASSUME p.source_size + p.overlap < Word,
             \A i \in DOMAIN patterns : Len(patterns[i]) - 1 <= p.overlap,
             NEW h \in Occurrences(patterns, src.bytes)
      PROVE  \E b \in Blocks(p) : h \in BlockHits(p, src, b)
  <2>1. /\ h \in Hits(patterns, 0 .. Len(src.bytes) - 1)
        /\ MatchesAt(patterns, src.bytes, h.offset, h.pattern)
    BY DEF Occurrences
  <2>2. /\ h.offset \in 0 .. p.source_size - 1
        /\ h.pattern \in DOMAIN patterns
    BY <2>1 DEF Hits
  <2>3. PICK b \in Blocks(p) : h.offset \in Owned(p, b)
    BY <2>2, OwnerExists
  <2>4. MatchesAt(patterns, BlockRead(p, src, b), h.offset - Start(p, b),
                  h.pattern)
    <3>1. ~TooLong(ReadLen(p, b))
      BY <1>2, <2>3, BlockBounds
    <3>2. QED
      BY <1>2, <2>1, <2>2, <2>3, <3>1, MatchInBuffer
  <2>5. h \in Hits(patterns, Owned(p, b))
    BY <2>1, <2>2, <2>3 DEF Hits
  <2>6. QED
    BY <2>4, <2>5 DEF BlockHits, KeptHits
<1>3. ASSUME NEW b \in Blocks(p), NEW c \in Blocks(p), b < c,
             NEW g \in BlockHits(p, src, b), NEW h \in BlockHits(p, src, c)
      PROVE  HitBefore(g, h)
  BY <1>0, <1>3, OwnersOrdered DEF HitBefore
<1>4. p.source_size + p.overlap < Word =>
         \A b \in Blocks(p) : ~TooLong(ReadLen(p, b))
  BY BlockBounds
<1>5. QED
  BY <1>1, <1>2, <1>3, <1>4

(***************************************************************************)
(* The invariant of the worker pool                                        *)
(***************************************************************************)

\* The empty sequence, which the solvers know only as a tuple.
LEMMA EmptyTuple == DOMAIN <<>> = {} /\ <<>> \in Seq(Byte)
  OBVIOUS

\* Before anything is constructed the invariant holds.
LEMMA InitInvariant == Init => EngineInvariant
<1> SUFFICES ASSUME Init PROVE EngineInvariant
  OBVIOUS
<1>1. /\ phase = "new" /\ patterns = <<>> /\ perBlock = <<>> /\ failed = {}
      /\ outcome = Pending /\ Pending.kind # "hits"
  BY DEF Init, Pending
<1>2. panicked \in BOOLEAN /\ ~panicked
  BY DEF Init
<1>3. <<>> \in Seq(Seq(Byte))
  OBVIOUS
<1>4. QED
  BY <1>1, <1>2, <1>3 DEF EngineInvariant, TypeOK, Prepared, Working,
     SameAsSequential, EveryBlockRead

\* A configuration and a source that a scan starts from give a laid-out plan.
LEMMA ResolvedPlan ==
    ASSUME NEW c \in Configs, NEW src \in Sources,
           ~InvalidConfig(c), ~DividesByZero(c)
    PROVE  /\ Resolve(c, Len(src.bytes)) \in Plan
           /\ Laid(Resolve(c, Len(src.bytes)))
           /\ Resolve(c, Len(src.bytes)).source_size = Len(src.bytes)
<1>1. c \in Config /\ Len(src.bytes) \in Nat
  BY ConfigsAssumption, SourcesAssumption
<1>2. Resolve(c, Len(src.bytes)) \in Plan
  BY <1>1, ResolveType
<1>3. 2 * Len(src.bytes) < Word
  BY SourcesAssumption
<1>4. QED
  BY <1>2, <1>3 DEF Laid, Resolve

\* Scanner::new (engine.rs:162-180), whatever it returns, keeps the invariant.
LEMMA ConstructionStep ==
    ASSUME EngineInvariant, NEW c \in Configs, NEW ps \in PatternSets,
           NewWithoutPatterns(c) \/ NewRejected(ps, c) \/ NewPanics(ps, c)
              \/ AutomatonFails(ps, c) \/ New(ps, c)
    PROVE  EngineInvariant'
<1>1. /\ patterns' \in Seq(Seq(Byte)) /\ config' = c
      /\ UNCHANGED <<source, plan, pool, queue, perBlock, failed, panicked>>
      /\ phase = "new"
  BY PatternSetsAssumption DEF NewWithoutPatterns, NewRejected, NewPanics,
     AutomatonFails, New,
     Construct
<1>2. CASE NewWithoutPatterns(c) \/ NewRejected(ps, c) \/ NewPanics(ps, c)
          \/ AutomatonFails(ps, c)
  <2>1. phase' = "done" /\ outcome'.kind # "hits"
    <3>1. /\ Failure("no patterns").kind # "hits"
          /\ Failure("invalid config").kind # "hits"
          /\ Failure("panic").kind # "hits"
      BY DEF Failure
    <3>2. QED
      BY <3>1, <1>2 DEF NewWithoutPatterns, NewRejected, NewPanics,
     AutomatonFails, Refuse
  <2>2. QED
    BY <1>1, <2>1 DEF EngineInvariant, TypeOK, Prepared, Working,
       SameAsSequential, EveryBlockRead
<1>3. CASE New(ps, c)
  <2>1. /\ phase' = "built" /\ outcome' = Pending /\ Pending.kind # "hits"
        /\ ~InvalidConfig(c) /\ ~DividesByZero(c)
    BY <1>1, <1>3 DEF New, EngineInvariant, Prepared, Pending
  <2>2. perBlock' = <<>> /\ failed' = {}
    BY <1>1 DEF EngineInvariant, Prepared
  <2>3. QED
    BY <1>1, <2>1, <2>2 DEF EngineInvariant, TypeOK, Prepared, Working,
       SameAsSequential, EveryBlockRead
<1>4. QED
  BY <1>2, <1>3

\* A scan that is answered before any worker runs (engine.rs:194-215) keeps it.
LEMMA ImmediateAnswerStep ==
    ASSUME EngineInvariant, NEW src \in Sources,
           ScanEmpty(src) \/ PoolFails(src)
    PROVE  EngineInvariant'
<1>1. /\ phase = "built" /\ phase' = "done"
      /\ UNCHANGED <<patterns, config, pool, queue, perBlock, failed, panicked>>
  BY DEF ScanEmpty, PoolFails
<1>2. TypeOK' /\ Prepared' /\ Working'
  BY <1>1 DEF EngineInvariant, TypeOK, Prepared, Working
<1>3. CASE ScanEmpty(src)
  <2>1. /\ config \in Configs /\ ~InvalidConfig(config)
        /\ ~DividesByZero(config)
    BY <1>1 DEF EngineInvariant, TypeOK, Prepared
  <2>2. /\ outcome'.hits = <<>> /\ source' = src /\ Len(src.bytes) = 0
        /\ plan' = Resolve(config, Len(src.bytes))
    BY <1>3 DEF ScanEmpty, Answer
  <2>3. Laid(plan') /\ plan'.source_size = 0
    BY <2>1, <2>2, ResolvedPlan
  <2>4. plan'.block_count = 0
    <3>1. /\ plan'.block_count \in Nat /\ plan'.block_size \in Nat \ {0}
          /\ plan'.block_count * plan'.block_size <= plan'.block_size - 1
      BY <2>3, BlocksReachTheEnd DEF Laid, Plan
    <3> DEFINE n == plan'.block_count
               d == plan'.block_size
    <3>2. ASSUME n # 0 PROVE FALSE
      <4>1. n \in Nat /\ 1 <= n /\ d \in Nat \ {0} /\ n * d <= d - 1
        BY <3>1, <3>2
      <4> HIDE DEF n, d
      <4>2. 1 * d <= n * d /\ n * d \in Nat
        BY <4>1, Products
      <4>3. QED
        BY <4>1, <4>2
    <3>3. QED
      BY <3>2
  <2>5. FlattenSeq(<<>>) = <<>>
    <3>1. Len(<<>>) = 0
      OBVIOUS
    <3>2. QED
      BY <3>1 DEF FlattenSeq
  <2>6. SameAsSequential'
    <3> DEFINE found == [b \in Blocks(plan') |-> ScanBlock(b)']
    <3>1. [i \in 1..plan'.block_count |-> found[i - 1]] = <<>>
      <4> HIDE DEF found
      <4>1. QED
        BY <2>4
    <3>2. Merge(plan', found) = <<>>
      BY <3>1, <2>5 DEF Merge
    <3>3. QED
      BY <2>2, <3>2 DEF SameAsSequential
  <2>7. EveryBlockRead'
    BY <2>4 DEF EveryBlockRead, Blocks
  <2>8. QED
    BY <1>2, <2>6, <2>7 DEF EngineInvariant
<1>4. CASE PoolFails(src)
  <2>1. outcome'.kind # "hits"
    BY <1>4 DEF PoolFails, Failure
  <2>2. QED
    BY <1>2, <2>1 DEF EngineInvariant, SameAsSequential, EveryBlockRead
<1>5. QED
  BY <1>3, <1>4

\* Starting the scan of a source (engine.rs:194-224) keeps it.
LEMMA ScanStep ==
    ASSUME EngineInvariant, NEW src \in Sources, Scan(src)
    PROVE  EngineInvariant'
<1>1. /\ phase = "built" /\ phase' = "scanning" /\ source' = src
      /\ plan' = Resolve(config, Len(src.bytes))
      /\ pool' = [w \in 1..plan'.worker_threads |-> Idle]
      /\ queue' = Blocks(plan')
      /\ UNCHANGED <<patterns, config, perBlock, failed, panicked, outcome>>
  BY DEF Scan
<1>2. /\ config \in Configs /\ ~InvalidConfig(config)
      /\ ~DividesByZero(config) /\ perBlock = <<>> /\ failed = {}
      /\ outcome = Pending
  BY <1>1 DEF EngineInvariant, TypeOK, Prepared
<1>3. plan' \in Plan
  BY <1>1, <1>2, ResolvedPlan
<1>4. Idle \in Task /\ Idle.step = "idle"
  BY EmptyTuple DEF Idle, Task
<1>5. TypeOK'
  BY <1>1, <1>2, <1>3, <1>4, EmptyTuple DEF EngineInvariant, TypeOK
<1>6. Busy' = {}
  BY <1>1, <1>4 DEF Busy
<1>7. Prepared' /\ Working'
  BY <1>1, <1>2, <1>6, EmptyTuple DEF Prepared, Working
<1>8. SameAsSequential' /\ EveryBlockRead'
  BY <1>1, <1>2 DEF SameAsSequential, EveryBlockRead, Pending
<1>9. QED
  BY <1>5, <1>7, <1>8 DEF EngineInvariant

\* The plan of a running scan is laid out over its source.
LEMMA RunningPlan ==
    ASSUME EngineInvariant, phase = "scanning"
    PROVE  /\ Laid(plan) /\ plan.source_size = Len(source.bytes)
           /\ source \in Sources /\ config \in Configs
           /\ plan = Resolve(config, Len(source.bytes))
           /\ ~InvalidConfig(config) /\ ~DividesByZero(config)
  BY ResolvedPlan DEF EngineInvariant, TypeOK, Prepared, Working

\* A step that leaves the answer pending says nothing of what was read.
LEMMA PendingAnswer ==
    ASSUME EngineInvariant, phase = "scanning", outcome' = outcome
    PROVE  Prepared' => SameAsSequential' /\ EveryBlockRead'
<1>1. outcome' = Pending /\ Pending.kind # "hits"
  BY DEF EngineInvariant, Prepared, Pending
<1>2. QED
  BY <1>1 DEF SameAsSequential, EveryBlockRead

\* A worker taking a block and its buffer (engine.rs:236-248) keeps it.
LEMMA ClaimStep ==
    ASSUME EngineInvariant, NEW w \in DOMAIN pool, NEW b \in queue, Claim(w, b)
    PROVE  EngineInvariant'
<1> DEFINE task == [step |-> "allocated", block |-> b,
                    len |-> ReadLen(plan, b), buf |-> <<>>]
<1>1. /\ phase = "scanning" /\ queue' = queue \ {b}
      /\ pool[w].step = "idle" /\ ~TooLong(ReadLen(plan, b))
      /\ pool' = [pool EXCEPT ![w] = task]
      /\ UNCHANGED <<phase, patterns, config, source, plan, perBlock, failed,
                     panicked, outcome>>
  BY DEF Claim
<1>2. Laid(plan)
  BY <1>1, RunningPlan
<1>3. pool \in [1..plan.worker_threads -> Task] /\ b \in Blocks(plan)
  BY <1>1 DEF EngineInvariant, TypeOK
<1>4. task \in Task
  BY <1>2, <1>3, BlockBounds, EmptyTuple DEF Task
<1>5. TypeOK'
  BY <1>1, <1>3, <1>4 DEF EngineInvariant, TypeOK
<1>6. Busy' = Busy \cup {w}
  BY <1>1, <1>3 DEF Busy
<1>7. \A v \in Busy' : pool'[v] = IF v = w THEN task ELSE pool[v]
  BY <1>1, <1>3 DEF Busy
<1>8. Working'
  <2>1. \A v \in Busy' :
          /\ pool'[v].block \in Blocks(plan)
          /\ pool'[v].len = ReadLen(plan, pool'[v].block)
          /\ ~TooLong(pool'[v].len)
          /\ pool'[v].step = "filled" =>
                /\ pool'[v].buf = ReadAt(source, Start(plan, pool'[v].block),
                                         pool'[v].len)
                /\ ~Unreadable(source, Start(plan, pool'[v].block),
                               pool'[v].len)
    BY <1>1, <1>3, <1>6, <1>7 DEF EngineInvariant, Working
  <2>2. {pool'[v].block : v \in Busy'} = {pool[v].block : v \in Busy} \cup {b}
    <3>1. w \notin Busy
      BY <1>1 DEF Busy
    <3>2. QED
      BY <3>1, <1>6, <1>7
  <2>3. failed' = {} /\ ~panicked' =>
          Blocks(plan) \subseteq queue' \cup DOMAIN perBlock'
                                       \cup {pool'[v].block : v \in Busy'}
    BY <2>2, <1>1 DEF EngineInvariant, Working
  <2>4. QED
    BY <2>1, <2>3, <1>1 DEF EngineInvariant, Working, ScanBlock, KeptHits,
       BlockIsRead
<1>9. Prepared'
  BY <1>1 DEF EngineInvariant, Prepared
<1>10. QED
  BY <1>1, <1>5, <1>8, <1>9, PendingAnswer DEF EngineInvariant

\* A worker that panics over the length of a block (engine.rs:245-248) keeps it.
LEMMA ClaimPanicsStep ==
    ASSUME EngineInvariant, NEW w \in DOMAIN pool, NEW b \in queue,
           ClaimPanics(w, b)
    PROVE  EngineInvariant'
<1>1. /\ phase = "scanning" /\ queue' = queue \ {b} /\ panicked' = TRUE
      /\ UNCHANGED <<phase, patterns, config, source, plan, pool, perBlock,
                     failed, outcome>>
  BY DEF ClaimPanics
<1>2. TypeOK' /\ Prepared'
  BY <1>1 DEF EngineInvariant, TypeOK, Prepared
<1>3. Busy' = Busy
  BY <1>1 DEF Busy
<1>4. Working'
  BY <1>1, <1>3 DEF EngineInvariant, Working, ScanBlock, KeptHits, BlockIsRead
<1>5. QED
  BY <1>1, <1>2, <1>4, PendingAnswer DEF EngineInvariant

\* A read that fails (engine.rs:249) keeps it.
LEMMA ReadFailsStep ==
    ASSUME EngineInvariant, NEW w \in DOMAIN pool, ReadFails(w)
    PROVE  EngineInvariant'
<1>1. /\ phase = "scanning" /\ w \in Busy
      /\ failed' = IF failed = {} THEN {pool[w].block} ELSE failed
      /\ pool' = [pool EXCEPT ![w] = Idle]
      /\ UNCHANGED <<phase, patterns, config, source, plan, queue, perBlock,
                     panicked, outcome>>
  BY DEF ReadFails, Busy
<1>2. /\ pool \in [1..plan.worker_threads -> Task]
      /\ pool[w].block \in Blocks(plan)
  BY <1>1 DEF EngineInvariant, TypeOK, Working
<1>3. Idle \in Task /\ Idle.step = "idle"
  BY EmptyTuple DEF Idle, Task
<1>4. TypeOK'
  BY <1>1, <1>2, <1>3 DEF EngineInvariant, TypeOK
<1>5. Busy' = Busy \ {w} /\ \A v \in Busy' : pool'[v] = pool[v]
  BY <1>1, <1>2, <1>3 DEF Busy
<1>6. failed' # {}
  BY <1>1
<1>7. Working'
  BY <1>1, <1>5, <1>6 DEF EngineInvariant, Working, ScanBlock, KeptHits,
     BlockIsRead
<1>8. Prepared'
  BY <1>1 DEF EngineInvariant, Prepared
<1>9. QED
  BY <1>1, <1>4, <1>7, <1>8, PendingAnswer DEF EngineInvariant

\* A read that fills the buffer (engine.rs:249) keeps it.
LEMMA ReadStep ==
    ASSUME EngineInvariant, NEW w \in DOMAIN pool, Read(w)
    PROVE  EngineInvariant'
<1> DEFINE b == pool[w].block
           buf == ReadAt(source, Start(plan, b), pool[w].len)
<1>1. /\ phase = "scanning" /\ w \in Busy
      /\ ~Unreadable(source, Start(plan, b), pool[w].len)
      /\ pool' = [pool EXCEPT ![w].step = "filled", ![w].buf = buf]
      /\ UNCHANGED <<phase, patterns, config, source, plan, queue, perBlock,
                     failed, panicked, outcome>>
  BY DEF Read, Busy
<1>2. /\ pool \in [1..plan.worker_threads -> Task] /\ b \in Blocks(plan)
      /\ pool[w].len = ReadLen(plan, b) /\ ~TooLong(ReadLen(plan, b))
  BY <1>1 DEF EngineInvariant, TypeOK, Working
<1>3. buf \in Seq(Byte)
  <2>1. BlockRead(plan, source, b) \in Seq(Byte)
    BY <1>1, <1>2, RunningPlan, BufferContents, SourcesAssumption
  <2>2. QED
    BY <2>1, <1>2 DEF BlockRead
<1> HIDE DEF buf
<1>4. /\ pool'[w].step = "filled" /\ pool'[w].block = b
      /\ pool'[w].len = pool[w].len /\ pool'[w].buf = buf
      /\ pool' \in [1..plan.worker_threads -> Task]
      /\ \A v \in DOMAIN pool \ {w} : pool'[v] = pool[v]
  BY <1>1, <1>2, <1>3 DEF Task
<1>5. TypeOK'
  BY <1>1, <1>2, <1>4 DEF EngineInvariant, TypeOK
<1>6. Busy' = Busy
  BY <1>1, <1>2, <1>4 DEF Busy
<1>7. Working'
  <2>1. \A v \in Busy :
          /\ pool'[v].block = pool[v].block /\ pool'[v].len = pool[v].len
    BY <1>2, <1>4 DEF Busy
  <2>2. \A v \in Busy :
          /\ pool'[v].block \in Blocks(plan)
          /\ pool'[v].len = ReadLen(plan, pool'[v].block)
          /\ ~TooLong(pool'[v].len)
    BY <2>1, <1>1 DEF EngineInvariant, Working
  <2>3. ASSUME NEW v \in Busy, pool'[v].step = "filled"
        PROVE  /\ pool'[v].buf = ReadAt(source, Start(plan, pool'[v].block),
                                        pool'[v].len)
               /\ ~Unreadable(source, Start(plan, pool'[v].block),
                              pool'[v].len)
    <3>1. CASE v = w
      BY <3>1, <1>1, <1>4 DEF buf
    <3>2. CASE v # w
      <4>1. pool'[v] = pool[v]
        BY <3>2, <1>4 DEF Busy
      <4>2. QED
        BY <4>1, <2>3, <1>1 DEF EngineInvariant, Working
    <3>3. QED
      BY <3>1, <3>2
  <2>4. {pool'[v].block : v \in Busy} = {pool[v].block : v \in Busy}
    BY <2>1
  <2>5. \A c \in DOMAIN perBlock :
          /\ perBlock[c] = ScanBlock(c)' /\ BlockIsRead(c)'
    BY <1>1 DEF EngineInvariant, Working, ScanBlock, KeptHits, BlockIsRead
  <2>6. failed = {} /\ ~panicked =>
          Blocks(plan) \subseteq queue \cup DOMAIN perBlock
                                       \cup {pool'[v].block : v \in Busy}
    BY <2>4, <1>1 DEF EngineInvariant, Working
  <2>7. plan' = Resolve(config', Len(source'.bytes))
    BY <1>1 DEF EngineInvariant, Working
  <2>8. QED
    BY <2>2, <2>3, <2>5, <2>6, <2>7, <1>1, <1>6 DEF Working
<1>8. Prepared'
  BY <1>1 DEF EngineInvariant, Prepared
<1>9. QED
  BY <1>1, <1>5, <1>7, <1>8, PendingAnswer DEF EngineInvariant

\* Searching a buffer and keeping its hits (engine.rs:251-267) keeps it.
LEMMA SearchStep ==
    ASSUME EngineInvariant, NEW w \in DOMAIN pool, Search(w)
    PROVE  EngineInvariant'
<1> DEFINE b == pool[w].block
           hits == InOrder(KeptHits(plan, b, pool[w].buf))
<1>1. /\ phase = "scanning" /\ w \in Busy /\ pool[w].step = "filled"
      /\ perBlock' = [c \in DOMAIN perBlock \cup {b} |->
                         IF c = b THEN hits ELSE perBlock[c]]
      /\ pool' = [pool EXCEPT ![w] = Idle]
      /\ UNCHANGED <<phase, patterns, config, source, plan, queue, failed,
                     panicked, outcome>>
  BY DEF Search, Busy
<1>2. /\ pool \in [1..plan.worker_threads -> Task] /\ b \in Blocks(plan)
      /\ pool[w].len = ReadLen(plan, b)
      /\ pool[w].buf = ReadAt(source, Start(plan, b), pool[w].len)
      /\ ~TooLong(pool[w].len)
      /\ ~Unreadable(source, Start(plan, b), pool[w].len)
  BY <1>1 DEF EngineInvariant, TypeOK, Working
<1>3. hits = ScanBlock(b) /\ BlockIsRead(b)
  BY <1>2 DEF ScanBlock, BlockIsRead
<1> HIDE DEF hits
<1>4. Idle \in Task /\ Idle.step = "idle"
  BY EmptyTuple DEF Idle, Task
<1>5. TypeOK'
  BY <1>1, <1>2, <1>4 DEF EngineInvariant, TypeOK
<1>6. Busy' = Busy \ {w} /\ \A v \in Busy' : pool'[v] = pool[v]
  BY <1>1, <1>2, <1>4 DEF Busy
<1>7. DOMAIN perBlock' = DOMAIN perBlock \cup {b}
  BY <1>1
<1>8. \A c \in DOMAIN perBlock' :
        /\ perBlock'[c] = ScanBlock(c) /\ BlockIsRead(c)
  BY <1>1, <1>3 DEF EngineInvariant, Working
<1>9. {pool[v].block : v \in Busy}
        \subseteq {pool'[v].block : v \in Busy'} \cup {b}
  BY <1>6
<1>10. Working'
  <2>1. \A c \in Blocks(plan) :
          ScanBlock(c)' = ScanBlock(c) /\ (BlockIsRead(c) => BlockIsRead(c)')
    BY <1>1 DEF ScanBlock, KeptHits, BlockIsRead
  <2>2. DOMAIN perBlock' \subseteq Blocks(plan)
    BY <1>1, <1>2, <1>7 DEF EngineInvariant, TypeOK
  <2>3. \A c \in DOMAIN perBlock' :
          /\ perBlock'[c] = ScanBlock(c)' /\ BlockIsRead(c)'
    BY <2>1, <2>2, <1>1, <1>8
  <2>4. failed' = {} /\ ~panicked' =>
          Blocks(plan) \subseteq queue' \cup DOMAIN perBlock'
                                       \cup {pool'[v].block : v \in Busy'}
    BY <1>1, <1>7, <1>9 DEF EngineInvariant, Working
  <2>5. \A v \in Busy' : v \in Busy
    BY <1>6
  <2>6. QED
    BY <2>3, <2>4, <2>5, <1>1, <1>6 DEF EngineInvariant, Working
<1>11. Prepared'
  BY <1>1 DEF EngineInvariant, Prepared
<1>12. QED
  BY <1>1, <1>5, <1>10, <1>11, PendingAnswer DEF EngineInvariant

\* Merging the blocks' hits, or returning the error (engine.rs:219-231), keeps it.
LEMMA FinishStep ==
    ASSUME EngineInvariant, Finish
    PROVE  EngineInvariant'
<1>1. /\ phase = "scanning" /\ Busy = {}
      /\ (queue = {} \/ failed # {} \/ panicked)
      /\ phase' = "done"
      /\ outcome' = IF panicked THEN Failure("panic")
                    ELSE IF failed # {} THEN Failure("source error")
                                        ELSE Answer(Merge(plan, perBlock))
      /\ UNCHANGED <<patterns, config, source, plan, pool, queue, perBlock,
                     failed, panicked>>
  BY DEF Finish, Collected, Busy
<1>2. TypeOK' /\ Prepared' /\ Working'
  BY <1>1 DEF EngineInvariant, TypeOK, Prepared, Working
<1>3. Laid(plan) /\ plan.source_size = Len(source.bytes)
  BY <1>1, RunningPlan
<1>4. CASE failed # {} \/ panicked
  <2>1. outcome'.kind # "hits"
    BY <1>1, <1>4 DEF Failure
  <2>2. QED
    BY <1>2, <2>1 DEF EngineInvariant, SameAsSequential, EveryBlockRead
<1>5. CASE failed = {} /\ ~panicked
  <2>1. DOMAIN perBlock = Blocks(plan)
    BY <1>1, <1>5 DEF EngineInvariant, TypeOK, Working
  <2>2. outcome'.hits = Merge(plan, perBlock)
    BY <1>1, <1>5 DEF Answer
  <2> DEFINE all == [b \in Blocks(plan) |-> ScanBlock(b)]
  <2>3. plan.block_count \in Nat
    BY <1>3 DEF Laid, Plan
  <2>4. \A i \in 1..plan.block_count : perBlock[i - 1] = all[i - 1]
    <3>1. \A b \in Blocks(plan) : perBlock[b] = all[b]
      BY <2>1, <1>1 DEF EngineInvariant, Working
    <3>2. \A i \in 1..plan.block_count : i - 1 \in Blocks(plan)
      BY <2>3 DEF Blocks
    <3> HIDE DEF all
    <3>3. QED
      BY <3>1, <3>2
  <2>5. Merge(plan, perBlock) = Merge(plan, all)
    <3> HIDE DEF all
    <3>1. [i \in 1..plan.block_count |-> perBlock[i - 1]]
             = [i \in 1..plan.block_count |-> all[i - 1]]
      BY <2>4
    <3>2. QED
      BY <3>1 DEF Merge
  <2>6. all' = all
    BY <1>1 DEF ScanBlock, KeptHits
  <2>7. SameAsSequential'
    <3>1. Merge(plan', all') = Merge(plan, all)
      <4> HIDE DEF all
      <4>1. QED
        BY <2>6, <1>1
    <3>2. QED
      BY <3>1, <2>2, <2>5 DEF SameAsSequential
  <2>8. EveryBlockRead'
    <3>1. \A b \in Blocks(plan) : BlockIsRead(b)
      BY <2>1, <1>1 DEF EngineInvariant, Working
    <3>2. QED
      BY <3>1, <1>1 DEF EveryBlockRead, BlockIsRead
  <2>9. QED
    BY <1>2, <2>7, <2>8 DEF EngineInvariant
<1>6. QED
  BY <1>4, <1>5

\* A step that changes nothing of the engine keeps it.
LEMMA StutterStep ==
    ASSUME EngineInvariant, UNCHANGED vars
    PROVE  EngineInvariant'
<1>1. UNCHANGED <<phase, patterns, config, source, plan, pool, queue, perBlock,
                  failed, panicked, outcome>>
  BY DEF vars
<1>2. Busy' = Busy
  BY <1>1 DEF Busy
<1>3. QED
  BY <1>1, <1>2 DEF EngineInvariant, TypeOK, Prepared, Working,
     SameAsSequential, EveryBlockRead, BlockIsRead, ScanBlock, KeptHits

\* The invariant is inductive: one case per action.
LEMMA NextInvariant == EngineInvariant /\ [Next]_vars => EngineInvariant'
<1> SUFFICES ASSUME EngineInvariant, [Next]_vars PROVE EngineInvariant'
  OBVIOUS
<1>1. CASE Caller
  <2>1. ASSUME NEW c \in Configs, NewWithoutPatterns(c) PROVE EngineInvariant'
    <3>1. <<>> \in PatternSets
      BY <2>1 DEF NewWithoutPatterns
    <3>2. QED
      BY <2>1, <3>1, ConstructionStep
  <2>2. QED
    BY <1>1, <2>1, ConstructionStep, ImmediateAnswerStep, ScanStep DEF Caller
<1>2. CASE Worker
  BY <1>2, ClaimStep, ClaimPanicsStep, ReadFailsStep, ReadStep, SearchStep
     DEF Worker
<1>3. CASE Finish
  BY <1>3, FinishStep
<1>4. CASE Done \/ UNCHANGED vars
  BY <1>4, StutterStep DEF Done
<1>5. QED
  BY <1>1, <1>2, <1>3, <1>4 DEF Next

\* The inductive invariant holds in every state of the engine.
LEMMA InvariantHolds == Spec => []EngineInvariant
  BY InitInvariant, NextInvariant, PTL DEF Spec

(***************************************************************************)
(* What an answer rests on                                                 *)
(***************************************************************************)

\* There is a source once a scan was asked for, and hits are the answer to a
\* scan of it, laid out by the plan of its configuration.
Grounded ==
    /\ phase # "new" => patterns \in PatternSets
    /\ phase \in {"new", "built"} => source = Nothing
    /\ outcome.kind = "hits" =>
          /\ phase = "done" /\ source \in Sources /\ config \in Configs
          /\ ~InvalidConfig(config) /\ ~DividesByZero(config)
          /\ plan = Resolve(config, Len(source.bytes))

\* Building a scanner grounds nothing and answers without hits.
LEMMA ConstructionGrounded ==
    ASSUME Grounded, EngineInvariant, NEW c \in Configs, NEW ps \in PatternSets,
           NewWithoutPatterns(c) \/ NewRejected(ps, c) \/ NewPanics(ps, c)
              \/ AutomatonFails(ps, c) \/ New(ps, c)
    PROVE  Grounded'
<1>1. patterns' \in PatternSets /\ source' = Nothing
  BY DEF NewWithoutPatterns, NewRejected, NewPanics,
     AutomatonFails, New, Construct, Grounded
<1>2. outcome'.kind # "hits"
  <2>1. /\ Failure("no patterns").kind # "hits"
        /\ Failure("invalid config").kind # "hits"
        /\ Failure("panic").kind # "hits"
    BY DEF Failure
  <2>2. outcome.kind # "hits"
    <3>1. phase = "new"
      BY DEF NewWithoutPatterns, NewRejected, NewPanics,
     AutomatonFails, New, Construct
    <3>2. outcome = Pending
      BY <3>1 DEF EngineInvariant, Prepared
    <3>3. QED
      BY <3>2 DEF Pending
  <2>3. QED
    BY <2>1, <2>2 DEF NewWithoutPatterns, NewRejected, NewPanics,
     AutomatonFails, New, Refuse
<1>3. QED
  BY <1>1, <1>2 DEF Grounded

\* A scan is asked for, answered at once or not.
LEMMA AskingGrounded ==
    ASSUME Grounded, EngineInvariant, NEW src \in Sources,
           ScanEmpty(src) \/ PoolFails(src) \/ Scan(src)
    PROVE  Grounded'
<1>1. /\ phase = "built" /\ phase' \in {"scanning", "done"} /\ source' = src
      /\ patterns' = patterns /\ config' = config
  BY DEF ScanEmpty, PoolFails, Scan
<1>2. /\ patterns \in PatternSets /\ config \in Configs
      /\ ~InvalidConfig(config) /\ ~DividesByZero(config) /\ outcome = Pending
  BY <1>1 DEF Grounded, EngineInvariant, TypeOK, Prepared
<1>3. CASE ScanEmpty(src)
  <2>1. phase' = "done" /\ plan' = Resolve(config, Len(src.bytes))
    BY <1>3 DEF ScanEmpty
  <2>2. QED
    BY <2>1, <1>1, <1>2 DEF Grounded
<1>4. CASE PoolFails(src) \/ Scan(src)
  <2>1. outcome'.kind # "hits"
    <3>1. Failure("thread pool").kind # "hits" /\ Pending.kind # "hits"
      BY DEF Failure, Pending
    <3>2. QED
      BY <3>1, <1>2, <1>4 DEF PoolFails, Scan
  <2>2. QED
    BY <2>1, <1>1, <1>2 DEF Grounded
<1>5. QED
  BY <1>3, <1>4

\* The workers answer nothing; the end of their work does.
LEMMA WorkGrounded ==
    ASSUME Grounded, EngineInvariant, Worker \/ Finish
    PROVE  Grounded'
<1>1. /\ phase = "scanning" /\ UNCHANGED <<patterns, config, source, plan>>
      /\ phase' \in {"scanning", "done"}
  BY DEF Worker, Claim, ClaimPanics, ReadFails, Read, Search, Finish, Collected
<1>2. /\ patterns \in PatternSets /\ config \in Configs /\ source \in Sources
      /\ ~InvalidConfig(config) /\ ~DividesByZero(config)
      /\ plan = Resolve(config, Len(source.bytes)) /\ outcome.kind # "hits"
  BY <1>1, RunningPlan DEF Grounded, EngineInvariant, Prepared, Pending
<1>3. phase' = "done" \/ outcome' = outcome
  BY DEF Worker, Claim, ClaimPanics, ReadFails, Read, Search, Finish
<1>4. QED
  BY <1>1, <1>2, <1>3 DEF Grounded

\* A step keeps an answer grounded.
LEMMA GroundedStep == Grounded /\ EngineInvariant /\ [Next]_vars => Grounded'
<1> SUFFICES ASSUME Grounded, EngineInvariant, [Next]_vars PROVE Grounded'
  OBVIOUS
<1>1. CASE Caller
  <2>1. ASSUME NEW c \in Configs, NewWithoutPatterns(c) PROVE Grounded'
    <3>1. <<>> \in PatternSets
      BY <2>1 DEF NewWithoutPatterns
    <3>2. QED
      BY <2>1, <3>1, ConstructionGrounded
  <2>2. QED
    BY <1>1, <2>1, ConstructionGrounded, AskingGrounded DEF Caller
<1>2. CASE Worker \/ Finish
  BY <1>2, WorkGrounded
<1>3. CASE Done \/ UNCHANGED vars
  BY <1>3 DEF Done, vars, Grounded
<1>4. QED
  BY <1>1, <1>2, <1>3 DEF Next

\* An answer is grounded in every state.
LEMMA AlwaysGrounded == Spec => []Grounded
<1>1. Init => Grounded
  BY DEF Init, Grounded, Pending
<1>2. QED
  BY <1>1, GroundedStep, InvariantHolds, PTL DEF Spec

\* The hits that all the blocks of a plan keep.
AllHits(p, src) == UNION {BlockHits(p, src, b) : b \in Blocks(p)}

\* The occurrences in a source are finitely many.
LEMMA OccurrencesFinite ==
    ASSUME NEW ps \in Seq(Seq(Byte)), NEW bytes \in Seq(Byte)
    PROVE  /\ Occurrences(ps, bytes) \subseteq AnyHit
           /\ IsFiniteSet(Occurrences(ps, bytes))
<1> DEFINE all == Hits(ps, 0 .. Len(bytes) - 1)
           pairs == (0 .. Len(bytes) - 1) \X (1 .. Len(ps))
           f == [h \in all |-> <<h.offset, h.pattern>>]
<1>1. Len(bytes) \in Nat /\ Len(ps) \in Nat /\ DOMAIN ps = 1..Len(ps)
  OBVIOUS
<1>2. IsFiniteSet(pairs)
  <2>1. /\ 0 \in Int /\ 1 \in Int /\ Len(bytes) - 1 \in Int /\ Len(ps) \in Int
    BY <1>1
  <2>2. IsFiniteSet(0 .. Len(bytes) - 1) /\ IsFiniteSet(1 .. Len(ps))
    BY <2>1, FS_Interval
  <2>3. QED
    BY <2>2, FS_Product
<1>3. f \in Injection(all, pairs)
  <2>1. f \in [all -> pairs]
    BY <1>1 DEF Hits
  <2>2. ASSUME NEW g \in all, NEW h \in all, f[g] = f[h] PROVE g = h
    <3>1. g.offset = h.offset /\ g.pattern = h.pattern
      BY <2>2
    <3>2. QED
      BY <3>1 DEF Hits
  <2>3. QED
    BY <2>1, <2>2 DEF Injection, IsInjective
<1>4. IsFiniteSet(all)
  <2> HIDE DEF all, pairs, f
  <2>1. QED
    BY <1>2, <1>3, FS_Injection
<1>5. Occurrences(ps, bytes) \subseteq all
  BY DEF Occurrences
<1>6. all \subseteq AnyHit
  BY <1>1 DEF Hits, AnyHit
<1>7. IsFiniteSet(Occurrences(ps, bytes))
  <2> HIDE DEF all
  <2>1. QED
    BY <1>4, <1>5, FS_Subset
<1>8. QED
  BY <1>5, <1>6, <1>7

\* The hits of the blocks, merged in the order of the blocks, list the hits that
\* any block keeps, each once and in order (engine.rs:226-231).
LEMMA MergeSorts ==
    ASSUME NEW p, Laid(p), NEW src, src.bytes \in Seq(Byte),
           p.source_size = Len(src.bytes), patterns \in Seq(Seq(Byte)),
           \A b \in Blocks(p) : ~TooLong(ReadLen(p, b))
    PROVE  Sorts(Merge(p, [b \in Blocks(p) |-> InOrder(BlockHits(p, src, b))]),
                 AllHits(p, src))
<1> DEFINE n == p.block_count
           found == [b \in Blocks(p) |-> InOrder(BlockHits(p, src, b))]
           kept == [i \in 1..n |-> BlockHits(p, src, i - 1)]
           lists == [i \in 1..n |-> found[i - 1]]
           all == Occurrences(patterns, src.bytes)
<1>1. n \in Nat /\ \A i \in 1..n : i - 1 \in Blocks(p)
  BY DEF Laid, Plan, Blocks
<1>2. all \subseteq AnyHit /\ IsFiniteSet(all)
  BY OccurrencesFinite
<1>3. /\ \A b \in Blocks(p) : BlockHits(p, src, b) \subseteq all
      /\ \A b, c \in Blocks(p) : b < c =>
            \A g \in BlockHits(p, src, b), h \in BlockHits(p, src, c) :
               HitBefore(g, h)
  BY BlocksPartitionTheOccurrences
<1>4. ASSUME NEW b \in Blocks(p)
      PROVE  Sorts(InOrder(BlockHits(p, src, b)), BlockHits(p, src, b))
  <2> DEFINE S == BlockHits(p, src, b)
  <2>1. S \subseteq all /\ S \subseteq AnyHit
    BY <1>2, <1>3
  <2> HIDE DEF S, all
  <2>2. IsFiniteSet(S)
    BY <2>1, <1>2, FS_Subset
  <2>3. Sorts(InOrder(S), S)
    BY <2>1, <2>2, InOrderSorts
  <2>4. QED
    BY <2>3 DEF S
<1>5. \A k \in 1..n : lists[k] = InOrder(BlockHits(p, src, k - 1))
  BY <1>1
<1>6. \A k \in 1..n : kept[k] = BlockHits(p, src, k - 1)
  OBVIOUS
<1>7. \A k \in 1..n : Sorts(lists[k], kept[k])
  <2> HIDE DEF lists, kept
  <2>1. QED
    BY <1>1, <1>4, <1>5, <1>6
<1>8. \A k, m \in 1..n : k < m =>
         \A g \in kept[k], h \in kept[m] : HitBefore(g, h)
  <2> SUFFICES ASSUME NEW k \in 1..n, NEW m \in 1..n, k < m
               PROVE  \A g \in kept[k], h \in kept[m] : HitBefore(g, h)
    OBVIOUS
  <2>1. k - 1 < m - 1
    BY <1>1
  <2> HIDE DEF kept
  <2>2. QED
    BY <2>1, <1>1, <1>3, <1>6
<1>9. \A k \in 1..n : lists[k] \in Seq(AnyHit)
  <2>1. \A k \in 1..n : kept[k] \subseteq AnyHit
    <3> HIDE DEF kept, all
    <3>1. QED
      BY <1>1, <1>2, <1>3, <1>6
  <2> HIDE DEF lists, kept
  <2>2. ASSUME NEW k \in 1..n PROVE lists[k] \in Seq(AnyHit)
    <3>1. lists[k] \in Seq(kept[k]) /\ kept[k] \subseteq AnyHit
      BY <1>7, <2>1 DEF Sorts
    <3>2. QED
      BY <3>1
  <2>3. QED
    BY <2>2
<1>10. lists \in Seq(Seq(AnyHit)) /\ Len(lists) = n
  <2>1. lists \in [1..n -> Seq(AnyHit)]
    <3>1. lists = [i \in 1..n |-> lists[i]]
      OBVIOUS
    <3> HIDE DEF lists
    <3>2. QED
      BY <3>1, <1>9
  <2> HIDE DEF lists, n
  <2>2. QED
    BY <2>1, <1>1, FunctionIsSequence
<1>11. Sorts(FlattenSeq(lists), UNION {kept[k] : k \in 1..n})
  <2> HIDE DEF lists, kept, n
  <2>1. QED
    BY <1>1, <1>7, <1>8, <1>10, FlattenSorts
<1>12. UNION {kept[k] : k \in 1..n} = AllHits(p, src)
  <2>1. \A b \in Blocks(p) : b + 1 \in 1..n /\ (b + 1) - 1 = b
    BY <1>1 DEF Blocks
  <2> HIDE DEF kept
  <2>2. ASSUME NEW h PROVE h \in UNION {kept[k] : k \in 1..n} <=> h \in AllHits(p, src)
    <3>1. ASSUME NEW k \in 1..n, h \in kept[k] PROVE h \in AllHits(p, src)
      BY <3>1, <1>1, <1>6 DEF AllHits
    <3>2. ASSUME NEW b \in Blocks(p), h \in BlockHits(p, src, b)
          PROVE  h \in UNION {kept[k] : k \in 1..n}
      <4>1. kept[b + 1] = BlockHits(p, src, b)
        BY <2>1, <1>6
      <4>2. QED
        BY <4>1, <2>1, <3>2
    <3>3. QED
      BY <3>1, <3>2 DEF AllHits
  <2>3. QED
    BY <2>2
<1>13. QED
  BY <1>11, <1>12 DEF Merge

\* The answer of a scan lists what its blocks keep: occurrences only, and all of
\* them if the overlap covers the longest signature and its read ends are u64.
Listed ==
    outcome.kind = "hits" =>
        /\ Sorts(outcome.hits, AllHits(plan, source))
        /\ AllHits(plan, source) \subseteq Occurrences(patterns, source.bytes)
        /\ Occurrences(patterns, source.bytes) \subseteq AnyHit
        /\ OverlapCovers(patterns, config) /\ OverlapFits(source, config) =>
              AllHits(plan, source) = Occurrences(patterns, source.bytes)

\* Whatever is answered is so.
LEMMA AnswerListed == EngineInvariant /\ Grounded => Listed
<1> SUFFICES ASSUME EngineInvariant, Grounded, outcome.kind = "hits"
             PROVE  /\ Sorts(outcome.hits, AllHits(plan, source))
                    /\ AllHits(plan, source)
                          \subseteq Occurrences(patterns, source.bytes)
                    /\ Occurrences(patterns, source.bytes) \subseteq AnyHit
                    /\ OverlapCovers(patterns, config)
                       /\ OverlapFits(source, config) =>
                         AllHits(plan, source) = Occurrences(patterns, source.bytes)
  BY DEF Listed
<1>1. /\ source \in Sources /\ config \in Configs
      /\ plan = Resolve(config, Len(source.bytes))
      /\ ~InvalidConfig(config) /\ ~DividesByZero(config)
  BY DEF Grounded
<1>2. Laid(plan) /\ plan.source_size = Len(source.bytes)
  BY <1>1, ResolvedPlan
<1>3. source.bytes \in Seq(Byte) /\ patterns \in Seq(Seq(Byte))
  BY <1>1, SourcesAssumption DEF EngineInvariant, TypeOK
<1>4. plan.overlap = config.overlap
  BY <1>1 DEF Resolve
<1>a. \A b \in Blocks(plan) : ~TooLong(ReadLen(plan, b))
  BY DEF EngineInvariant, EveryBlockRead, BlockIsRead
<1>5. Sorts(outcome.hits, AllHits(plan, source))
  <2>1. \A b \in Blocks(plan) : ScanBlock(b) = InOrder(BlockHits(plan, source, b))
    BY DEF ScanBlock, BlockHits, BlockRead
  <2>2. outcome.hits = Merge(plan, [b \in Blocks(plan) |->
                                      InOrder(BlockHits(plan, source, b))])
    <3>1. outcome.hits = Merge(plan, [b \in Blocks(plan) |-> ScanBlock(b)])
      BY DEF EngineInvariant, SameAsSequential
    <3>2. [b \in Blocks(plan) |-> ScanBlock(b)]
             = [b \in Blocks(plan) |-> InOrder(BlockHits(plan, source, b))]
      BY <2>1
    <3>3. QED
      BY <3>1, <3>2
  <2>3. QED
    BY <2>2, <1>2, <1>3, <1>a, MergeSorts
<1>6. QED
  <2>1. Occurrences(patterns, source.bytes) \subseteq AnyHit
    BY <1>3, OccurrencesFinite
  <2>2. /\ \A b \in Blocks(plan) : BlockHits(plan, source, b)
                                        \subseteq Occurrences(patterns, source.bytes)
        /\ OverlapCovers(patterns, config) /\ OverlapFits(source, config) =>
              Occurrences(patterns, source.bytes) = AllHits(plan, source)
    BY <1>2, <1>3, <1>4, <1>a, BlocksPartitionTheOccurrences
       DEF OverlapCovers, OverlapFits, AllHits
  <2>3. QED
    BY <1>5, <2>1, <2>2 DEF AllHits

\* What the blocks read is the whole source, if their read ends are u64.
LEMMA ReadMeansReadable == EngineInvariant /\ Grounded => NoSilentLoss
<1> SUFFICES ASSUME EngineInvariant, Grounded, outcome.kind = "hits",
                    OverlapFits(source, config),
                    NEW o \in 0 .. Len(source.bytes) - 1
             PROVE  o \notin source.bad
  BY DEF NoSilentLoss
<1>1. /\ source \in Sources /\ config \in Configs
      /\ plan = Resolve(config, Len(source.bytes))
      /\ ~InvalidConfig(config) /\ ~DividesByZero(config)
  BY DEF Grounded
<1>2. Laid(plan) /\ plan.source_size = Len(source.bytes)
  BY <1>1, ResolvedPlan
<1>3. plan.source_size + plan.overlap < Word
  BY <1>1, <1>2 DEF OverlapFits, Resolve
<1>4. PICK b \in Blocks(plan) : o \in Owned(plan, b)
  BY <1>2, OwnerExists
<1>5. /\ ~Unreadable(source, Start(plan, b), ReadLen(plan, b))
      /\ ~TooLong(ReadLen(plan, b))
  BY <1>4 DEF EngineInvariant, EveryBlockRead, BlockIsRead
<1>6. o \in Start(plan, b) .. Start(plan, b) + ReadLen(plan, b) - 1
  <2>1. /\ Start(plan, b) \in Nat /\ OwnedEnd(plan, b) \in Nat
        /\ ReadEnd(plan, b) \in Nat /\ OwnedEnd(plan, b) <= ReadEnd(plan, b)
        /\ Start(plan, b) + ReadLen(plan, b) = ReadEnd(plan, b)
        /\ ReadLen(plan, b) \in Nat
    BY <1>2, <1>3, <1>5, BlockBounds
  <2>2. o \in Nat /\ Start(plan, b) <= o /\ o < OwnedEnd(plan, b)
    BY <2>1, <1>4 DEF Owned
  <2>3. QED
    BY <2>1, <2>2
<1>7. QED
  BY <1>5, <1>6 DEF Unreadable

\* The same of the state after a step.
LEMMA AnswerListedNext == EngineInvariant' /\ Grounded' => Listed'
  BY AnswerListed, PTL

(***************************************************************************)
(* The contract of a scan                                                  *)
(***************************************************************************)

\* What the caller of the one-shot contract sees of a step of the engine.
ContractStep ==
    [Contract!Next]_<<AbstractRequest, AbstractAnswer>>

\* The contract's occurrences and order of hits are the engine's.
LEMMA SameSignatures ==
    /\ \A ps, bytes : Contract!Occurrences(ps, bytes) = Occurrences(ps, bytes)
    /\ \A S : Contract!InOrder(S) = InOrder(S)
<1>1. \A ps, bytes : Contract!Occurrences(ps, bytes) = Occurrences(ps, bytes)
  BY DEF Contract!Occurrences, Contract!Hits, Contract!MatchesAt, Occurrences,
     Hits, MatchesAt
<1>2. \A S : Contract!InOrder(S) = InOrder(S)
  BY DEF Contract!InOrder, Contract!HitBefore, Contract!Cardinality,
     Contract!IsFiniteSet, InOrder, HitBefore, Cardinality, IsFiniteSet
<1>3. QED
  BY <1>1, <1>2

\* A request that the engine can be asked is one of the contract.
LEMMA RequestAllowed ==
    ASSUME NEW ps \in PatternSets, NEW src \in Sources, NEW c
    PROVE  RequestOf(ps, src, OverlapCovers(ps, c), OverlapFits(src, c))
               \in AbstractRequests
<1>1. OverlapCovers(ps, c) \in BOOLEAN /\ OverlapFits(src, c) \in BOOLEAN
  BY DEF OverlapCovers, OverlapFits
<1>2. QED
  BY <1>1 DEF AbstractRequests

\* Building a scanner is no step of the contract, or the refusal of it.
LEMMA ConstructionImplements ==
    ASSUME Grounded, EngineInvariant, NEW c, NEW ps,
           NewWithoutPatterns(c) \/ NewRejected(ps, c) \/ NewPanics(ps, c)
              \/ AutomatonFails(ps, c) \/ New(ps, c)
    PROVE  ContractStep
<1>1. phase = "new" /\ source = Nothing /\ source' = Nothing /\ outcome = Pending
  BY DEF NewWithoutPatterns, NewRejected, NewPanics,
     AutomatonFails, New, Construct, Grounded,
     EngineInvariant, Prepared
<1>2. AbstractRequest = {} /\ AbstractRequest' = {} /\ AbstractAnswer = <<"none">>
  BY <1>1 DEF AbstractRequest, AbstractAnswer, Pending
<1>3. CASE New(ps, c)
  <2>1. outcome' = outcome
    BY <1>3 DEF New
  <2>2. AbstractAnswer' = AbstractAnswer
    BY <2>1 DEF AbstractAnswer
  <2>3. QED
    BY <2>2, <1>2 DEF ContractStep
<1>4. CASE NewWithoutPatterns(c) \/ NewRejected(ps, c) \/ NewPanics(ps, c)
          \/ AutomatonFails(ps, c)
  <2>1. outcome'.kind \in {"no patterns", "invalid config", "panic"}
    <3>1. \A kind : Failure(kind).kind = kind
      BY DEF Failure
    <3>2. \/ outcome' = Failure("no patterns")
          \/ outcome' = Failure("invalid config")
          \/ outcome' = Failure("panic")
      BY <1>4 DEF NewWithoutPatterns, NewRejected, NewPanics,
     AutomatonFails, Refuse
    <3>3. QED
      BY <3>1, <3>2
  <2>2. AbstractAnswer' = <<"failure">>
    BY <2>1 DEF AbstractAnswer
  <2>3. Contract!Refuse
    BY <2>2, <1>2 DEF Contract!Refuse, Contract!NoAnswer, Contract!Failed
  <2>4. QED
    BY <2>3 DEF ContractStep, Contract!Next
<1>5. QED
  BY <1>3, <1>4

\* Asking for a scan is asking, and being answered at once where it is.
LEMMA AskingImplements ==
    ASSUME Grounded, EngineInvariant, NEW src \in Sources,
           ScanEmpty(src) \/ PoolFails(src) \/ Scan(src)
    PROVE  ContractStep
<1> DEFINE r == RequestOf(patterns, src, OverlapCovers(patterns, config),
                          OverlapFits(src, config))
<1>1. /\ phase = "built" /\ source = Nothing /\ source' = src /\ src # Nothing
      /\ patterns' = patterns /\ config' = config /\ outcome = Pending
      /\ patterns \in PatternSets
  BY SourcesAssumption DEF ScanEmpty, PoolFails, Scan, Grounded, EngineInvariant,
     Prepared
<1>2. AbstractRequest = {} /\ AbstractAnswer = <<"none">>
  BY <1>1 DEF AbstractRequest, AbstractAnswer, Pending
<1>3. AbstractRequest' = {r} /\ r \in AbstractRequests
  <2>1. /\ OverlapCovers(patterns', config') = OverlapCovers(patterns, config)
        /\ OverlapFits(source', config') = OverlapFits(src, config)
    BY <1>1
  <2>2. AbstractRequest' = {r}
    BY <2>1, <1>1 DEF AbstractRequest
  <2>3. QED
    BY <2>2, <1>1, RequestAllowed
<1> HIDE DEF r
<1>4. CASE Scan(src)
  <2>1. outcome' = outcome
    BY <1>4 DEF Scan
  <2>2. AbstractAnswer' = AbstractAnswer
    BY <2>1 DEF AbstractAnswer
  <2>3. Contract!Ask(r)
    BY <2>2, <1>2, <1>3 DEF Contract!Ask, Contract!NoAnswer
  <2>4. QED
    BY <2>3, <1>3 DEF ContractStep, Contract!Next
<1>5. CASE PoolFails(src)
  <2>1. outcome'.kind = "thread pool"
    BY <1>5 DEF PoolFails, Failure
  <2>2. AbstractAnswer' = <<"failure">>
    BY <2>1 DEF AbstractAnswer
  <2>3. Contract!AskAndAnswer(r)
    BY <2>2, <1>2, <1>3 DEF Contract!AskAndAnswer, Contract!NoAnswer,
       Contract!Failed
  <2>4. QED
    BY <2>3, <1>3 DEF ContractStep, Contract!Next
<1>6. CASE ScanEmpty(src)
  <2>1. /\ outcome'.kind = "hits" /\ outcome'.hits = <<>>
        /\ Len(src.bytes) = 0
    BY <1>6 DEF ScanEmpty, Answer
  <2>2. AbstractAnswer' = <<"hits", <<>>>>
    BY <2>1 DEF AbstractAnswer
  <2>3. r.bytes = <<>>
    <3>1. src.bytes \in Seq(Byte)
      BY SourcesAssumption
    <3>2. src.bytes = <<>>
      BY <2>1, <3>1
    <3>3. QED
      BY <3>2 DEF r, RequestOf
  <2>4. Contract!AskAndAnswer(r)
    BY <2>2, <2>3, <1>2, <1>3 DEF Contract!AskAndAnswer, Contract!NoAnswer,
       Contract!HitList
  <2>5. QED
    BY <2>4, <1>3 DEF ContractStep, Contract!Next
<1>7. QED
  BY <1>4, <1>5, <1>6

\* What a worker does, the caller does not see.
LEMMA WorkImplements ==
    ASSUME NEW w, NEW b, Claim(w, b) \/ ClaimPanics(w, b) \/ ReadFails(w)
                            \/ Read(w) \/ Search(w)
    PROVE  ContractStep
<1>1. /\ outcome' = outcome /\ source' = source /\ patterns' = patterns
      /\ config' = config
  BY DEF Claim, ClaimPanics, ReadFails, Read, Search
<1>2. /\ OverlapCovers(patterns', config') = OverlapCovers(patterns, config)
      /\ OverlapFits(source', config') = OverlapFits(source, config)
  BY <1>1
<1>3. AbstractRequest' = AbstractRequest /\ AbstractAnswer' = AbstractAnswer
  BY <1>1, <1>2 DEF AbstractRequest, AbstractAnswer
<1>4. QED
  BY <1>3 DEF ContractStep

\* The end of the work is the answer to the request: the list of all that the
\* blocks found, which is what the contract allows, or a failure.
LEMMA FinishImplements ==
    ASSUME Grounded, EngineInvariant, Finish
    PROVE  ContractStep
<1> DEFINE covered == OverlapCovers(patterns, config)
           fits == OverlapFits(source, config)
           r == RequestOf(patterns, source, covered, fits)
           S == AllHits(plan, source)
<1>1. /\ phase = "scanning" /\ outcome = Pending
      /\ UNCHANGED <<patterns, config, source, plan>>
      /\ source \in Sources /\ source # Nothing
  BY RunningPlan, SourcesAssumption DEF Finish, Collected, EngineInvariant, Prepared
<1>2. AbstractRequest = {r} /\ AbstractAnswer = <<"none">>
  BY <1>1 DEF AbstractRequest, AbstractAnswer, Pending
<1>3. AbstractRequest' = AbstractRequest
  <2>1. /\ OverlapCovers(patterns', config') = covered
        /\ OverlapFits(source', config') = fits
    BY <1>1
  <2>2. QED
    BY <2>1, <1>1 DEF AbstractRequest
<1>4. CASE failed # {} \/ panicked
  <2>1. outcome'.kind \in {"source error", "panic"}
    BY <1>4 DEF Finish, Failure
  <2>2. AbstractAnswer' = <<"failure">>
    BY <2>1 DEF AbstractAnswer
  <2>3. Contract!Fail
    <3> HIDE DEF r
    <3>1. QED
      BY <2>2, <1>2, <1>3 DEF Contract!Fail, Contract!NoAnswer, Contract!Failed
  <2>4. QED
    BY <2>3 DEF ContractStep, Contract!Next
<1>5. CASE failed = {} /\ ~panicked
  <2>1. outcome'.kind = "hits"
    BY <1>5 DEF Finish, Answer
  <2>2. EngineInvariant' /\ Grounded'
    BY FinishStep, WorkGrounded
  <2>3. /\ Sorts(outcome'.hits, S)
        /\ S \subseteq Occurrences(patterns, source.bytes)
        /\ Occurrences(patterns, source.bytes) \subseteq AnyHit
        /\ covered /\ fits => S = Occurrences(patterns, source.bytes)
    <3>1. /\ Sorts(outcome'.hits, S')
          /\ S' \subseteq Occurrences(patterns', source'.bytes)
          /\ Occurrences(patterns', source'.bytes) \subseteq AnyHit
          /\ covered' /\ fits' => S' = Occurrences(patterns', source'.bytes)
      BY <2>1, <2>2, AnswerListedNext DEF Listed
    <3>2. S' = S /\ covered' = covered /\ fits' = fits
      BY <1>1 DEF AllHits, BlockHits, KeptHits
    <3>3. QED
      BY <3>1, <3>2, <1>1
  <2>b. NoSilentLoss'
    BY <2>2, ReadMeansReadable, PTL
  <2>c. fits' = fits
    BY <1>1
  <2>5. fits => r.readable
    <3>1. fits => source.bad \cap (0 .. Len(source.bytes) - 1) = {}
      BY <2>1, <2>b, <2>c, <1>1 DEF NoSilentLoss
    <3>2. QED
      BY <3>1 DEF RequestOf
  <2> HIDE DEF S, covered, fits
  <2>4. outcome'.hits = InOrder(S)
    BY <2>3, SortedIsInOrder
  <2>6. S \in Contract!Allowed(r)
    <3>1. /\ r.patterns = patterns /\ r.bytes = source.bytes
          /\ r.covered = covered /\ r.fits = fits
      BY DEF RequestOf
    <3> HIDE DEF r
    <3>2. QED
      BY <2>3, <2>5, <3>1, SameSignatures DEF Contract!Allowed
  <2>7. AbstractAnswer' = <<"hits", InOrder(S)>>
    BY <2>1, <2>4 DEF AbstractAnswer
  <2>8. Contract!Reply
    <3> HIDE DEF r
    <3>1. QED
      BY <2>6, <2>7, <1>2, <1>3, SameSignatures DEF Contract!Reply, Contract!NoAnswer,
         Contract!HitList
  <2>9. QED
    BY <2>8 DEF ContractStep, Contract!Next
<1>6. QED
  BY <1>4, <1>5

\* Every step of the engine is one of the contract, or none.
LEMMA StepImplements == Grounded /\ EngineInvariant /\ [Next]_vars => ContractStep
<1> SUFFICES ASSUME Grounded, EngineInvariant, [Next]_vars PROVE ContractStep
  OBVIOUS
<1>1. CASE Caller
  BY <1>1, ConstructionImplements, AskingImplements DEF Caller
<1>2. CASE Worker
  BY <1>2, WorkImplements DEF Worker
<1>3. CASE Finish
  BY <1>3, FinishImplements
<1>4. CASE Done \/ UNCHANGED vars
  <2>1. /\ outcome' = outcome /\ source' = source /\ patterns' = patterns
        /\ config' = config
    BY <1>4 DEF Done, vars
  <2>2. /\ OverlapCovers(patterns', config') = OverlapCovers(patterns, config)
        /\ OverlapFits(source', config') = OverlapFits(source, config)
    BY <2>1
  <2>3. AbstractRequest' = AbstractRequest /\ AbstractAnswer' = AbstractAnswer
    BY <2>1, <2>2 DEF AbstractRequest, AbstractAnswer
  <2>4. QED
    BY <2>3 DEF ContractStep
<1>5. QED
  BY <1>1, <1>2, <1>3, <1>4 DEF Next

(***************************************************************************)
(* The theorems                                                            *)
(***************************************************************************)

\* The engine's state is always well formed; in particular a scan that starts
\* has a plan of at least one worker and blocks of at least one byte, and no
\* worker ever holds a block that is not one of the plan (engine.rs:93-144).
THEOREM TypeCorrect == Spec => []TypeOK
<1>1. EngineInvariant => TypeOK
  BY DEF EngineInvariant
<1>2. QED
  BY <1>1, InvariantHolds, PTL

\* For every number of threads and every schedule, the hits returned are those
\* of a single thread scanning the blocks in order (engine.rs:190-191).
THEOREM ScheduleIndependence == Spec => []SameAsSequential
<1>1. EngineInvariant => SameAsSequential
  BY DEF EngineInvariant
<1>2. QED
  BY <1>1, InvariantHolds, PTL

\* A scan over a source with an unreadable byte never returns hits, for every
\* overlap whose read ends are u64 (engine.rs:227, 245-249).
THEOREM NothingSilentlyLost == Spec => []NoSilentLoss
  BY ReadMeansReadable, InvariantHolds, AlwaysGrounded, PTL

\* The buffers in flight fit in the memory budget at every instant, for every
\* configuration whose sums in Plan::resolve are u64 (engine.rs:59-60, 81-82).
THEOREM BudgetRespected == Spec => []WithinBudget
<1>1. EngineInvariant => WithinBudget
  <2> SUFFICES ASSUME EngineInvariant, phase = "scanning", NoWrap(config)
               PROVE  /\ \A w \in Busy :
                            pool[w].len <= plan.block_size + plan.overlap
                      /\ Cardinality(Busy) * (plan.block_size + plan.overlap)
                            <= config.memory_budget
    BY DEF WithinBudget
  <2>1. /\ Laid(plan) /\ config \in Config
        /\ plan = Resolve(config, Len(source.bytes))
        /\ ~InvalidConfig(config) /\ ~DividesByZero(config)
    BY RunningPlan, ConfigsAssumption
  <2>2. \A w \in Busy : pool[w].len <= plan.block_size + plan.overlap
    <3>1. \A w \in Busy : /\ pool[w].block \in Blocks(plan)
                          /\ pool[w].len = ReadLen(plan, pool[w].block)
                          /\ ~TooLong(pool[w].len)
      BY DEF EngineInvariant, Working
    <3>2. QED
      BY <3>1, <2>1, BlockBounds
  <2> DEFINE n == plan.worker_threads
             buffer == plan.block_size + plan.overlap
             busy == Cardinality(Busy)
  <2>3. n \in Nat \ {0} /\ buffer \in Nat \ {0} /\ config.memory_budget \in Nat
    BY <2>1 DEF Laid, Plan, Config
  <2>4. busy \in Nat /\ busy <= n
    <3>1. Busy \subseteq 1..n
      BY DEF EngineInvariant, TypeOK, Busy
    <3>2. IsFiniteSet(1..n) /\ Cardinality(1..n) = n
      <4> HIDE DEF n
      <4>1. n \in Int /\ ~(1 > n) /\ n - 1 + 1 = n
        BY <2>3
      <4>2. QED
        BY <4>1, FS_Interval
    <3>3. IsFiniteSet(Busy) /\ Cardinality(Busy) <= Cardinality(1..n)
      BY <3>1, <3>2, FS_Subset
    <3>4. Cardinality(Busy) \in Nat
      BY <3>3, FS_CardinalityType
    <3>5. QED
      BY <3>2, <3>3, <3>4
  <2>5. n * buffer <= config.memory_budget
    <3>1. /\ plan.worker_threads = WorkerThreads(config)
          /\ plan.block_size = EffectiveBlock(config)
          /\ plan.overlap = config.overlap
      BY <2>1 DEF Resolve
    <3>2. NoWrap(config)
      OBVIOUS
    <3>3. WorkerThreads(config) * (EffectiveBlock(config) + config.overlap)
            <= config.memory_budget
      BY <3>2, <2>1, PlanFitsBudget
    <3>4. QED
      BY <3>1, <3>3
  <2>6. busy * buffer <= n * buffer /\ busy * buffer \in Nat
        /\ n * buffer \in Nat
    <3> HIDE DEF busy, n, buffer
    <3>1. QED
      BY <2>3, <2>4, Products
  <2>7. busy * buffer <= config.memory_budget
    <3> HIDE DEF busy, n, buffer
    <3>1. QED
      BY <2>3, <2>5, <2>6
  <2>8. QED
    BY <2>2, <2>7
<1>2. QED
  BY <1>1, InvariantHolds, PTL

\* The engine's inductive invariant: while nothing has failed every block is
\* queued, held or done, and what is held or done is what the source says, also
\* where the sums of scan_block wrap (engine.rs:219-267).
THEOREM EngineInvariantHolds == Spec => []EngineInvariant
  BY InvariantHolds

\* A scan returns every occurrence of every signature exactly once, in the order
\* of offsets and pattern ids, for every layout of blocks, number of threads and
\* schedule, if its overlap covers the longest signature and its read ends are
\* u64 (engine.rs:187-191, 245).
THEOREM CompleteAndOrdered == Spec => []EveryOccurrenceOnce
<1>1. EngineInvariant /\ Grounded => EveryOccurrenceOnce
  <2> SUFFICES ASSUME EngineInvariant, Grounded, outcome.kind = "hits",
                      OverlapCovers(patterns, config),
                      OverlapFits(source, config)
               PROVE  outcome.hits = InOrder(Occurrences(patterns, source.bytes))
    BY DEF EveryOccurrenceOnce
  <2>1. /\ Sorts(outcome.hits, Occurrences(patterns, source.bytes))
        /\ Occurrences(patterns, source.bytes) \subseteq AnyHit
    BY AnswerListed DEF Listed
  <2>2. QED
    BY <2>1, SortedIsInOrder
<1>2. QED
  BY <1>1, InvariantHolds, AlwaysGrounded, PTL

\* Whatever the overlap, a scan reports occurrences only and none of them twice
\* (engine.rs:254-261).
THEOREM NoneInvented == Spec => []NothingInvented
<1>1. EngineInvariant /\ Grounded => NothingInvented
  <2> SUFFICES ASSUME EngineInvariant, Grounded, outcome.kind = "hits"
               PROVE  /\ ToSet(outcome.hits) \subseteq
                            Occurrences(patterns, source.bytes)
                      /\ IsInjective(outcome.hits)
    BY DEF NothingInvented
  <2> DEFINE s == outcome.hits
             S == AllHits(plan, source)
  <2>1. Sorts(s, S) /\ S \subseteq Occurrences(patterns, source.bytes)
        /\ S \subseteq AnyHit
    BY AnswerListed DEF Listed
  <2> HIDE DEF s, S
  <2>2. /\ DOMAIN s = 1..Len(s) /\ \A i \in 1..Len(s) : s[i] \in S
        /\ \A i, j \in 1..Len(s) : s[i] = s[j] => i = j
    BY <2>1, SortedInjective
  <2>3. ToSet(s) \subseteq S /\ IsInjective(s)
    BY <2>2 DEF ToSet, IsInjective
  <2>4. QED
    BY <2>1, <2>3 DEF s
<1>2. QED
  BY <1>1, InvariantHolds, AlwaysGrounded, PTL

\* The engine implements the contract of a scan, step by step: whatever the
\* workers do, the caller sees a request, and then at most one answer to it, the
\* exact ordered list of hits or a failure.
THEOREM EngineImplementsContract ==
    Spec => Contract!Init
            /\ [][Contract!Next]_<<AbstractRequest, AbstractAnswer>>
<1>1. Init => Contract!Init
  BY DEF Init, Contract!Init, Contract!NoAnswer, AbstractRequest, AbstractAnswer,
     Pending
<1>2. Grounded /\ EngineInvariant /\ [Next]_vars
        => [Contract!Next]_<<AbstractRequest, AbstractAnswer>>
  BY StepImplements DEF ContractStep
<1>3. QED
  BY <1>1, <1>2, InvariantHolds, AlwaysGrounded, PTL DEF Spec
=============================================================================
