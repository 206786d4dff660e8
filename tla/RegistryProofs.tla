--------------------------- MODULE RegistryProofs ---------------------------
(***************************************************************************)
(* Proofs about the registry, for all extractors, sources, hits and        *)
(* numbers of threads: whatever the schedule, and in whatever order the    *)
(* relaxed increments become visible, no counter runs ahead of the hits,   *)
(* and once the threads are joined every counter is exact.                 *)
(*                                                                         *)
(* The counters alone do not tell: an increment is executed before it is   *)
(* visible, and a candidate is seen before it is judged.  So the invariant *)
(* weighs, for each extractor, what is visible, what is executed and what  *)
(* the calls in progress may still add, against the hits that were taken.  *)
(*                                                                         *)
(* Then proofs about Carving: what the registry recovers of an image of    *)
(* event logs, of any length and with any one cell damaged.  Whatever the  *)
(* schedule, an answer is what the extractor says of the window at its     *)
(* hit; the rest is about the image.  Each of its cells tells where        *)
(* something was written: a record's header and its trailer stand where a  *)
(* record of that size was written, and a chunk's header holds the         *)
(* checksum of all its records.  One damaged cell changes the header or    *)
(* the trailer of a record, and not both, so that no record begins or ends *)
(* where none did.                                                         *)
(***************************************************************************)
EXTENDS Carving, OperatorProofs

\* The increments of extractor e, on one of the counters F, not visible yet.
Pending(e, F) == {a \in unlanded : a.owner = e /\ a.field \in F}

\* The counters of what was judged.
Judgements == {"accepted", "rejected"}

\* The calls that have not judged their candidate, and those that will accept it.
Undecided(e) == {c \in calls : c.step = "seen" /\ c.hit \in HitsOf(e)}
Promising(e) == {c \in Undecided(e) : c.hit \in AcceptedOf(e)}

Taken(e) == HitsOf(e) \ todo
TakenGood(e) == AcceptedOf(e) \ todo

SeenBalanced(e) ==
    counters[e].seen + Cardinality(Pending(e, {"seen"})) <= Cardinality(Taken(e))

JudgedBalanced(e) ==
    counters[e].accepted + counters[e].rejected
        + Cardinality(Pending(e, Judgements))
        + Cardinality(Undecided(e)) <= Cardinality(Taken(e))

AcceptedBalanced(e) ==
    counters[e].accepted + Cardinality(Pending(e, {"accepted"}))
        + Cardinality(Promising(e)) <= Cardinality(TakenGood(e))

\* Everything counted is finite, as it grows by one element at a time.
Countable ==
    IsFiniteSet(hits \ todo) /\ IsFiniteSet(calls) /\ IsFiniteSet(unlanded)

\* The shape of the counters and of what is under way.
Shape ==
    /\ phase \in {"building", "running", "joined"}
    /\ phase = "building" => counters = <<>> /\ unlanded = {} /\ calls = {}
    /\ counters = [e \in DOMAIN counters |-> counters[e]]
    /\ \A e \in DOMAIN counters :
          /\ counters[e] = [f \in ToSet(Fields) |-> counters[e][f]]
          /\ counters[e].seen \in Nat
          /\ counters[e].accepted \in Nat
          /\ counters[e].rejected \in Nat
    /\ \A a \in unlanded :
          /\ a.field \in ToSet(Fields)
          /\ a.field # "emitted" => a.amount = 1
    /\ todo \subseteq hits
    /\ \A c \in calls : c.hit \in hits \ todo /\ Known(c.hit.pattern)

Balanced ==
    \A e \in DOMAIN counters :
        SeenBalanced(e) /\ JudgedBalanced(e) /\ AcceptedBalanced(e)

RegistryInvariant == Countable /\ Shape /\ Balanced
-----------------------------------------------------------------------------
(* Counting                                                                *)

\* A part of a finite set is no larger; so it is of the set ...
LEMMA PartOf ==
    ASSUME NEW S, NEW T, IsFiniteSet(S), T \subseteq S
    PROVE  /\ IsFiniteSet(T)
           /\ Cardinality(T) \in Nat /\ Cardinality(S) \in Nat
           /\ Cardinality(T) <= Cardinality(S)
<1>1. QED
  BY FS_Subset, FS_CardinalityType

\* ... with one more ...
LEMMA PartOfMore ==
    ASSUME NEW S, NEW T, NEW x, IsFiniteSet(S), T \subseteq S \cup {x}
    PROVE  /\ IsFiniteSet(T)
           /\ Cardinality(T) \in Nat /\ Cardinality(S) \in Nat
           /\ Cardinality(T) <= Cardinality(S) + 1
<1>1. /\ IsFiniteSet(S \cup {x})
      /\ Cardinality(S \cup {x}) <= Cardinality(S) + 1
      /\ Cardinality(S) \in Nat
  BY FS_AddElement, FS_CardinalityType
<1>2. QED
  BY <1>1, PartOf

\* ... and with one less.
LEMMA PartOfLess ==
    ASSUME NEW S, NEW T, NEW x \in S, IsFiniteSet(S), T \subseteq S \ {x}
    PROVE  /\ IsFiniteSet(T)
           /\ Cardinality(T) \in Nat /\ Cardinality(S) \in Nat
           /\ Cardinality(T) <= Cardinality(S) - 1
<1>1. /\ IsFiniteSet(S \ {x})
      /\ Cardinality(S \ {x}) = Cardinality(S) - 1
      /\ Cardinality(S) \in Nat
  BY FS_RemoveElement, FS_CardinalityType
<1>2. QED
  BY <1>1, PartOf

\* A set with a new element.
LEMMA OneMore ==
    ASSUME NEW S, NEW T, NEW x, IsFiniteSet(S), x \notin S, T = S \cup {x}
    PROVE  /\ IsFiniteSet(T)
           /\ Cardinality(T) \in Nat /\ Cardinality(S) \in Nat
           /\ Cardinality(T) = Cardinality(S) + 1
<1>1. QED
  BY FS_AddElement, FS_CardinalityType

\* How a set may change in a step, by its size.
Sized(S) == Cardinality(S) \in Nat
AtMost(S, T) ==
    Sized(S) /\ Sized(T) /\ Cardinality(T) <= Cardinality(S)
More(S, T) == Sized(S) /\ Sized(T) /\ Cardinality(T) <= Cardinality(S) + 1
Less(S, T) == Sized(S) /\ Sized(T) /\ Cardinality(T) <= Cardinality(S) - 1
One(S, T) == Sized(S) /\ Sized(T) /\ Cardinality(T) = Cardinality(S) + 1

\* What is weighed is finite.
LEMMA Weighable ==
    ASSUME Countable, NEW e
    PROVE  /\ \A F : IsFiniteSet(Pending(e, F))
           /\ IsFiniteSet(Undecided(e)) /\ IsFiniteSet(Promising(e))
           /\ IsFiniteSet(Taken(e)) /\ IsFiniteSet(TakenGood(e))
<1>1. \A F : Pending(e, F) \subseteq unlanded
  BY DEF Pending
<1>2. Undecided(e) \subseteq calls /\ Promising(e) \subseteq calls
  BY DEF Undecided, Promising
<1>3. Taken(e) \subseteq hits \ todo /\ TakenGood(e) \subseteq hits \ todo
  BY DEF Taken, TakenGood, AcceptedOf, HitsOf
<1>4. QED
  BY <1>1, <1>2, <1>3, PartOf DEF Countable
-----------------------------------------------------------------------------
(* The steps                                                               *)

\* Whose a hit is, and whether it will be accepted, does not change while hits
\* are processed.
LEMMA SameHits ==
    ASSUME UNCHANGED <<run, hits, extractors>>
    PROVE  \A e : HitsOf(e)' = HitsOf(e) /\ AcceptedOf(e)' = AcceptedOf(e)
<1>1. \A p : (Known(p)' <=> Known(p)) /\ Owner(p)' = Owner(p)
  BY DEF Known, Owner, Patterns, PatternOwner
<1>2. \A h : (Unreadable(h)' <=> Unreadable(h)) /\ Verdict(h)' = Verdict(h)
  BY <1>1 DEF Unreadable, Verdict, Window, WindowBytes
<1>3. \A e : HitsOf(e)' = HitsOf(e)
  BY <1>1 DEF HitsOf
<1>4. QED
  BY <1>2, <1>3 DEF AcceptedOf

\* Nothing is registered and nothing is counted at first.
LEMMA RegistryStarts == Init => RegistryInvariant
<1> SUFFICES ASSUME Init PROVE RegistryInvariant
  OBVIOUS
<1>1. Countable
  BY FS_EmptySet DEF Init, Countable
<1>2. Shape /\ DOMAIN counters = {}
  BY DEF Init, Shape
<1>3. QED
  BY <1>1, <1>2 DEF RegistryInvariant, Balanced

\* The names of the counters.
LEMMA FieldNames == ToSet(Fields) = {"seen", "accepted", "rejected", "emitted"}
<1>1. DOMAIN Fields = 1..4
  BY DEF Fields
<1>2. 1..4 = {1, 2, 3, 4}
  OBVIOUS
<1>3. QED
  BY <1>1, <1>2 DEF ToSet, Fields

\* A step that touches nothing that is weighed.
LEMMA IdleStep ==
    ASSUME RegistryInvariant,
           UNCHANGED <<run, hits, extractors, counters, unlanded, todo, calls>>,
           phase' = phase \/ (phase = "running" /\ phase' = "joined")
    PROVE  RegistryInvariant'
<1>1. Countable' /\ Shape'
  <2>1. \A p : Known(p)' <=> Known(p)
    BY DEF Known, Patterns
  <2>2. QED
    BY <2>1 DEF RegistryInvariant, Countable, Shape
<1>2. ASSUME NEW e \in DOMAIN counters
      PROVE  (SeenBalanced(e) /\ JudgedBalanced(e) /\ AcceptedBalanced(e))'
  <2>1. /\ \A F : Pending(e, F)' = Pending(e, F)
        /\ Undecided(e)' = Undecided(e) /\ Promising(e)' = Promising(e)
        /\ Taken(e)' = Taken(e) /\ TakenGood(e)' = TakenGood(e)
    BY SameHits DEF Pending, Undecided, Promising, Taken, TakenGood
  <2>2. QED
    BY <2>1 DEF RegistryInvariant, Balanced, SeenBalanced, JudgedBalanced,
                AcceptedBalanced
<1>3. QED
  BY <1>1, <1>2 DEF RegistryInvariant, Balanced

\* Registering an extractor counts nothing.
LEMMA RegisterKeeps ==
    ASSUME RegistryInvariant, Register
    PROVE  RegistryInvariant'
<1>1. phase = "building" /\ counters = <<>> /\ unlanded = {} /\ calls = {}
  BY DEF Register, RegistryInvariant, Shape
<1>2. UNCHANGED <<run, hits, phase, counters, unlanded, todo, calls>>
  BY DEF Register, fixed
<1>3. Countable' /\ Shape'
  BY <1>1, <1>2 DEF RegistryInvariant, Countable, Shape
<1>4. QED
  BY <1>1, <1>2, <1>3 DEF RegistryInvariant, Balanced

\* The counters start at zero, and no hit is taken yet.
LEMMA BuildKeeps ==
    ASSUME RegistryInvariant, Build
    PROVE  RegistryInvariant'
<1>1. /\ unlanded = {} /\ calls = {} /\ unlanded' = {} /\ calls' = {}
      /\ phase' = "running" /\ hits' = todo'
      /\ counters' = [e \in DOMAIN extractors |-> Zero]
  BY DEF Build, RegistryInvariant, Shape
<1>2. Zero = [f \in ToSet(Fields) |-> 0]
      /\ Zero.seen = 0 /\ Zero.accepted = 0 /\ Zero.rejected = 0
  BY FieldNames DEF Zero
<1>3. Countable'
  <2>1. hits' \ todo' = {}
    BY <1>1
  <2>2. QED
    BY <1>1, <2>1, FS_EmptySet DEF Countable
<1>4. Shape'
  <2>1. \A e \in DOMAIN extractors : counters'[e] = Zero
    BY <1>1
  <2>2. QED
    BY <1>1, <1>2, <2>1 DEF Shape
<1>5. ASSUME NEW e \in DOMAIN counters'
      PROVE  (SeenBalanced(e) /\ JudgedBalanced(e) /\ AcceptedBalanced(e))'
  <2>1. /\ Pending(e, {"seen"})' = {} /\ Pending(e, {"accepted"})' = {}
        /\ Pending(e, Judgements)' = {}
        /\ Undecided(e)' = {} /\ Promising(e)' = {}
    BY <1>1 DEF Pending, Undecided, Promising
  <2>2. Taken(e)' = {} /\ TakenGood(e)' = {}
    BY <1>1 DEF Taken, TakenGood, AcceptedOf, HitsOf
  <2>3. Cardinality({}) = 0
    BY FS_EmptySet
  <2>4. counters'[e].seen = 0 /\ counters'[e].accepted = 0
        /\ counters'[e].rejected = 0
    BY <1>1, <1>2
  <2>5. QED
    BY <2>1, <2>2, <2>3, <2>4 DEF SeenBalanced, JudgedBalanced, AcceptedBalanced
<1>6. QED
  BY <1>3, <1>4, <1>5 DEF RegistryInvariant, Balanced

\* A hit that is taken outweighs the increment and the call that come with it.
LEMMA DispatchKeeps ==
    ASSUME RegistryInvariant, NEW h, Dispatch(h)
    PROVE  RegistryInvariant'
<1> DEFINE call == [step |-> "seen", hit |-> h]
           add == Add(h, "seen", 1)
<1>1. /\ UNCHANGED <<run, hits, extractors, phase, counters>>
      /\ unlanded' = unlanded \cup {add} /\ calls' = calls \cup {call}
      /\ todo' = todo \ {h}
  BY DEF Dispatch, Take, fixed
<1>2. /\ phase = "running" /\ h \in todo /\ h \in hits /\ Known(h.pattern)
  BY DEF Dispatch, Take, RegistryInvariant, Shape
<1>3. Countable'
  <2>1. hits' \ todo' = (hits \ todo) \cup {h}
    BY <1>1, <1>2
  <2>2. /\ IsFiniteSet((hits \ todo) \cup {h})
        /\ IsFiniteSet(calls \cup {call}) /\ IsFiniteSet(unlanded \cup {add})
    <3> HIDE DEF call, add
    <3>1. QED
      BY FS_AddElement DEF Countable, RegistryInvariant
  <2>3. QED
    BY <1>1, <2>1, <2>2 DEF Countable
<1>4. Shape'
  <2>1. \A p : Known(p)' <=> Known(p)
    BY <1>1 DEF Known, Patterns
  <2>2. QED
    BY <1>1, <1>2, <2>1, FieldNames DEF RegistryInvariant, Shape, Add
<1>5. \A e : /\ IsFiniteSet(Pending(e, {"seen"}))
             /\ IsFiniteSet(Pending(e, {"accepted"}))
             /\ IsFiniteSet(Pending(e, Judgements))
             /\ IsFiniteSet(Undecided(e)) /\ IsFiniteSet(Promising(e))
             /\ IsFiniteSet(Taken(e)) /\ IsFiniteSet(TakenGood(e))
  BY Weighable DEF RegistryInvariant
<1>6. \A e : HitsOf(e)' = HitsOf(e) /\ AcceptedOf(e)' = AcceptedOf(e)
  BY <1>1, SameHits
<1>7. ASSUME NEW e \in DOMAIN counters'
      PROVE  (SeenBalanced(e) /\ JudgedBalanced(e) /\ AcceptedBalanced(e))'
  <2>1. /\ e \in DOMAIN counters
        /\ SeenBalanced(e) /\ JudgedBalanced(e) /\ AcceptedBalanced(e)
        /\ counters[e].seen \in Nat /\ counters[e].accepted \in Nat
        /\ counters[e].rejected \in Nat
    BY <1>1 DEF RegistryInvariant, Balanced, Shape
  <2>2. CASE Owner(h.pattern) # e
    <3>1. /\ Pending(e, {"seen"})' = Pending(e, {"seen"})
          /\ Pending(e, {"accepted"})' = Pending(e, {"accepted"})
          /\ Pending(e, Judgements)' = Pending(e, Judgements)
      BY <1>1, <1>2, <2>2 DEF Pending, Add, Judgements
    <3>2. /\ Undecided(e)' = Undecided(e) /\ Promising(e)' = Promising(e)
          /\ Taken(e)' = Taken(e) /\ TakenGood(e)' = TakenGood(e)
      BY <1>1, <1>2, <1>6, <2>2, SMTT(40)
         DEF Undecided, Promising, Taken, TakenGood, AcceptedOf, HitsOf
    <3>3. QED
      BY <1>1, <2>1, <3>1, <3>2
         DEF SeenBalanced, JudgedBalanced, AcceptedBalanced
  <2>3. CASE Owner(h.pattern) = e
    <3>1. h \in HitsOf(e)
      BY <1>2, <2>3 DEF HitsOf
    <3>2. /\ Pending(e, {"seen"})' \subseteq Pending(e, {"seen"}) \cup {add}
          /\ Pending(e, {"accepted"})' = Pending(e, {"accepted"})
          /\ Pending(e, Judgements)' = Pending(e, Judgements)
      BY <1>1 DEF Pending, Add, Judgements
    <3>3. /\ Undecided(e)' \subseteq Undecided(e) \cup {call}
          /\ Promising(e)' \subseteq Promising(e) \cup {call}
          /\ h \notin AcceptedOf(e) => Promising(e)' = Promising(e)
      BY <1>1, <1>6 DEF Undecided, Promising
    <3>4. /\ Taken(e)' = Taken(e) \cup {h} /\ h \notin Taken(e)
          /\ h \in AcceptedOf(e) => TakenGood(e)' = TakenGood(e) \cup {h}
          /\ h \notin AcceptedOf(e) => TakenGood(e)' = TakenGood(e)
          /\ h \notin TakenGood(e)
      BY <1>1, <1>2, <1>6, <3>1 DEF Taken, TakenGood
    <3> HIDE DEF call, add
    <3>5. More(Pending(e, {"seen"}), Pending(e, {"seen"})')
      <4>1. IsFiniteSet(Pending(e, {"seen"}))
        BY <1>5
      <4>2. QED
        BY <4>1, <3>2, PartOfMore DEF More, Sized
    <3>6. Sized(Pending(e, {"accepted"})) /\ Sized(Pending(e, Judgements))
      BY <1>5, FS_CardinalityType DEF Sized
    <3>7. More(Undecided(e), Undecided(e)') /\ More(Promising(e), Promising(e)')
      BY <1>5, <3>3, PartOfMore DEF More, Sized
    <3>8. One(Taken(e), Taken(e)')
      BY <1>5, <3>4, OneMore DEF One, Sized
    <3>9. SeenBalanced(e)'
      BY <1>1, <2>1, <3>5, <3>8 DEF SeenBalanced, More, One, Sized
    <3>10. JudgedBalanced(e)'
      BY <1>1, <2>1, <3>2, <3>6, <3>7, <3>8 DEF JudgedBalanced, More, One, Sized
    <3>11. AcceptedBalanced(e)'
      <4>1. CASE h \in AcceptedOf(e)
        <5>1. One(TakenGood(e), TakenGood(e)')
          BY <1>5, <3>4, <4>1, OneMore DEF One, Sized
        <5>2. QED
          BY <1>1, <2>1, <3>2, <3>6, <3>7, <5>1
             DEF AcceptedBalanced, More, One, Sized
      <4>2. CASE h \notin AcceptedOf(e)
        BY <1>1, <2>1, <3>2, <3>3, <3>4, <4>2 DEF AcceptedBalanced
      <4>3. QED
        BY <4>1, <4>2
    <3>12. QED
      BY <3>9, <3>10, <3>11
  <2>4. QED
    BY <2>2, <2>3
<1>8. QED
  BY <1>3, <1>4, <1>7 DEF RegistryInvariant, Balanced

\* A refused candidate moves its weight from the call to the increment.
LEMMA RejectKeeps ==
    ASSUME RegistryInvariant, NEW c \in calls, Reject(c)
    PROVE  RegistryInvariant'
<1> DEFINE add == Add(c.hit, "rejected", 1)
<1>1. /\ UNCHANGED <<run, hits, extractors, phase, counters, todo>>
      /\ unlanded' = unlanded \cup {add} /\ calls' = calls \ {c}
  BY DEF Reject, fixed
<1>2. /\ c.step = "seen" /\ (Unreadable(c.hit) \/ ~Verdict(c.hit).ok)
      /\ c.hit \in hits \ todo /\ Known(c.hit.pattern) /\ phase # "building"
  BY DEF Reject, RegistryInvariant, Shape
<1>3. Countable'
  <2>1. hits' \ todo' = hits \ todo
    BY <1>1
  <2>2. IsFiniteSet(calls \ {c}) /\ IsFiniteSet(unlanded \cup {add})
    <3> HIDE DEF add
    <3>1. QED
      BY FS_AddElement, FS_RemoveElement DEF Countable, RegistryInvariant
  <2>3. QED
    BY <1>1, <2>1, <2>2 DEF Countable, RegistryInvariant
<1>4. Shape'
  <2>1. \A p : Known(p)' <=> Known(p)
    BY <1>1 DEF Known, Patterns
  <2>2. QED
    BY <1>1, <1>2, <2>1, FieldNames DEF RegistryInvariant, Shape, Add
<1>5. \A e : /\ IsFiniteSet(Pending(e, {"seen"}))
             /\ IsFiniteSet(Pending(e, {"accepted"}))
             /\ IsFiniteSet(Pending(e, Judgements))
             /\ IsFiniteSet(Undecided(e)) /\ IsFiniteSet(Promising(e))
             /\ IsFiniteSet(Taken(e)) /\ IsFiniteSet(TakenGood(e))
  BY Weighable DEF RegistryInvariant
<1>6. \A e : HitsOf(e)' = HitsOf(e) /\ AcceptedOf(e)' = AcceptedOf(e)
  BY <1>1, SameHits
<1>7. ASSUME NEW e \in DOMAIN counters'
      PROVE  (SeenBalanced(e) /\ JudgedBalanced(e) /\ AcceptedBalanced(e))'
  <2>1. /\ e \in DOMAIN counters
        /\ SeenBalanced(e) /\ JudgedBalanced(e) /\ AcceptedBalanced(e)
        /\ counters[e].seen \in Nat /\ counters[e].accepted \in Nat
        /\ counters[e].rejected \in Nat
    BY <1>1 DEF RegistryInvariant, Balanced, Shape
  <2>2. CASE Owner(c.hit.pattern) # e
    <3>1. /\ Pending(e, {"seen"})' = Pending(e, {"seen"})
          /\ Pending(e, {"accepted"})' = Pending(e, {"accepted"})
          /\ Pending(e, Judgements)' = Pending(e, Judgements)
      BY <1>1, <1>2, <2>2 DEF Pending, Add, Judgements
    <3>2. /\ Undecided(e)' = Undecided(e) /\ Promising(e)' = Promising(e)
          /\ Taken(e)' = Taken(e) /\ TakenGood(e)' = TakenGood(e)
      BY <1>1, <1>2, <1>6, <2>2
         DEF Undecided, Promising, Taken, TakenGood, AcceptedOf, HitsOf
    <3>3. QED
      BY <1>1, <2>1, <3>1, <3>2
         DEF SeenBalanced, JudgedBalanced, AcceptedBalanced
  <2>3. CASE Owner(c.hit.pattern) = e
    <3>1. c.hit \in HitsOf(e)
      BY <1>2, <2>3 DEF HitsOf, RegistryInvariant, Shape
    <3>2. Taken(e)' = Taken(e) /\ TakenGood(e)' = TakenGood(e)
      BY <1>1, <1>6 DEF Taken, TakenGood
    <3>3. /\ Pending(e, {"seen"})' = Pending(e, {"seen"})
          /\ Pending(e, {"accepted"})' = Pending(e, {"accepted"})
          /\ Pending(e, Judgements)' \subseteq
                Pending(e, Judgements) \cup {add}
      BY <1>1 DEF Pending, Add, Judgements
    <3>4. /\ c \in Undecided(e) /\ Undecided(e)' \subseteq Undecided(e) \ {c}
          /\ Promising(e)' = Promising(e)
      BY <1>1, <1>2, <1>6, <3>1 DEF Undecided, Promising, AcceptedOf
    <3> HIDE DEF add
    <3>5. More(Pending(e, Judgements), Pending(e, Judgements)')
      <4>1. IsFiniteSet(Pending(e, Judgements))
        BY <1>5
      <4>2. QED
        BY <4>1, <3>3, PartOfMore DEF More, Sized
    <3>6. Less(Undecided(e), Undecided(e)') /\ Sized(Taken(e))
      BY <1>5, <3>4, PartOfLess, FS_CardinalityType DEF Less, Sized
    <3>7. SeenBalanced(e)' /\ AcceptedBalanced(e)'
      BY <1>1, <2>1, <3>2, <3>3, <3>4 DEF SeenBalanced, AcceptedBalanced
    <3>8. JudgedBalanced(e)'
      BY <1>1, <2>1, <3>2, <3>5, <3>6 DEF JudgedBalanced, More, Less, Sized
    <3>9. QED
      BY <3>7, <3>8
  <2>4. QED
    BY <2>2, <2>3
<1>8. QED
  BY <1>3, <1>4, <1>7 DEF RegistryInvariant, Balanced

\* An accepted candidate does so too, and is one of the good ones that were taken.
LEMMA AcceptKeeps ==
    ASSUME RegistryInvariant, NEW c \in calls, Accept(c)
    PROVE  RegistryInvariant'
<1> DEFINE call == [step |-> "accepted", hit |-> c.hit]
           add == Add(c.hit, "accepted", 1)
<1>1. /\ UNCHANGED <<run, hits, extractors, phase, counters, todo>>
      /\ unlanded' = unlanded \cup {add} /\ calls' = (calls \ {c}) \cup {call}
  BY DEF Accept, fixed
<1>2. /\ c.step = "seen" /\ ~Unreadable(c.hit) /\ Verdict(c.hit).ok
      /\ c.hit \in hits \ todo /\ Known(c.hit.pattern) /\ phase # "building"
  BY DEF Accept, RegistryInvariant, Shape
<1>3. Countable'
  <2>1. hits' \ todo' = hits \ todo
    BY <1>1
  <2>2. /\ IsFiniteSet((calls \ {c}) \cup {call})
        /\ IsFiniteSet(unlanded \cup {add})
    <3> HIDE DEF call, add
    <3>1. QED
      BY FS_AddElement, FS_RemoveElement DEF Countable, RegistryInvariant
  <2>3. QED
    BY <1>1, <2>1, <2>2 DEF Countable, RegistryInvariant
<1>4. Shape'
  <2>1. \A p : Known(p)' <=> Known(p)
    BY <1>1 DEF Known, Patterns
  <2>2. QED
    BY <1>1, <1>2, <2>1, FieldNames DEF RegistryInvariant, Shape, Add
<1>5. \A e : /\ IsFiniteSet(Pending(e, {"seen"}))
             /\ IsFiniteSet(Pending(e, {"accepted"}))
             /\ IsFiniteSet(Pending(e, Judgements))
             /\ IsFiniteSet(Undecided(e)) /\ IsFiniteSet(Promising(e))
             /\ IsFiniteSet(Taken(e)) /\ IsFiniteSet(TakenGood(e))
  BY Weighable DEF RegistryInvariant
<1>6. \A e : HitsOf(e)' = HitsOf(e) /\ AcceptedOf(e)' = AcceptedOf(e)
  BY <1>1, SameHits
<1>7. ASSUME NEW e \in DOMAIN counters'
      PROVE  (SeenBalanced(e) /\ JudgedBalanced(e) /\ AcceptedBalanced(e))'
  <2>1. /\ e \in DOMAIN counters
        /\ SeenBalanced(e) /\ JudgedBalanced(e) /\ AcceptedBalanced(e)
        /\ counters[e].seen \in Nat /\ counters[e].accepted \in Nat
        /\ counters[e].rejected \in Nat
    BY <1>1 DEF RegistryInvariant, Balanced, Shape
  <2>2. CASE Owner(c.hit.pattern) # e
    <3>1. /\ Pending(e, {"seen"})' = Pending(e, {"seen"})
          /\ Pending(e, {"accepted"})' = Pending(e, {"accepted"})
          /\ Pending(e, Judgements)' = Pending(e, Judgements)
      BY <1>1, <1>2, <2>2 DEF Pending, Add, Judgements
    <3>2. /\ Undecided(e)' = Undecided(e) /\ Promising(e)' = Promising(e)
          /\ Taken(e)' = Taken(e) /\ TakenGood(e)' = TakenGood(e)
      <4>1. c.hit \notin HitsOf(e)
        BY <2>2 DEF HitsOf
      <4>2. Undecided(e)' = Undecided(e)
        BY <1>1, <1>6, <4>1 DEF Undecided
      <4>3. QED
        BY <1>1, <1>6, <4>2 DEF Promising, Taken, TakenGood
    <3>3. QED
      BY <1>1, <2>1, <3>1, <3>2
         DEF SeenBalanced, JudgedBalanced, AcceptedBalanced
  <2>3. CASE Owner(c.hit.pattern) = e
    <3>1. c.hit \in HitsOf(e)
      BY <1>2, <2>3 DEF HitsOf, RegistryInvariant, Shape
    <3>2. Taken(e)' = Taken(e) /\ TakenGood(e)' = TakenGood(e)
      BY <1>1, <1>6 DEF Taken, TakenGood
    <3>3. /\ Pending(e, {"seen"})' = Pending(e, {"seen"})
          /\ Pending(e, {"accepted"})' \subseteq
                Pending(e, {"accepted"}) \cup {add}
          /\ Pending(e, Judgements)' \subseteq
                Pending(e, Judgements) \cup {add}
      BY <1>1 DEF Pending, Add, Judgements
    <3>4. /\ c \in Undecided(e) /\ Undecided(e)' \subseteq Undecided(e) \ {c}
          /\ c \in Promising(e) /\ Promising(e)' \subseteq Promising(e) \ {c}
      BY <1>1, <1>2, <1>6, <3>1 DEF Undecided, Promising, AcceptedOf
    <3> HIDE DEF call, add
    <3>5. /\ More(Pending(e, Judgements), Pending(e, Judgements)')
          /\ More(Pending(e, {"accepted"}), Pending(e, {"accepted"})')
      <4>1. /\ IsFiniteSet(Pending(e, Judgements))
            /\ IsFiniteSet(Pending(e, {"accepted"}))
        BY <1>5
      <4>2. More(Pending(e, Judgements), Pending(e, Judgements)')
        BY <4>1, <3>3, PartOfMore DEF More, Sized
      <4>3. More(Pending(e, {"accepted"}), Pending(e, {"accepted"})')
        BY <4>1, <3>3, PartOfMore DEF More, Sized
      <4>4. QED
        BY <4>2, <4>3
    <3>6. /\ Less(Undecided(e), Undecided(e)')
          /\ Less(Promising(e), Promising(e)')
          /\ Sized(Taken(e)) /\ Sized(TakenGood(e))
      BY <1>5, <3>4, PartOfLess, FS_CardinalityType DEF Less, Sized
    <3>7. SeenBalanced(e)'
      BY <1>1, <2>1, <3>2, <3>3 DEF SeenBalanced
    <3>8. JudgedBalanced(e)'
      BY <1>1, <2>1, <3>2, <3>5, <3>6 DEF JudgedBalanced, More, Less, Sized
    <3>9. AcceptedBalanced(e)'
      BY <1>1, <2>1, <3>2, <3>5, <3>6 DEF AcceptedBalanced, More, Less, Sized
    <3>10. QED
      BY <3>7, <3>8, <3>9
  <2>4. QED
    BY <2>2, <2>3
<1>8. QED
  BY <1>3, <1>4, <1>7 DEF RegistryInvariant, Balanced

\* The artefacts of an accepted candidate are not weighed.
LEMMA EmitKeeps ==
    ASSUME RegistryInvariant, NEW c \in calls, Emit(c)
    PROVE  RegistryInvariant'
<1> DEFINE add == Add(c.hit, "emitted", Len(Verdict(c.hit).carved))
<1>1. /\ UNCHANGED <<run, hits, extractors, phase, counters, todo>>
      /\ unlanded' = unlanded \cup {add} /\ calls' = calls \ {c}
  BY DEF Emit, fixed
<1>2. c.step = "accepted" /\ phase # "building"
  BY DEF Emit, RegistryInvariant, Shape
<1>3. Countable'
  <2>1. hits' \ todo' = hits \ todo
    BY <1>1
  <2>2. IsFiniteSet(calls \ {c}) /\ IsFiniteSet(unlanded \cup {add})
    <3> HIDE DEF add
    <3>1. QED
      BY FS_AddElement, FS_RemoveElement DEF Countable, RegistryInvariant
  <2>3. QED
    BY <1>1, <2>1, <2>2 DEF Countable, RegistryInvariant
<1>4. Shape'
  <2>1. \A p : Known(p)' <=> Known(p)
    BY <1>1 DEF Known, Patterns
  <2>2. QED
    BY <1>1, <1>2, <2>1, FieldNames DEF RegistryInvariant, Shape, Add
<1>5. \A e : /\ IsFiniteSet(Pending(e, {"seen"}))
             /\ IsFiniteSet(Pending(e, {"accepted"}))
             /\ IsFiniteSet(Pending(e, Judgements))
             /\ IsFiniteSet(Undecided(e)) /\ IsFiniteSet(Promising(e))
             /\ IsFiniteSet(Taken(e)) /\ IsFiniteSet(TakenGood(e))
  BY Weighable DEF RegistryInvariant
<1>6. \A e : HitsOf(e)' = HitsOf(e) /\ AcceptedOf(e)' = AcceptedOf(e)
  BY <1>1, SameHits
<1>7. ASSUME NEW e \in DOMAIN counters'
      PROVE  (SeenBalanced(e) /\ JudgedBalanced(e) /\ AcceptedBalanced(e))'
  <2>1. /\ e \in DOMAIN counters
        /\ SeenBalanced(e) /\ JudgedBalanced(e) /\ AcceptedBalanced(e)
        /\ counters[e].seen \in Nat /\ counters[e].accepted \in Nat
        /\ counters[e].rejected \in Nat
    BY <1>1 DEF RegistryInvariant, Balanced, Shape
  <2>2. /\ Pending(e, {"seen"})' = Pending(e, {"seen"})
        /\ Pending(e, {"accepted"})' = Pending(e, {"accepted"})
        /\ Pending(e, Judgements)' = Pending(e, Judgements)
    BY <1>1 DEF Pending, Add, Judgements
  <2>3. /\ Undecided(e)' = Undecided(e) /\ Promising(e)' = Promising(e)
        /\ Taken(e)' = Taken(e) /\ TakenGood(e)' = TakenGood(e)
    BY <1>1, <1>2, <1>6 DEF Undecided, Promising, Taken, TakenGood
  <2>4. QED
    BY <1>1, <2>1, <2>2, <2>3 DEF SeenBalanced, JudgedBalanced, AcceptedBalanced
<1>8. QED
  BY <1>3, <1>4, <1>7 DEF RegistryInvariant, Balanced

\* A hit of an unknown pattern is no extractor's.
LEMMA IgnoreUnknownKeeps ==
    ASSUME RegistryInvariant, NEW h, IgnoreUnknown(h)
    PROVE  RegistryInvariant'
<1>1. /\ UNCHANGED <<run, hits, extractors, phase, counters, unlanded, calls>>
      /\ todo' = todo \ {h}
  BY DEF IgnoreUnknown, Take, fixed
<1>2. h \in todo /\ h \in hits /\ ~Known(h.pattern)
  BY DEF IgnoreUnknown, Take, RegistryInvariant, Shape
<1>3. Countable'
  <2>1. hits' \ todo' = (hits \ todo) \cup {h}
    BY <1>1, <1>2
  <2>2. QED
    BY <1>1, <2>1, FS_AddElement DEF Countable, RegistryInvariant
<1>4. Shape'
  <2>1. \A p : Known(p)' <=> Known(p)
    BY <1>1 DEF Known, Patterns
  <2>2. QED
    BY <1>1, <1>2, <2>1, FieldNames DEF RegistryInvariant, Shape, Add
<1>5. \A e : /\ IsFiniteSet(Pending(e, {"seen"}))
             /\ IsFiniteSet(Pending(e, {"accepted"}))
             /\ IsFiniteSet(Pending(e, Judgements))
             /\ IsFiniteSet(Undecided(e)) /\ IsFiniteSet(Promising(e))
             /\ IsFiniteSet(Taken(e)) /\ IsFiniteSet(TakenGood(e))
  BY Weighable DEF RegistryInvariant
<1>6. \A e : HitsOf(e)' = HitsOf(e) /\ AcceptedOf(e)' = AcceptedOf(e)
  BY <1>1, SameHits
<1>7. ASSUME NEW e \in DOMAIN counters'
      PROVE  (SeenBalanced(e) /\ JudgedBalanced(e) /\ AcceptedBalanced(e))'
  <2>1. /\ e \in DOMAIN counters
        /\ SeenBalanced(e) /\ JudgedBalanced(e) /\ AcceptedBalanced(e)
        /\ counters[e].seen \in Nat /\ counters[e].accepted \in Nat
        /\ counters[e].rejected \in Nat
    BY <1>1 DEF RegistryInvariant, Balanced, Shape
  <2>2. /\ Pending(e, {"seen"})' = Pending(e, {"seen"})
        /\ Pending(e, {"accepted"})' = Pending(e, {"accepted"})
        /\ Pending(e, Judgements)' = Pending(e, Judgements)
    BY <1>1 DEF Pending, Judgements
  <2>3. /\ Undecided(e)' = Undecided(e) /\ Promising(e)' = Promising(e)
        /\ Taken(e)' = Taken(e) /\ TakenGood(e)' = TakenGood(e)
    BY <1>1, <1>2, <1>6
       DEF Undecided, Promising, Taken, TakenGood, AcceptedOf, HitsOf
  <2>4. QED
    BY <1>1, <2>1, <2>2, <2>3 DEF SeenBalanced, JudgedBalanced, AcceptedBalanced
<1>8. QED
  BY <1>3, <1>4, <1>7 DEF RegistryInvariant, Balanced

\* An increment that becomes visible moves its weight to the counter.
LEMMA LandKeeps ==
    ASSUME RegistryInvariant, NEW a \in unlanded, Land(a)
    PROVE  RegistryInvariant'
<1>1. /\ UNCHANGED <<run, hits, extractors, phase, todo, calls>>
      /\ unlanded' = unlanded \ {a}
      /\ counters' = [counters EXCEPT ![a.owner][a.field] = @ + a.amount]
      /\ DOMAIN counters' = DOMAIN counters
  BY DEF Land, fixed
<1>2. /\ phase # "building"
      /\ a.field \in {"seen", "accepted", "rejected", "emitted"}
      /\ a.field # "emitted" => a.amount = 1
  BY FieldNames DEF RegistryInvariant, Shape
<1>3. \A e \in DOMAIN counters :
        /\ counters[e].seen \in Nat /\ counters[e].accepted \in Nat
        /\ counters[e].rejected \in Nat
        /\ counters'[e] = IF e = a.owner
                          THEN [counters[e] EXCEPT ![a.field] = @ + a.amount]
                          ELSE counters[e]
        /\ DOMAIN counters[e] = {"seen", "accepted", "rejected", "emitted"}
        /\ counters[e] = [f \in DOMAIN counters[e] |-> counters[e][f]]
  <2>1. \A e \in DOMAIN counters :
          /\ counters[e] = [f \in ToSet(Fields) |-> counters[e][f]]
          /\ counters[e].seen \in Nat /\ counters[e].accepted \in Nat
          /\ counters[e].rejected \in Nat
    BY DEF RegistryInvariant, Shape
  <2>2. \A e \in DOMAIN counters :
          counters'[e] = IF e = a.owner
                         THEN [counters[e] EXCEPT ![a.field] = @ + a.amount]
                         ELSE counters[e]
    BY <1>1
  <2>3. \A e \in DOMAIN counters : DOMAIN counters[e] = ToSet(Fields)
    <3> SUFFICES ASSUME NEW e \in DOMAIN counters
                 PROVE  DOMAIN counters[e] = ToSet(Fields)
      OBVIOUS
    <3> DEFINE row == [f \in ToSet(Fields) |-> counters[e][f]]
    <3>1. counters[e] = row
      BY <2>1
    <3>2. DOMAIN row = ToSet(Fields)
      OBVIOUS
    <3>3. QED
      <4> HIDE DEF row
      <4>1. QED
        BY <3>1, <3>2
  <2>4. QED
    BY <2>1, <2>2, <2>3, FieldNames
<1>4. \A e \in DOMAIN counters :
        /\ counters'[e].seen = IF e = a.owner /\ a.field = "seen"
                              THEN counters[e].seen + 1 ELSE counters[e].seen
        /\ counters'[e].accepted = IF e = a.owner /\ a.field = "accepted"
                                  THEN counters[e].accepted + 1
                                  ELSE counters[e].accepted
        /\ counters'[e].rejected = IF e = a.owner /\ a.field = "rejected"
                                  THEN counters[e].rejected + 1
                                  ELSE counters[e].rejected
  BY <1>1, <1>2, <1>3
<1>5. Countable'
  <2>1. hits' \ todo' = hits \ todo
    BY <1>1
  <2>2. QED
    BY <1>1, <2>1, FS_RemoveElement DEF Countable, RegistryInvariant
<1>6. Shape'
  <2>1. \A p : Known(p)' <=> Known(p)
    BY <1>1 DEF Known, Patterns
  <2>2. counters' = [e \in DOMAIN counters' |-> counters'[e]]
    BY <1>1
  <2>3. \A e \in DOMAIN counters' :
          /\ counters'[e] = [f \in ToSet(Fields) |-> counters'[e][f]]
          /\ counters'[e].seen \in Nat /\ counters'[e].accepted \in Nat
          /\ counters'[e].rejected \in Nat
    <3> SUFFICES ASSUME NEW e \in DOMAIN counters
                 PROVE  /\ counters'[e] =
                              [f \in ToSet(Fields) |-> counters'[e][f]]
                        /\ counters'[e].seen \in Nat
                        /\ counters'[e].accepted \in Nat
                        /\ counters'[e].rejected \in Nat
      BY <1>1
    <3>1. DOMAIN counters[e] = ToSet(Fields)
      BY <1>3, FieldNames
    <3>2. CASE e = a.owner
      <4>1. counters'[e] = [counters[e] EXCEPT ![a.field] = @ + a.amount]
        BY <1>3, <3>2
      <4>2. counters'[e] = [f \in ToSet(Fields) |-> counters'[e][f]]
        BY <3>1, <4>1
      <4>3. /\ counters[e].seen \in Nat /\ counters[e].accepted \in Nat
            /\ counters[e].rejected \in Nat
        BY <1>3
      <4>4. /\ counters'[e].seen \in Nat /\ counters'[e].accepted \in Nat
            /\ counters'[e].rejected \in Nat
        BY <1>4, <4>3
      <4>5. QED
        BY <4>2, <4>4
    <3>3. CASE e # a.owner
      BY <1>3, <3>1, <3>3
    <3>4. QED
      BY <3>2, <3>3
  <2>4. QED
    BY <1>1, <1>2, <2>1, <2>2, <2>3 DEF RegistryInvariant, Shape
<1>7. \A e : /\ IsFiniteSet(Pending(e, {"seen"}))
             /\ IsFiniteSet(Pending(e, {"accepted"}))
             /\ IsFiniteSet(Pending(e, Judgements))
             /\ IsFiniteSet(Undecided(e)) /\ IsFiniteSet(Promising(e))
             /\ IsFiniteSet(Taken(e)) /\ IsFiniteSet(TakenGood(e))
  BY Weighable DEF RegistryInvariant
<1>8. \A e : HitsOf(e)' = HitsOf(e) /\ AcceptedOf(e)' = AcceptedOf(e)
  BY <1>1, SameHits
<1>9. ASSUME NEW e \in DOMAIN counters'
      PROVE  (SeenBalanced(e) /\ JudgedBalanced(e) /\ AcceptedBalanced(e))'
  <2>1. /\ e \in DOMAIN counters
        /\ SeenBalanced(e) /\ JudgedBalanced(e) /\ AcceptedBalanced(e)
        /\ counters[e].seen \in Nat /\ counters[e].accepted \in Nat
        /\ counters[e].rejected \in Nat
    BY <1>1 DEF RegistryInvariant, Balanced, Shape
  <2>2. /\ Undecided(e)' = Undecided(e) /\ Promising(e)' = Promising(e)
        /\ Taken(e)' = Taken(e) /\ TakenGood(e)' = TakenGood(e)
    BY <1>1, <1>8 DEF Undecided, Promising, Taken, TakenGood
  <2>3. /\ Sized(Undecided(e)) /\ Sized(Promising(e)) /\ Sized(Taken(e))
        /\ Sized(TakenGood(e))
        /\ Sized(Pending(e, {"seen"})) /\ Sized(Pending(e, {"accepted"}))
        /\ Sized(Pending(e, Judgements))
    BY <1>7, FS_CardinalityType DEF Sized
  <2>4. ASSUME NEW F, F = {"seen"} \/ F = {"accepted"} \/ F = Judgements
        PROVE  /\ AtMost(Pending(e, F), Pending(e, F)')
               /\ e = a.owner /\ a.field \in F =>
                     Less(Pending(e, F), Pending(e, F)')
    <3>1. IsFiniteSet(Pending(e, F)) /\ Pending(e, F)' = Pending(e, F) \ {a}
      BY <1>1, <1>7, <2>4 DEF Pending
    <3>2. e = a.owner /\ a.field \in F => a \in Pending(e, F)
      BY DEF Pending
    <3>3. QED
      BY <3>1, <3>2, PartOf, PartOfLess DEF AtMost, Less, Sized
  <2>5. /\ AtMost(Pending(e, {"seen"}), Pending(e, {"seen"})')
        /\ e = a.owner /\ a.field = "seen" =>
              Less(Pending(e, {"seen"}), Pending(e, {"seen"})')
    BY <2>4
  <2>6. /\ AtMost(Pending(e, {"accepted"}), Pending(e, {"accepted"})')
        /\ e = a.owner /\ a.field = "accepted" =>
              Less(Pending(e, {"accepted"}), Pending(e, {"accepted"})')
    BY <2>4
  <2>7. /\ AtMost(Pending(e, Judgements), Pending(e, Judgements)')
        /\ e = a.owner /\ a.field \in Judgements =>
              Less(Pending(e, Judgements), Pending(e, Judgements)')
    BY <2>4
  <2>8. SeenBalanced(e)'
    BY <1>1, <1>4, <2>1, <2>2, <2>3, <2>5
       DEF SeenBalanced, AtMost, Less, Sized
  <2>9. JudgedBalanced(e)'
    BY <1>1, <1>4, <2>1, <2>2, <2>3, <2>7
       DEF JudgedBalanced, AtMost, Less, Sized, Judgements
  <2>10. AcceptedBalanced(e)'
    BY <1>1, <1>4, <2>1, <2>2, <2>3, <2>6
       DEF AcceptedBalanced, AtMost, Less, Sized
  <2>11. QED
    BY <2>8, <2>9, <2>10
<1>10. QED
  BY <1>5, <1>6, <1>9 DEF RegistryInvariant, Balanced

-----------------------------------------------------------------------------
(* The theorems                                                            *)

\* Every step keeps the invariant.
LEMMA RegistrySteps == RegistryInvariant /\ [Next]_vars => RegistryInvariant'
<1> SUFFICES ASSUME RegistryInvariant, [Next]_vars PROVE RegistryInvariant'
  OBVIOUS
<1>1. CASE Register \/ Build
  BY <1>1, RegisterKeeps, BuildKeeps
<1>2. CASE Processing
  <2>1. CASE \E h \in todo : IgnoreUnknown(h) \/ Dispatch(h)
    BY <2>1, IgnoreUnknownKeeps, DispatchKeeps
  <2>2. CASE \E c \in calls : Reject(c) \/ Accept(c) \/ Emit(c)
    BY <2>2, RejectKeeps, AcceptKeeps, EmitKeeps
  <2>3. CASE \E add \in unlanded : Land(add)
    BY <2>3, LandKeeps
  <2>4. CASE Join
    BY <2>4, IdleStep DEF Join, fixed
  <2>5. QED
    BY <1>2, <2>1, <2>2, <2>3, <2>4 DEF Processing
<1>3. CASE StartDiagnostics \/ LoadCounter
  BY <1>3, IdleStep DEF StartDiagnostics, LoadCounter, fixed
<1>4. CASE Done \/ UNCHANGED vars
  BY <1>4, IdleStep DEF Done, vars
<1>5. QED
  BY <1>1, <1>2, <1>3, <1>4 DEF Next

\* What is visible and what is under way never outweigh the hits that were taken.
THEOREM RegistryCorrect == Spec => []RegistryInvariant
<1>1. QED
  BY RegistryStarts, RegistrySteps, PTL DEF Spec

\* No counter is ahead of the hits taken so far, in whatever order the threads
\* run and their relaxed increments become visible (registry.rs:117-151).
THEOREM CountersNeverAhead == Spec => []NeverOvercounts
<1>1. RegistryInvariant => NeverOvercounts
  <2> SUFFICES ASSUME RegistryInvariant, NEW e \in DOMAIN counters
               PROVE  /\ counters[e].seen <= Cardinality(HitsOf(e) \ todo)
                      /\ counters[e].accepted + counters[e].rejected
                            <= Cardinality(HitsOf(e) \ todo)
                      /\ counters[e].accepted <= Cardinality(AcceptedOf(e) \ todo)
    BY DEF NeverOvercounts
  <2>1. /\ Sized(Pending(e, {"seen"})) /\ Sized(Pending(e, {"accepted"}))
        /\ Sized(Pending(e, Judgements))
        /\ Sized(Undecided(e)) /\ Sized(Promising(e))
        /\ Sized(Taken(e)) /\ Sized(TakenGood(e))
    BY Weighable, FS_CardinalityType DEF RegistryInvariant, Sized
  <2>2. /\ SeenBalanced(e) /\ JudgedBalanced(e) /\ AcceptedBalanced(e)
        /\ counters[e].seen \in Nat /\ counters[e].accepted \in Nat
        /\ counters[e].rejected \in Nat
    BY DEF RegistryInvariant, Balanced, Shape
  <2>3. QED
    BY <2>1, <2>2 DEF SeenBalanced, JudgedBalanced, AcceptedBalanced, Sized,
                      Taken, TakenGood
<1>2. QED
  BY <1>1, RegistryCorrect, PTL
-----------------------------------------------------------------------------
(***************************************************************************)
(* What is counted in the end.  That no counter runs ahead is an           *)
(* inequality; that diagnostics are exact when the threads are joined      *)
(* takes an equality of every counter at every moment: the increments of   *)
(* each hit that were executed are known from the calls in progress, and   *)
(* a counter is what those amount to that are not under way any more.      *)
(***************************************************************************)

\* How far the processing of hit h is, and what it comes to.
Judged(h) == [step |-> "seen", hit |-> h] \notin calls
Answered(h) == Judged(h) /\ [step |-> "accepted", hit |-> h] \notin calls
Good(h) == ~Unreadable(h) /\ Verdict(h).ok
Answer(h) == IF Known(h.pattern) /\ Good(h) THEN Verdict(h).carved ELSE <<>>

\* The increment of the counter f of its owner was executed for hit h.
Executed(h, f) ==
    /\ h \in hits \ todo /\ Known(h.pattern)
    /\ f # "seen" => Judged(h)
    /\ f \in {"accepted", "emitted"} => Good(h)
    /\ f = "rejected" => ~Good(h)
    /\ f = "emitted" => Answered(h)

Amount(h, f) == IF f = "emitted" THEN Len(Verdict(h).carved) ELSE 1
Due(h, f) == Add(h, f, Amount(h, f))
Amounts(f) == [h \in hits |-> Amount(h, f)]

\* The hits whose increment of counter f of extractor e is visible.
Landed(e, f) == {h \in HitsOf(e) : Executed(h, f) /\ Due(h, f) \notin unlanded}

\* Where hits can be.
HitOffsets(c) == 0..Len(c.bytes) \cup {h.offset : h \in c.strays}

Registered ==
    /\ run \in Cases
    /\ extractors \in Seq(ToSet(run.kinds)) /\ Len(extractors) <= Len(run.kinds)
    /\ \A i \in 1..Len(extractors) : extractors[i] = run.kinds[i]
    /\ \A h \in hits : h.pattern \in Nat /\ h.offset \in HitOffsets(run)

\* Nothing is under way before the registry is built, and after the threads are
\* joined.
Quiet ==
    /\ phase = "building" => hits = {} /\ todo = {} /\ results = <<>>
    /\ phase = "joined" => todo = {} /\ calls = {} /\ unlanded = {}

UnderWay ==
    /\ \A a \in unlanded :
          a.field \in ToSet(Fields) /\ Executed(a.hit, a.field)
          /\ a = Due(a.hit, a.field)
    /\ \A c \in calls :
          /\ c.step \in {"seen", "accepted"} /\ c = [step |-> c.step, hit |-> c.hit]
          /\ c.step = "accepted" => Judged(c.hit) /\ Good(c.hit)

Answers ==
    /\ DOMAIN results = {h \in hits \ todo : Answered(h)}
    /\ \A h \in DOMAIN results : results[h] = Answer(h)

CountersType ==
    phase # "building" =>
        /\ counters = [e \in DOMAIN extractors |-> counters[e]]
        /\ \A e \in DOMAIN extractors :
              counters[e] = [f \in ToSet(Fields) |-> counters[e][f]]

Tallied ==
    phase # "building" =>
        \A e \in DOMAIN extractors : \A f \in ToSet(Fields) :
            counters[e][f] = Weight(Amounts(f), Landed(e, f))

ExactInvariant ==
    Registered /\ Quiet /\ UnderWay /\ Answers /\ CountersType /\ Tallied

\* What a reader that began after the join has loaded.
Read ==
    /\ reader \in [started : {"no", "running", "joined"}, snapshot : Seq(Nat)]
    /\ reader.started # "no" => phase # "building"
    /\ reader.started = "joined" =>
          /\ phase = "joined"
          /\ \A i \in 1..Len(reader.snapshot) :
                reader.snapshot[i] = counters[Loads[i].extractor][Loads[i].field]
-----------------------------------------------------------------------------
(* Hits and their owners                                                   *)

\* The signatures and their owners are as many.
LEMMA OwnersMatch ==
    ASSUME RegistryAssumption, Registered
    PROVE  /\ PatternOwner \in Seq(DOMAIN extractors)
           /\ Len(PatternOwner) = Len(Patterns)
           /\ Len(Patterns) \in Nat /\ DOMAIN Patterns = 1..Len(Patterns)
<1> DEFINE signed == [e \in DOMAIN extractors |-> extractors[e].signatures]
           owned == [e \in DOMAIN extractors |->
                       [s \in DOMAIN extractors[e].signatures |-> e]]
           All == UNION {ToSet(kind.signatures) : kind \in ToSet(run.kinds)}
<1>1. /\ DOMAIN extractors = 1..Len(extractors) /\ Len(extractors) \in Nat
      /\ \A e \in DOMAIN extractors : extractors[e] \in ToSet(run.kinds)
  BY DEF Registered
<1>2. \A kind \in ToSet(run.kinds) : kind.signatures \in Seq(ToSet(kind.signatures))
  BY DEF RegistryAssumption, Registered, IsSequence
<1>3. \A kind \in ToSet(run.kinds) : kind.signatures \in Seq(All)
  <2> SUFFICES ASSUME NEW kind \in ToSet(run.kinds)
               PROVE  kind.signatures \in Seq(All)
    OBVIOUS
  <2>1. kind.signatures \in Seq(ToSet(kind.signatures))
    BY <1>2
  <2>2. ToSet(kind.signatures) \subseteq All
    OBVIOUS
  <2> HIDE DEF All
  <2>3. QED
    BY <2>1, <2>2
<1> HIDE DEF All
<1>4. \A e \in DOMAIN extractors :
        /\ extractors[e].signatures \in Seq(All)
        /\ DOMAIN extractors[e].signatures = 1..Len(extractors[e].signatures)
        /\ Len(extractors[e].signatures) \in Nat
  BY <1>1, <1>3
<1>5. signed \in Seq(Seq(All)) /\ Len(signed) = Len(extractors)
  <2>1. signed \in [1..Len(extractors) -> Seq(All)]
    BY <1>1, <1>4
  <2> HIDE DEF signed
  <2>2. QED
    BY <1>1, <2>1, FunctionIsSequence
<1>6. \A e \in DOMAIN extractors :
        /\ owned[e] \in Seq(DOMAIN extractors)
        /\ Len(owned[e]) = Len(extractors[e].signatures)
  <2> SUFFICES ASSUME NEW e \in DOMAIN extractors
               PROVE  /\ owned[e] \in Seq(DOMAIN extractors)
                      /\ Len(owned[e]) = Len(extractors[e].signatures)
    OBVIOUS
  <2>1. owned[e] \in [1..Len(extractors[e].signatures) -> DOMAIN extractors]
    BY <1>4
  <2> HIDE DEF owned
  <2>2. QED
    BY <1>4, <2>1, FunctionIsSequence
<1>7. owned \in Seq(Seq(DOMAIN extractors)) /\ Len(owned) = Len(extractors)
  <2>1. owned \in [1..Len(extractors) -> Seq(DOMAIN extractors)]
    <3>1. owned = [e \in 1..Len(extractors) |-> owned[e]]
      BY <1>1
    <3> HIDE DEF owned
    <3>2. QED
      BY <1>1, <1>6, <3>1
  <2> HIDE DEF owned
  <2>2. QED
    BY <1>1, <2>1, FunctionIsSequence
<1>8. \A e \in 1..Len(signed) : Len(owned[e]) = Len(signed[e])
  <2>1. \A e \in DOMAIN extractors : signed[e] = extractors[e].signatures
    OBVIOUS
  <2> HIDE DEF signed, owned
  <2>2. QED
    BY <1>1, <1>5, <1>6, <2>1
<1>9. Patterns = FlattenSeq(signed) /\ PatternOwner = FlattenSeq(owned)
  BY DEF Patterns, PatternOwner
<1> HIDE DEF signed, owned
<1>10. FlattenSeq(signed) \in Seq(All)
  BY <1>5, FlattenType
<1>11. FlattenSeq(owned) \in Seq(DOMAIN extractors)
  BY <1>7, FlattenType
<1>12. Len(FlattenSeq(owned)) = Len(FlattenSeq(signed))
  BY <1>5, <1>7, <1>8, FlattenLength
<1>13. QED
  BY <1>9, <1>10, <1>11, <1>12

\* A hit of a known pattern has an owner, ...
LEMMA OwnerType ==
    ASSUME RegistryAssumption, Registered, NEW h \in hits, Known(h.pattern)
    PROVE  Owner(h.pattern) \in DOMAIN extractors
<1>1. /\ PatternOwner \in Seq(DOMAIN extractors)
      /\ Len(PatternOwner) = Len(Patterns) /\ Len(Patterns) \in Nat
  BY OwnersMatch
<1>2. h.pattern \in Nat /\ h.pattern < Len(Patterns)
  BY DEF Registered, Known
<1>3. h.pattern + 1 \in 1..Len(PatternOwner)
  BY <1>1, <1>2
<1>4. QED
  BY <1>1, <1>3 DEF Owner

\* ... and when that accepts the candidate it answers with artefacts.
LEMMA CarvedType ==
    ASSUME RegistryAssumption, Registered, NEW h \in hits, Known(h.pattern), Good(h)
    PROVE  Len(Verdict(h).carved) \in Nat
<1> DEFINE kind == extractors[Owner(h.pattern)]
           answer == Extract(kind, h.offset, SubSeq(run.bytes, h.offset + 1,
                             h.offset + Reach(kind, run.bytes, h.offset)))
<1>1. kind \in ToSet(run.kinds)
  BY OwnerType DEF Registered
<1>2. run \in Cases /\ h.offset \in HitOffsets(run)
  BY DEF Registered
<1>3. answer.ok => Len(answer.carved) \in Nat
  <2> HIDE DEF kind
  <2>1. QED
    BY <1>1, <1>2 DEF RegistryAssumption, HitOffsets
<1>4. Verdict(h) = answer
  BY DEF Verdict, WindowBytes, Window
<1>5. QED
  BY <1>3, <1>4 DEF Good

\* Nothing about a hit but its progress changes while hits are processed.
LEMMA SameWork ==
    ASSUME UNCHANGED <<run, hits, extractors>>
    PROVE  /\ \A p : (Known(p)' <=> Known(p)) /\ Owner(p)' = Owner(p)
           /\ \A h : /\ (Good(h)' <=> Good(h)) /\ Answer(h)' = Answer(h)
                     /\ Verdict(h)' = Verdict(h)
           /\ \A h, f : Due(h, f)' = Due(h, f) /\ Amount(h, f)' = Amount(h, f)
           /\ \A f : Amounts(f)' = Amounts(f)
           /\ \A e : HitsOf(e)' = HitsOf(e)
<1>1. \A p : (Known(p)' <=> Known(p)) /\ Owner(p)' = Owner(p)
  BY DEF Known, Owner, Patterns, PatternOwner
<1>2. \A h : (Unreadable(h)' <=> Unreadable(h)) /\ Verdict(h)' = Verdict(h)
  BY <1>1 DEF Unreadable, Verdict, Window, WindowBytes
<1>3. \A h : Good(h)' <=> Good(h)
  BY <1>2 DEF Good
<1>4. \A h : Answer(h)' = Answer(h)
  BY <1>1, <1>2, <1>3 DEF Answer
<1>5. \A h, f : Amount(h, f)' = Amount(h, f)
  BY <1>2 DEF Amount
<1>6. \A h, f : Due(h, f)' = Due(h, f)
  BY <1>1, <1>5 DEF Due, Add
<1>7. \A f : Amounts(f)' = Amounts(f)
  BY <1>5 DEF Amounts
<1>8. \A e : HitsOf(e)' = HitsOf(e)
  BY <1>1 DEF HitsOf
<1>9. QED
  BY <1>1, <1>2, <1>3, <1>4, <1>5, <1>6, <1>7, <1>8
-----------------------------------------------------------------------------
(* The steps, exactly                                                      *)

\* The increments under way are those of hits that are that far.
UnlandedDue ==
    \A a \in unlanded : a.field \in ToSet(Fields) /\ Executed(a.hit, a.field)
                        /\ a = Due(a.hit, a.field)
CallsKnown ==
    \A c \in calls :
        /\ c.step \in {"seen", "accepted"} /\ c = [step |-> c.step, hit |-> c.hit]
        /\ c.step = "accepted" => Judged(c.hit) /\ Good(c.hit)

\* The counters of an extractor are those of Fields.
LEMMA ShapeOf ==
    ASSUME CountersType, phase # "building"
    PROVE  /\ DOMAIN counters = DOMAIN extractors
           /\ \A e \in DOMAIN extractors : DOMAIN counters[e] = ToSet(Fields)
<1> DEFINE all == [e \in DOMAIN extractors |-> counters[e]]
<1>1. counters = all
  BY DEF CountersType
<1>2. DOMAIN all = DOMAIN extractors
  OBVIOUS
<1>3. DOMAIN counters = DOMAIN extractors
  <2> HIDE DEF all
  <2>1. QED
    BY <1>1, <1>2
<1>4. ASSUME NEW e \in DOMAIN extractors PROVE DOMAIN counters[e] = ToSet(Fields)
  <2> DEFINE row == [f \in ToSet(Fields) |-> counters[e][f]]
  <2>1. counters[e] = row
    BY DEF CountersType
  <2>2. DOMAIN row = ToSet(Fields)
    OBVIOUS
  <2> HIDE DEF row
  <2>3. QED
    BY <2>1, <2>2
<1>5. QED
  BY <1>3, <1>4

\* What has landed can be weighed.
LEMMA LandedWeighs ==
    ASSUME RegistryAssumption, RegistryInvariant, Registered,
           NEW e, NEW f \in ToSet(Fields)
    PROVE  /\ IsFiniteSet(Landed(e, f))
           /\ IsFiniteSet(Units(Amounts(f), Landed(e, f)))
           /\ Weight(Amounts(f), Landed(e, f)) \in Nat
<1>1. Landed(e, f) \subseteq hits \ todo
  BY DEF Landed, Executed
<1>2. IsFiniteSet(Landed(e, f))
  BY <1>1, FS_Subset DEF RegistryInvariant, Countable
<1>3. \A h \in Landed(e, f) : Amounts(f)[h] \in Nat
  <2> SUFFICES ASSUME NEW h \in Landed(e, f) PROVE Amounts(f)[h] \in Nat
    OBVIOUS
  <2>1. h \in hits /\ Known(h.pattern) /\ (f = "emitted" => Good(h))
    BY DEF Landed, Executed
  <2>2. Amount(h, f) \in Nat
    BY <2>1, CarvedType DEF Amount
  <2>3. QED
    BY <2>1, <2>2 DEF Amounts
<1>4. QED
  BY <1>2, <1>3, WeightType

\* An increment that is executed and under way counts for nothing yet.
LEMMA ExecutesOne ==
    ASSUME Registered, CountersType, Tallied, UnlandedDue,
           UNCHANGED <<run, hits, extractors, counters>>, phase # "building",
           NEW h0, NEW f0 \in ToSet(Fields), ~Executed(h0, f0),
           unlanded' = unlanded \cup {Due(h0, f0)},
           \A h : \A f \in ToSet(Fields) :
               Executed(h, f)' <=> Executed(h, f) \/ (h = h0 /\ f = f0)
    PROVE  Registered' /\ CountersType' /\ Tallied' /\ UnlandedDue'
<1>1. Registered'
  BY DEF Registered
<1>2. CountersType'
  BY DEF CountersType
<1>3. /\ \A h, f : Due(h, f)' = Due(h, f)
      /\ \A f : Amounts(f)' = Amounts(f)
      /\ \A e : HitsOf(e)' = HitsOf(e)
  BY SameWork
<1>4. \A h, f : Due(h, f).hit = h /\ Due(h, f).field = f
  BY DEF Due, Add
<1>5. UnlandedDue'
  <2> SUFFICES ASSUME NEW a \in unlanded'
               PROVE  /\ a.field \in ToSet(Fields) /\ Executed(a.hit, a.field)'
                      /\ a = Due(a.hit, a.field)'
    BY DEF UnlandedDue
  <2>1. CASE a \in unlanded
    BY <2>1, <1>3 DEF UnlandedDue
  <2>2. CASE a = Due(h0, f0)
    BY <2>2, <1>3, <1>4
  <2>3. QED
    BY <2>1, <2>2
<1>6. ASSUME NEW e, NEW f \in ToSet(Fields) PROVE Landed(e, f)' = Landed(e, f)
  <2>1. \A h : Due(h, f)' \in unlanded' <=>
                   Due(h, f) \in unlanded \/ (h = h0 /\ f = f0)
    BY <1>3, <1>4
  <2>2. \A h : Executed(h, f)' /\ Due(h, f)' \notin unlanded' <=>
                   Executed(h, f) /\ Due(h, f) \notin unlanded
    BY <2>1
  <2>3. QED
    BY <1>3, <2>2 DEF Landed
<1>7. Tallied'
  <2>1. \A e, f : f \in ToSet(Fields) =>
            Weight(Amounts(f), Landed(e, f))' = Weight(Amounts(f), Landed(e, f))
    BY <1>3, <1>6 DEF Weight, Units
  <2>2. QED
    BY <2>1 DEF Tallied
<1>8. QED
  BY <1>1, <1>2, <1>5, <1>7

\* A step that executes nothing.
LEMMA ExecutesNone ==
    ASSUME Registered, CountersType, Tallied, UnlandedDue,
           UNCHANGED <<run, hits, extractors, counters, unlanded>>,
           phase # "building",
           \A h : \A f \in ToSet(Fields) : Executed(h, f)' <=> Executed(h, f)
    PROVE  Registered' /\ CountersType' /\ Tallied' /\ UnlandedDue'
<1>1. Registered'
  BY DEF Registered
<1>2. CountersType'
  BY DEF CountersType
<1>3. /\ \A h, f : Due(h, f)' = Due(h, f)
      /\ \A f : Amounts(f)' = Amounts(f)
      /\ \A e : HitsOf(e)' = HitsOf(e)
  BY SameWork
<1>4. UnlandedDue'
  BY <1>3 DEF UnlandedDue
<1>5. \A e : \A f \in ToSet(Fields) : Landed(e, f)' = Landed(e, f)
  BY <1>3 DEF Landed
<1>6. Tallied'
  <2>1. \A e, f : f \in ToSet(Fields) =>
            Weight(Amounts(f), Landed(e, f))' = Weight(Amounts(f), Landed(e, f))
    BY <1>3, <1>5 DEF Weight, Units
  <2>2. QED
    BY <2>1 DEF Tallied
<1>7. QED
  BY <1>1, <1>2, <1>4, <1>6

\* The invariant is made of those parts.
LEMMA ExactParts ==
    ExactInvariant <=> Registered /\ Quiet /\ UnlandedDue /\ CallsKnown
                       /\ Answers /\ CountersType /\ Tallied
<1>1. QED
  BY DEF ExactInvariant, UnderWay, UnlandedDue, CallsKnown

\* An answer more.
LEMMA Returned ==
    ASSUME Answers, UNCHANGED <<run, hits, extractors>>, NEW h0, h0 \in hits \ todo',
           Return(h0, Answer(h0)),
           \A h : (h \in hits \ todo /\ Answered(h)) \/ h = h0 <=>
                  (h \in hits \ todo /\ Answered(h))' 
    PROVE  Answers'
<1>1. \A h : Answer(h)' = Answer(h)
  BY SameWork
<1>2. results' = [g \in DOMAIN results \cup {h0} |->
                     IF g = h0 THEN Answer(h0) ELSE results[g]]
  BY DEF Return
<1>3. DOMAIN results' = DOMAIN results \cup {h0}
  BY <1>2
<1>4. \A g \in DOMAIN results' :
          results'[g] = IF g = h0 THEN Answer(h0) ELSE results[g]
  BY <1>2
<1>5. DOMAIN results' = {h \in hits \ todo : Answered(h)}'
  BY <1>3 DEF Answers
<1>6. \A h \in DOMAIN results' : results'[h] = Answer(h)'
  BY <1>1, <1>3, <1>4 DEF Answers
<1>7. QED
  BY <1>5, <1>6 DEF Answers

\* The hit that is taken was seen.
LEMMA DispatchExact ==
    ASSUME RegistryInvariant, ExactInvariant, NEW h0, Dispatch(h0)
    PROVE  ExactInvariant'
<1> DEFINE call == [step |-> "seen", hit |-> h0]
<1>1. /\ UNCHANGED <<run, hits, extractors, phase, counters, results>>
      /\ unlanded' = unlanded \cup {Add(h0, "seen", 1)}
      /\ calls' = calls \cup {call} /\ todo' = todo \ {h0}
      /\ phase = "running" /\ h0 \in todo /\ h0 \in hits /\ Known(h0.pattern)
  BY DEF Dispatch, Take, fixed, RegistryInvariant, Shape
<1>2. /\ Registered /\ Quiet /\ UnlandedDue /\ CallsKnown /\ Answers
      /\ CountersType /\ Tallied
  BY ExactParts
<1>3. \A c \in calls : c.hit # h0
  BY <1>1 DEF RegistryInvariant, Shape
<1>4. /\ \A h : Judged(h)' <=> Judged(h) /\ h # h0
      /\ Judged(h0) /\ Answered(h0)
      /\ \A h : Answered(h)' <=> Answered(h) /\ h # h0
  BY <1>1, <1>3 DEF Judged, Answered
<1>5. /\ \A p : Known(p)' <=> Known(p)
      /\ \A h : Good(h)' <=> Good(h)
  BY <1>1, SameWork
<1>6. Add(h0, "seen", 1) = Due(h0, "seen") /\ "seen" \in ToSet(Fields)
  BY FieldNames DEF Due, Amount
<1>7. \A h : \A f \in ToSet(Fields) :
          Executed(h, f)' <=> Executed(h, f) \/ (h = h0 /\ f = "seen")
  <2> SUFFICES ASSUME NEW h, NEW f \in {"seen", "accepted", "rejected", "emitted"}
               PROVE  Executed(h, f)' <=> Executed(h, f) \/ (h = h0 /\ f = "seen")
    BY FieldNames
  <2>1. CASE h = h0
    BY <1>1, <1>4, <1>5, <2>1 DEF Executed
  <2>2. CASE h # h0
    BY <1>1, <1>4, <1>5, <2>2 DEF Executed
  <2>3. QED
    BY <2>1, <2>2
<1>8. ~Executed(h0, "seen")
  BY <1>1 DEF Executed
<1>9. Registered' /\ CountersType' /\ Tallied' /\ UnlandedDue'
  BY <1>1, <1>2, <1>6, <1>7, <1>8, ExecutesOne
<1>10. CallsKnown'
  BY <1>1, <1>2, <1>3, <1>4, <1>5 DEF CallsKnown
<1>11. Quiet'
  BY <1>1 DEF Quiet
<1>12. Answers'
  <2>1. \A h : (h \in hits \ todo /\ Answered(h))' <=>
               h \in hits \ todo /\ Answered(h)
    BY <1>1, <1>4
  <2>2. \A h : Answer(h)' = Answer(h)
    BY <1>1, SameWork
  <2>3. QED
    BY <1>1, <1>2, <2>1, <2>2 DEF Answers
<1>13. QED
  BY <1>9, <1>10, <1>11, <1>12 DEF ExactInvariant, UnderWay, UnlandedDue, CallsKnown

\* A hit of an unknown pattern comes to nothing.
LEMMA IgnoreUnknownExact ==
    ASSUME RegistryInvariant, ExactInvariant, NEW h0, IgnoreUnknown(h0)
    PROVE  ExactInvariant'
<1>1. /\ UNCHANGED <<run, hits, extractors, phase, counters, unlanded, calls>>
      /\ todo' = todo \ {h0} /\ phase = "running" /\ h0 \in todo /\ h0 \in hits
      /\ ~Known(h0.pattern) /\ Return(h0, <<>>)
  BY DEF IgnoreUnknown, Take, fixed, RegistryInvariant, Shape
<1>2. /\ Registered /\ Quiet /\ UnlandedDue /\ CallsKnown /\ Answers
      /\ CountersType /\ Tallied
  BY ExactParts
<1>3. \A c \in calls : c.hit # h0
  BY <1>1 DEF RegistryInvariant, Shape
<1>4. /\ \A h : (Judged(h)' <=> Judged(h)) /\ (Answered(h)' <=> Answered(h))
      /\ Answered(h0)
  BY <1>1, <1>3 DEF Judged, Answered
<1>5. /\ \A p : Known(p)' <=> Known(p)
      /\ \A h : Good(h)' <=> Good(h)
  BY <1>1, SameWork
<1>6. \A h : \A f \in ToSet(Fields) : Executed(h, f)' <=> Executed(h, f)
  BY <1>1, <1>4, <1>5 DEF Executed
<1>7. Registered' /\ CountersType' /\ Tallied' /\ UnlandedDue'
  BY <1>1, <1>2, <1>6, ExecutesNone
<1>8. CallsKnown' /\ Quiet'
  BY <1>1, <1>2, <1>4, <1>5 DEF CallsKnown, Quiet
<1>9. Answers'
  <2>1. Answer(h0) = <<>>
    BY <1>1 DEF Answer
  <2>2. \A h : (h \in hits \ todo /\ Answered(h)) \/ h = h0 <=>
               (h \in hits \ todo /\ Answered(h))'
    BY <1>1, <1>4
  <2>3. Return(h0, Answer(h0)) /\ h0 \in hits \ todo'
    BY <1>1, <2>1
  <2>4. QED
    BY <1>1, <1>2, <2>2, <2>3, Returned
<1>10. QED
  BY <1>7, <1>8, <1>9 DEF ExactInvariant, UnderWay, UnlandedDue, CallsKnown

\* A refused candidate is counted as rejected and answered with nothing.
LEMMA RejectExact ==
    ASSUME RegistryInvariant, ExactInvariant, NEW c \in calls, Reject(c)
    PROVE  ExactInvariant'
<1> DEFINE h0 == c.hit
<1>1. /\ UNCHANGED <<run, hits, extractors, phase, counters, todo>>
      /\ unlanded' = unlanded \cup {Add(h0, "rejected", 1)}
      /\ calls' = calls \ {c} /\ c.step = "seen" /\ ~Good(h0)
      /\ Return(h0, <<>>) /\ phase # "building" /\ phase # "joined"
      /\ h0 \in hits \ todo /\ Known(h0.pattern)
  BY DEF Reject, fixed, RegistryInvariant, Shape, Good, ExactInvariant, Quiet
<1>2. /\ Registered /\ Quiet /\ UnlandedDue /\ CallsKnown /\ Answers
      /\ CountersType /\ Tallied
  BY ExactParts
<1>3. c = [step |-> "seen", hit |-> h0] /\ ~Judged(h0)
      /\ [step |-> "accepted", hit |-> h0] \notin calls
  BY <1>1, <1>2 DEF CallsKnown, Judged
<1> HIDE DEF h0
<1>4. /\ \A h : Judged(h)' <=> Judged(h) \/ h = h0
      /\ \A h : Answered(h)' <=> Answered(h) \/ h = h0
  BY <1>1, <1>3 DEF Judged, Answered
<1>5. /\ \A p : Known(p)' <=> Known(p)
      /\ \A h : Good(h)' <=> Good(h)
  BY <1>1, SameWork
<1>6. Add(h0, "rejected", 1) = Due(h0, "rejected") /\ "rejected" \in ToSet(Fields)
  BY FieldNames DEF Due, Amount
<1>7. \A h : \A f \in ToSet(Fields) :
          Executed(h, f)' <=> Executed(h, f) \/ (h = h0 /\ f = "rejected")
  <2> SUFFICES ASSUME NEW h, NEW f \in {"seen", "accepted", "rejected", "emitted"}
               PROVE  Executed(h, f)' <=>
                          Executed(h, f) \/ (h = h0 /\ f = "rejected")
    BY FieldNames
  <2>1. CASE h = h0
    BY <1>1, <1>3, <1>4, <1>5, <2>1 DEF Executed
  <2>2. CASE h # h0
    BY <1>1, <1>4, <1>5, <2>2 DEF Executed
  <2>3. QED
    BY <2>1, <2>2
<1>8. ~Executed(h0, "rejected")
  BY <1>3 DEF Executed
<1>9. Registered' /\ CountersType' /\ Tallied' /\ UnlandedDue'
  BY <1>1, <1>2, <1>6, <1>7, <1>8, ExecutesOne
<1>10. CallsKnown' /\ Quiet'
  BY <1>1, <1>2, <1>4, <1>5 DEF CallsKnown, Quiet
<1>11. Answers'
  <2>1. Return(h0, Answer(h0)) /\ h0 \in hits \ todo'
    BY <1>1 DEF Answer
  <2>2. \A h : (h \in hits \ todo /\ Answered(h)) \/ h = h0 <=>
               (h \in hits \ todo /\ Answered(h))'
    BY <1>1, <1>4
  <2>3. QED
    BY <1>1, <1>2, <2>1, <2>2, Returned
<1>12. QED
  BY <1>9, <1>10, <1>11 DEF ExactInvariant, UnderWay, UnlandedDue, CallsKnown

\* An accepted candidate is counted as accepted, and not yet answered.
LEMMA AcceptExact ==
    ASSUME RegistryInvariant, ExactInvariant, NEW c \in calls, Accept(c)
    PROVE  ExactInvariant'
<1> DEFINE h0 == c.hit
           call == [step |-> "accepted", hit |-> h0]
<1>1. /\ UNCHANGED <<run, hits, extractors, phase, counters, todo, results>>
      /\ unlanded' = unlanded \cup {Add(h0, "accepted", 1)}
      /\ calls' = (calls \ {c}) \cup {call} /\ c.step = "seen" /\ Good(h0)
      /\ phase # "building" /\ phase # "joined"
      /\ h0 \in hits \ todo /\ Known(h0.pattern)
  BY DEF Accept, fixed, RegistryInvariant, Shape, Good, ExactInvariant, Quiet
<1>2. /\ Registered /\ Quiet /\ UnlandedDue /\ CallsKnown /\ Answers
      /\ CountersType /\ Tallied
  BY ExactParts
<1>3. c = [step |-> "seen", hit |-> h0] /\ ~Judged(h0) /\ ~Answered(h0)
  BY <1>1, <1>2 DEF CallsKnown, Judged, Answered
<1> HIDE DEF h0
<1>4. /\ \A h : Judged(h)' <=> Judged(h) \/ h = h0
      /\ \A h : Answered(h)' <=> Answered(h)
  BY <1>1, <1>3 DEF Judged, Answered
<1>5. /\ \A p : Known(p)' <=> Known(p)
      /\ \A h : Good(h)' <=> Good(h)
  BY <1>1, SameWork
<1>6. Add(h0, "accepted", 1) = Due(h0, "accepted") /\ "accepted" \in ToSet(Fields)
  BY FieldNames DEF Due, Amount
<1>7. \A h : \A f \in ToSet(Fields) :
          Executed(h, f)' <=> Executed(h, f) \/ (h = h0 /\ f = "accepted")
  <2> SUFFICES ASSUME NEW h, NEW f \in {"seen", "accepted", "rejected", "emitted"}
               PROVE  Executed(h, f)' <=>
                          Executed(h, f) \/ (h = h0 /\ f = "accepted")
    BY FieldNames
  <2>1. CASE h = h0
    BY <1>1, <1>3, <1>4, <1>5, <2>1 DEF Executed
  <2>2. CASE h # h0
    BY <1>1, <1>4, <1>5, <2>2 DEF Executed
  <2>3. QED
    BY <2>1, <2>2
<1>8. ~Executed(h0, "accepted")
  BY <1>3 DEF Executed
<1>9. Registered' /\ CountersType' /\ Tallied' /\ UnlandedDue'
  BY <1>1, <1>2, <1>6, <1>7, <1>8, ExecutesOne
<1>10. CallsKnown' /\ Quiet'
  <2>1. CallsKnown'
    BY <1>1, <1>2, <1>4, <1>5 DEF CallsKnown
  <2>2. QED
    BY <1>1, <2>1 DEF Quiet
<1>11. Answers'
  <2>1. \A h : Answer(h)' = Answer(h)
    BY <1>1, SameWork
  <2>2. QED
    BY <1>1, <1>2, <1>4, <2>1 DEF Answers
<1>12. QED
  BY <1>9, <1>10, <1>11 DEF ExactInvariant, UnderWay, UnlandedDue, CallsKnown

\* Its artefacts are counted as they are returned.
LEMMA EmitExact ==
    ASSUME RegistryInvariant, ExactInvariant, NEW c \in calls, Emit(c)
    PROVE  ExactInvariant'
<1> DEFINE h0 == c.hit
<1>1. /\ UNCHANGED <<run, hits, extractors, phase, counters, todo>>
      /\ unlanded' = unlanded \cup {Add(h0, "emitted", Len(Verdict(h0).carved))}
      /\ calls' = calls \ {c} /\ c.step = "accepted"
      /\ Return(h0, Verdict(h0).carved) /\ phase # "building" /\ phase # "joined"
      /\ h0 \in hits \ todo /\ Known(h0.pattern)
  BY DEF Emit, fixed, RegistryInvariant, Shape, ExactInvariant, Quiet
<1>2. /\ Registered /\ Quiet /\ UnlandedDue /\ CallsKnown /\ Answers
      /\ CountersType /\ Tallied
  BY ExactParts
<1>3. /\ c = [step |-> "accepted", hit |-> h0] /\ Judged(h0) /\ Good(h0)
      /\ ~Answered(h0)
  BY <1>1, <1>2 DEF CallsKnown, Answered
<1> HIDE DEF h0
<1>4. /\ \A h : Judged(h)' <=> Judged(h)
      /\ \A h : Answered(h)' <=> Answered(h) \/ h = h0
  BY <1>1, <1>3 DEF Judged, Answered
<1>5. /\ \A p : Known(p)' <=> Known(p)
      /\ \A h : Good(h)' <=> Good(h)
  BY <1>1, SameWork
<1>6. /\ Add(h0, "emitted", Len(Verdict(h0).carved)) = Due(h0, "emitted")
      /\ "emitted" \in ToSet(Fields)
  BY FieldNames DEF Due, Amount
<1>7. \A h : \A f \in ToSet(Fields) :
          Executed(h, f)' <=> Executed(h, f) \/ (h = h0 /\ f = "emitted")
  <2> SUFFICES ASSUME NEW h, NEW f \in {"seen", "accepted", "rejected", "emitted"}
               PROVE  Executed(h, f)' <=>
                          Executed(h, f) \/ (h = h0 /\ f = "emitted")
    BY FieldNames
  <2>1. CASE h = h0
    BY <1>1, <1>3, <1>4, <1>5, <2>1 DEF Executed
  <2>2. CASE h # h0
    BY <1>1, <1>4, <1>5, <2>2 DEF Executed
  <2>3. QED
    BY <2>1, <2>2
<1>8. ~Executed(h0, "emitted")
  BY <1>3 DEF Executed
<1>9. Registered' /\ CountersType' /\ Tallied' /\ UnlandedDue'
  BY <1>1, <1>2, <1>6, <1>7, <1>8, ExecutesOne
<1>10. CallsKnown' /\ Quiet'
  BY <1>1, <1>2, <1>4, <1>5 DEF CallsKnown, Quiet
<1>11. Answers'
  <2>1. Return(h0, Answer(h0)) /\ h0 \in hits \ todo'
    BY <1>1, <1>3 DEF Answer
  <2>2. \A h : (h \in hits \ todo /\ Answered(h)) \/ h = h0 <=>
               (h \in hits \ todo /\ Answered(h))'
    BY <1>1, <1>4
  <2>3. QED
    BY <1>1, <1>2, <2>1, <2>2, Returned
<1>12. QED
  BY <1>9, <1>10, <1>11 DEF ExactInvariant, UnderWay, UnlandedDue, CallsKnown

\* An increment that lands is counted.
LEMMA LandExact ==
    ASSUME RegistryAssumption, RegistryInvariant, ExactInvariant,
           NEW a \in unlanded, Land(a)
    PROVE  ExactInvariant'
<1> DEFINE h0 == a.hit
           e0 == a.owner
           f0 == a.field
<1>1. /\ UNCHANGED <<run, hits, extractors, phase, todo, calls, results>>
      /\ unlanded' = unlanded \ {a}
      /\ counters' = [counters EXCEPT ![e0][f0] = @ + a.amount]
      /\ phase # "building"
  BY DEF Land, fixed, RegistryInvariant, Shape
<1>2. /\ Registered /\ Quiet /\ UnlandedDue /\ CallsKnown /\ Answers
      /\ CountersType /\ Tallied
  BY ExactParts
<1>3. f0 \in ToSet(Fields) /\ Executed(h0, f0) /\ a = Due(h0, f0)
  BY <1>2 DEF UnlandedDue
<1>4. e0 = Owner(h0.pattern) /\ a.amount = Amount(h0, f0)
  BY <1>3 DEF Due, Add
<1> HIDE DEF h0, e0, f0
<1>5. h0 \in hits /\ h0 \in hits \ todo /\ Known(h0.pattern)
      /\ (f0 = "emitted" => Good(h0))
  BY <1>3 DEF Executed
<1>6. e0 \in DOMAIN extractors /\ h0 \in HitsOf(e0)
  BY <1>2, <1>4, <1>5, OwnerType DEF HitsOf
<1>7. /\ \A h, f : Due(h, f)' = Due(h, f)
      /\ \A f : Amounts(f)' = Amounts(f)
      /\ \A e : HitsOf(e)' = HitsOf(e)
      /\ \A p : Known(p)' <=> Known(p)
      /\ \A h : Good(h)' <=> Good(h)
      /\ \A h : Answer(h)' = Answer(h)
  BY <1>1, SameWork
<1>8. \A h : (Judged(h)' <=> Judged(h)) /\ (Answered(h)' <=> Answered(h))
  BY <1>1 DEF Judged, Answered
<1>9. \A h, f : Executed(h, f)' <=> Executed(h, f)
  BY <1>1, <1>7, <1>8 DEF Executed
<1>10. Registered' /\ CallsKnown' /\ Answers' /\ UnlandedDue'
  <2>1. Registered'
    BY <1>1, <1>2 DEF Registered
  <2>2. CallsKnown' /\ UnlandedDue'
    BY <1>1, <1>2, <1>7, <1>8, <1>9 DEF CallsKnown, UnlandedDue
  <2>3. Answers'
    BY <1>1, <1>2, <1>7, <1>8 DEF Answers
  <2>4. QED
    BY <2>1, <2>2, <2>3
<1>11. Quiet'
  BY <1>1, <1>2 DEF Quiet
<1>12. /\ DOMAIN counters = DOMAIN extractors
       /\ \A e \in DOMAIN extractors : DOMAIN counters[e] = ToSet(Fields)
  BY <1>1, <1>2, ShapeOf
<1>13. \A e \in DOMAIN extractors :
         counters'[e] = IF e = e0 THEN [counters[e] EXCEPT ![f0] = @ + a.amount]
                                  ELSE counters[e]
  BY <1>1, <1>12
<1>14. \A e \in DOMAIN extractors : \A f \in ToSet(Fields) :
         counters'[e][f] = IF e = e0 /\ f = f0 THEN counters[e][f] + a.amount
                                               ELSE counters[e][f]
  BY <1>12, <1>13
<1>15. CountersType'
  <2>1. counters' = [e \in DOMAIN extractors |-> counters'[e]]
    BY <1>1, <1>12
  <2>2. ASSUME NEW e \in DOMAIN extractors
        PROVE  counters'[e] = [f \in ToSet(Fields) |-> counters'[e][f]]
    <3>1. DOMAIN counters[e] = ToSet(Fields)
          /\ counters[e] = [f \in ToSet(Fields) |-> counters[e][f]]
      BY <1>1, <1>2, <1>12 DEF CountersType
    <3>2. CASE e = e0
      BY <1>13, <3>1, <3>2
    <3>3. CASE e # e0
      BY <1>13, <3>1, <3>3
    <3>4. QED
      BY <3>2, <3>3
  <2>3. QED
    BY <1>1, <2>1, <2>2 DEF CountersType
<1>16. \A h, f : Due(h, f) = a <=> h = h0 /\ f = f0
  BY <1>3 DEF Due, Add
<1>17. ASSUME NEW e, NEW f \in ToSet(Fields)
       PROVE  /\ e = e0 /\ f = f0 => Landed(e, f)' = Landed(e, f) \cup {h0}
              /\ ~(e = e0 /\ f = f0) => Landed(e, f)' = Landed(e, f)
  <2>1. \A h : Due(h, f)' \notin unlanded' <=>
                   Due(h, f) \notin unlanded \/ (h = h0 /\ f = f0)
    BY <1>1, <1>7, <1>16
  <2>2. h0 \in HitsOf(e) => e = e0
    BY <1>4 DEF HitsOf
  <2>3. QED
    BY <1>3, <1>6, <1>7, <1>9, <2>1, <2>2 DEF Landed
<1>18. h0 \notin Landed(e0, f0)
  BY <1>3 DEF Landed
<1>19. Tallied'
  <2> SUFFICES ASSUME NEW e \in DOMAIN extractors, NEW f \in ToSet(Fields)
               PROVE  counters'[e][f] = Weight(Amounts(f), Landed(e, f))'
    BY <1>1 DEF Tallied
  <2>1. counters[e][f] = Weight(Amounts(f), Landed(e, f))
    BY <1>1, <1>2 DEF Tallied
  <2>2. Weight(Amounts(f), Landed(e, f))' = Weight(Amounts(f), Landed(e, f)')
    BY <1>7 DEF Weight, Units
  <2>3. CASE e = e0 /\ f = f0
    <3> DEFINE w == Amounts(f0)
    <3>1. w[h0] = a.amount /\ w[h0] \in Nat
      <4>1. Amount(h0, f0) \in Nat
        BY <1>2, <1>5, CarvedType DEF Amount
      <4>2. QED
        BY <1>4, <1>5, <4>1 DEF Amounts
    <3>2. IsFiniteSet(Units(w, Landed(e0, f0)))
      BY <1>2, <1>3, LandedWeighs
    <3> HIDE DEF w
    <3>3. Weight(w, Landed(e0, f0) \cup {h0}) = Weight(w, Landed(e0, f0)) + w[h0]
      BY <1>18, <3>1, <3>2, WeightOfMore
    <3>4. QED
      BY <1>14, <1>17, <2>1, <2>2, <2>3, <3>1, <3>3 DEF w
  <2>4. CASE ~(e = e0 /\ f = f0)
    BY <1>14, <1>17, <2>1, <2>2, <2>4
  <2>5. QED
    BY <2>3, <2>4
<1>20. QED
  BY <1>10, <1>11, <1>15, <1>19 DEF ExactInvariant, UnderWay, UnlandedDue, CallsKnown

\* Nothing is counted before the registry is built.
LEMMA ExactStarts == Init => ExactInvariant
<1> SUFFICES ASSUME Init PROVE ExactInvariant
  OBVIOUS
<1>1. Registered
  BY DEF Init, Registered
<1>2. Quiet /\ UnderWay /\ CountersType /\ Tallied
  BY DEF Init, Quiet, UnderWay, CountersType, Tallied
<1>3. Answers
  BY DEF Init, Answers
<1>4. QED
  BY <1>1, <1>2, <1>3 DEF ExactInvariant

\* Registering an extractor follows the order of the kinds.
LEMMA RegisterExact ==
    ASSUME RegistryAssumption, RegistryInvariant, ExactInvariant, Register
    PROVE  ExactInvariant'
<1>1. /\ UNCHANGED <<run, hits, phase, counters, unlanded, todo, calls, results>>
      /\ phase = "building" /\ Len(extractors) < Len(run.kinds)
      /\ extractors' = Append(extractors, run.kinds[Len(extractors) + 1])
  BY DEF Register, fixed
<1>2. unlanded = {} /\ calls = {} /\ hits = {} /\ results = <<>>
  BY <1>1 DEF RegistryInvariant, Shape, ExactInvariant, Quiet
<1>3. run.kinds \in Seq(ToSet(run.kinds)) /\ run \in Cases
  BY DEF RegistryAssumption, ExactInvariant, Registered, IsSequence
<1>4. Registered'
  <2> DEFINE n == Len(extractors)
             next == run.kinds[n + 1]
  <2>1. /\ extractors \in Seq(ToSet(run.kinds)) /\ n \in Nat
        /\ \A i \in 1..n : extractors[i] = run.kinds[i]
    BY DEF ExactInvariant, Registered
  <2>2. n + 1 \in 1..Len(run.kinds) /\ next \in ToSet(run.kinds)
    BY <1>1, <1>3, <2>1
  <2> HIDE DEF next
  <2>3. /\ Append(extractors, next) \in Seq(ToSet(run.kinds))
        /\ Len(Append(extractors, next)) = n + 1
        /\ \A i \in 1..n : Append(extractors, next)[i] = extractors[i]
        /\ Append(extractors, next)[n + 1] = next
    BY <2>1, <2>2
  <2>4. \A i \in 1 .. n + 1 : i \in 1..n \/ i = n + 1
    BY <2>1
  <2>5. \A i \in 1 .. n + 1 : extractors'[i] = run.kinds[i]
    <3> HIDE DEF n
    <3>1. QED
      BY <1>1, <2>1, <2>3, <2>4 DEF next, n
  <2>6. /\ extractors' \in Seq(ToSet(run.kinds)) /\ Len(extractors') = n + 1
        /\ n + 1 <= Len(run.kinds)
    BY <1>1, <2>2, <2>3 DEF next
  <2> HIDE DEF n
  <2>7. QED
    BY <1>1, <1>2, <1>3, <2>5, <2>6 DEF Registered
<1>5. Quiet' /\ UnderWay' /\ CountersType' /\ Tallied'
  BY <1>1, <1>2 DEF ExactInvariant, Quiet, UnderWay, CountersType, Tallied
<1>6. Answers'
  BY <1>1, <1>2 DEF Answers
<1>7. QED
  BY <1>4, <1>5, <1>6 DEF ExactInvariant

\* The hits are those of the scan, and nothing of them is done.
LEMMA BuildExact ==
    ASSUME RegistryAssumption, RegistryInvariant, ExactInvariant, Build
    PROVE  ExactInvariant'
<1>1. /\ UNCHANGED <<run, extractors, unlanded, calls, results>>
      /\ phase = "building" /\ phase' = "running" /\ extractors = run.kinds
      /\ hits' = Found \cup run.strays /\ todo' = hits'
      /\ counters' = [e \in DOMAIN extractors |-> Zero]
  BY DEF Build
<1>2. unlanded = {} /\ calls = {} /\ results = <<>>
  BY <1>1 DEF RegistryInvariant, Shape, ExactInvariant, Quiet
<1>3. Registered /\ run \in Cases
  BY DEF ExactInvariant, Registered
<1>4. \A h \in Found : h.pattern \in Nat /\ h.offset \in 0..Len(run.bytes)
  <2> DEFINE bytes == [i \in DOMAIN run.bytes |-> run.bytes[i].magic]
  <2>1. run.bytes \in Seq(ToSet(run.bytes))
    BY <1>3 DEF RegistryAssumption, IsSequence
  <2>2. Len(bytes) = Len(run.bytes) /\ Len(run.bytes) \in Nat
    <3>1. DOMAIN run.bytes = 1..Len(run.bytes) /\ Len(run.bytes) \in Nat
      BY <2>1
    <3>2. bytes \in [1..Len(run.bytes) -> {bytes[i] : i \in 1..Len(run.bytes)}]
      BY <3>1
    <3> HIDE DEF bytes
    <3>3. QED
      BY <3>1, <3>2, FunctionIsSequence
  <2>3. Found = {[offset |-> h.offset, pattern |-> h.pattern - 1] :
                    h \in Scan!Occurrences(Patterns, bytes)}
    BY DEF Found
  <2> HIDE DEF bytes
  <2>4. \A h \in Scan!Occurrences(Patterns, bytes) :
            h.offset \in 0 .. Len(bytes) - 1 /\ h.pattern \in DOMAIN Patterns
    BY DEF Scan!Occurrences, Scan!Hits
  <2>5. DOMAIN Patterns = 1..Len(Patterns) /\ Len(Patterns) \in Nat
    BY <1>3, OwnersMatch
  <2> SUFFICES ASSUME NEW g \in Found
               PROVE  g.pattern \in Nat /\ g.offset \in 0..Len(run.bytes)
    OBVIOUS
  <2>6. PICK h \in Scan!Occurrences(Patterns, bytes) :
            g = [offset |-> h.offset, pattern |-> h.pattern - 1]
    BY <2>3
  <2>7. h.offset \in 0 .. Len(bytes) - 1 /\ h.pattern \in 1..Len(Patterns)
    BY <2>4, <2>5
  <2>8. h.offset \in 0..Len(run.bytes) /\ h.pattern - 1 \in Nat
    BY <2>2, <2>5, <2>7
  <2>9. QED
    BY <2>6, <2>8
<1>5. \A h \in run.strays : h.pattern \in Nat /\ h.offset \in HitOffsets(run)
  BY <1>3 DEF RegistryAssumption, HitOffsets
<1>6. Registered'
  <2>1. \A h \in hits' : h.pattern \in Nat /\ h.offset \in HitOffsets(run)
    BY <1>1, <1>4, <1>5 DEF HitOffsets
  <2>2. QED
    BY <1>1, <1>3, <2>1 DEF Registered
<1>7. Quiet' /\ UnderWay'
  BY <1>1, <1>2 DEF Quiet, UnderWay
<1>8. Answers'
  BY <1>1, <1>2 DEF Answers
<1>9. /\ \A e \in DOMAIN extractors : counters'[e] = Zero
      /\ counters' = [e \in DOMAIN extractors |-> counters'[e]]
  BY <1>1
<1>10. CountersType'
  BY <1>1, <1>9 DEF CountersType, Zero
<1>11. Tallied'
  <2> SUFFICES ASSUME NEW e \in DOMAIN extractors, NEW f \in ToSet(Fields)
               PROVE  counters'[e][f] = Weight(Amounts(f), Landed(e, f))'
    BY <1>1 DEF Tallied
  <2>1. Landed(e, f)' = {}
    BY <1>1 DEF Landed, Executed
  <2>2. Weight(Amounts(f), Landed(e, f))' = Weight(Amounts(f)', {})
    BY <2>1 DEF Weight, Units
  <2>3. Weight(Amounts(f)', {}) = 0
    <3> DEFINE w == Amounts(f)'
    <3> HIDE DEF w
    <3>1. Weight(w, {}) = 0
      BY WeightOfNone
    <3>2. QED
      BY <3>1 DEF w
  <2>4. counters'[e][f] = 0
    BY <1>9 DEF Zero
  <2>5. QED
    BY <2>2, <2>3, <2>4
<1>12. QED
  BY <1>6, <1>7, <1>8, <1>10, <1>11 DEF ExactInvariant

\* Joining the threads and reading the counters changes none of it.
LEMMA IdleExact ==
    ASSUME ExactInvariant,
           UNCHANGED <<run, hits, extractors, counters, unlanded, todo, calls, results>>,
           phase' = phase \/ (phase = "running" /\ phase' = "joined" /\ todo = {}
                              /\ calls = {} /\ unlanded = {})
    PROVE  ExactInvariant'
<1>1. /\ Registered /\ Quiet /\ UnlandedDue /\ CallsKnown /\ Answers
      /\ CountersType /\ Tallied
  BY ExactParts
<1>2. /\ \A h : (Judged(h)' <=> Judged(h)) /\ (Answered(h)' <=> Answered(h))
      /\ \A p : Known(p)' <=> Known(p)
      /\ \A h : (Good(h)' <=> Good(h)) /\ Answer(h)' = Answer(h)
      /\ \A h, f : Due(h, f)' = Due(h, f)
  BY SameWork DEF Judged, Answered
<1>3. \A h, f : Executed(h, f)' <=> Executed(h, f)
  BY <1>2 DEF Executed
<1>4. CallsKnown' /\ Answers' /\ Quiet'
  <2>1. CallsKnown'
    BY <1>1, <1>2 DEF CallsKnown
  <2>2. Answers'
    BY <1>1, <1>2 DEF Answers
  <2>3. Quiet'
    BY <1>1 DEF Quiet
  <2>4. QED
    BY <2>1, <2>2, <2>3
<1>5. Registered' /\ CountersType' /\ Tallied' /\ UnlandedDue'
  <2>1. CASE phase # "building"
    BY <1>1, <1>3, <2>1, ExecutesNone
  <2>2. CASE phase = "building"
    <3>1. Registered' /\ CountersType' /\ Tallied'
      BY <1>1, <2>2 DEF Registered, CountersType, Tallied
    <3>2. UnlandedDue'
      BY <1>1, <1>2, <1>3 DEF UnlandedDue
    <3>3. QED
      BY <3>1, <3>2
  <2>3. QED
    BY <2>1, <2>2
<1>6. QED
  BY <1>4, <1>5 DEF ExactInvariant, UnderWay, UnlandedDue, CallsKnown

\* Every step keeps the invariant.
LEMMA ExactSteps ==
    ASSUME RegistryAssumption
    PROVE  RegistryInvariant /\ ExactInvariant /\ [Next]_vars => ExactInvariant'
<1> SUFFICES ASSUME RegistryInvariant, ExactInvariant, [Next]_vars
             PROVE  ExactInvariant'
  OBVIOUS
<1>1. CASE Register \/ Build
  BY <1>1, RegisterExact, BuildExact
<1>2. CASE Processing
  <2>1. CASE \E h \in todo : IgnoreUnknown(h) \/ Dispatch(h)
    BY <2>1, IgnoreUnknownExact, DispatchExact
  <2>2. CASE \E c \in calls : Reject(c) \/ Accept(c) \/ Emit(c)
    BY <2>2, RejectExact, AcceptExact, EmitExact
  <2>3. CASE \E add \in unlanded : Land(add)
    BY <2>3, LandExact
  <2>4. CASE Join
    BY <2>4, IdleExact DEF Join, fixed
  <2>5. QED
    BY <1>2, <2>1, <2>2, <2>3, <2>4 DEF Processing
<1>3. CASE StartDiagnostics \/ LoadCounter
  BY <1>3, IdleExact DEF StartDiagnostics, LoadCounter, fixed
<1>4. CASE Done \/ UNCHANGED vars
  BY <1>4, IdleExact DEF Done, vars
<1>5. QED
  BY <1>1, <1>2, <1>3, <1>4 DEF Next
-----------------------------------------------------------------------------
(* The reader                                                              *)

\* Each load is of a counter of an extractor.
LEMMA LoadsType ==
    ASSUME Registered
    PROVE  /\ Len(extractors) \in Nat /\ Len(Loads) = 4 * Len(extractors)
           /\ DOMAIN Loads = 1..Len(Loads) /\ Len(Loads) \in Nat
           /\ \A i \in DOMAIN Loads : /\ Loads[i].extractor \in DOMAIN extractors
                                      /\ Loads[i].field \in ToSet(Fields)
<1> DEFINE n == 4 * Len(extractors)
<1>1. /\ DOMAIN extractors = 1..Len(extractors) /\ Len(extractors) \in Nat
      /\ n \in Nat
  BY DEF Registered
<1>2. ASSUME NEW i \in 1..n
      PROVE  /\ (i + 3) \div 4 \in 1..Len(extractors)
             /\ ((i - 1) % 4) + 1 \in 1..4
  BY <1>1
<1>3. \A i \in 1..4 : Fields[i] \in ToSet(Fields)
  <2>1. DOMAIN Fields = 1..4
    BY DEF Fields
  <2>2. QED
    BY <2>1 DEF ToSet
<1>4. /\ \A i \in 1..n : /\ Loads[i].extractor = (i + 3) \div 4
                         /\ Loads[i].field = Fields[((i - 1) % 4) + 1]
      /\ DOMAIN Loads = 1..n
  BY DEF Loads
<1>5. Len(Loads) = n
  <2>1. Loads = [i \in 1..n |-> Loads[i]]
    BY <1>4 DEF Loads
  <2>2. Loads \in [1..n -> {Loads[i] : i \in 1..n}]
    <3> HIDE DEF n
    <3>1. QED
      BY <2>1
  <2> HIDE DEF n
  <2>3. QED
    BY <1>1, <2>2, FunctionIsSequence
<1> HIDE DEF n
<1>6. \A i \in 1..n : /\ Loads[i].extractor \in 1..Len(extractors)
                      /\ Loads[i].field \in ToSet(Fields)
  BY <1>2, <1>3, <1>4
<1>7. QED
  BY <1>1, <1>4, <1>5, <1>6 DEF n

\* Nobody reads at first.
LEMMA ReadStarts == Init => Read
<1>1. QED
  BY DEF Init, Read

\* A step of the reader or of the threads it reads beside.
LEMMA ReadSteps ==
    ASSUME RegistryAssumption
    PROVE  RegistryInvariant /\ ExactInvariant /\ Read /\ [Next]_vars => Read'
<1> SUFFICES ASSUME RegistryInvariant, ExactInvariant, Read, [Next]_vars
             PROVE  Read'
  OBVIOUS
<1>1. CASE Register \/ Build
  <2>1. phase = "building" /\ reader' = reader
    BY <1>1 DEF Register, Build
  <2>2. reader.started = "no"
    BY <2>1 DEF Read
  <2>3. QED
    BY <2>1, <2>2 DEF Read
<1>2. CASE Processing
  <2>1. /\ reader' = reader
        /\ phase' = phase \/ phase' = "joined"
    BY <1>2 DEF Processing, IgnoreUnknown, Dispatch, Reject, Accept, Emit, Land, Join
  <2>2. phase # "joined"
    BY <1>2 DEF Processing, IgnoreUnknown, Dispatch, Take, Join, ExactInvariant, Quiet
  <2>3. QED
    BY <2>1, <2>2 DEF Read
<1>3. CASE StartDiagnostics
  BY <1>3 DEF StartDiagnostics, Read, RegistryInvariant, Shape
<1>4. CASE LoadCounter
  <2> DEFINE n == Len(reader.snapshot)
             value == counters[Loads[n + 1].extractor][Loads[n + 1].field]
  <2>1. /\ n < Len(Loads) /\ reader.started # "no" /\ phase # "building"
        /\ reader' = [reader EXCEPT !.snapshot = Append(@, value)]
        /\ UNCHANGED <<extractors, phase, counters>>
    BY <1>4 DEF LoadCounter, Read, fixed
  <2>2. reader.snapshot \in Seq(Nat) /\ n \in Nat
    BY DEF Read
  <2>3. n + 1 \in DOMAIN Loads
    BY <2>1, <2>2, LoadsType DEF ExactInvariant
  <2>4. value \in Nat
    <3>1. /\ Loads[n + 1].extractor \in DOMAIN extractors
          /\ Loads[n + 1].field \in ToSet(Fields)
      BY <2>3, LoadsType DEF ExactInvariant
    <3> HIDE DEF n
    <3>2. QED
      BY <2>1, <3>1, LandedWeighs DEF ExactInvariant, Tallied
  <2> HIDE DEF value
  <2>5. /\ reader'.started = reader.started
        /\ reader'.snapshot = Append(reader.snapshot, value)
    <3> DEFINE more == Append(reader.snapshot, value)
    <3>1. reader' = [reader EXCEPT !.snapshot = more]
      BY <2>1
    <3> HIDE DEF more
    <3>2. QED
      BY <3>1 DEF more, Read
  <2>6. /\ reader'.snapshot \in Seq(Nat) /\ Len(reader'.snapshot) = n + 1
        /\ \A i \in 1..n : reader'.snapshot[i] = reader.snapshot[i]
        /\ reader'.snapshot[n + 1] = value
    BY <2>2, <2>4, <2>5
  <2>7. Loads' = Loads
    BY <2>1 DEF Loads
  <2>8. ASSUME reader.started = "joined", NEW i \in 1..Len(reader'.snapshot)
        PROVE  reader'.snapshot[i] = counters'[Loads'[i].extractor][Loads'[i].field]
    <3>1. i \in 1..n \/ i = n + 1
      BY <2>2, <2>6
    <3>2. \A j \in 1..n :
              reader.snapshot[j] = counters[Loads[j].extractor][Loads[j].field]
      BY <2>8 DEF Read
    <3> HIDE DEF n
    <3>3. QED
      BY <2>1, <2>6, <2>7, <3>1, <3>2 DEF value
  <2>9. QED
    BY <2>1, <2>5, <2>6, <2>8 DEF Read
<1>5. CASE Done \/ UNCHANGED vars
  <2>1. UNCHANGED <<reader, phase, counters, extractors>>
    BY <1>5 DEF Done, vars
  <2>2. QED
    BY <2>1 DEF Read, Loads
<1>6. QED
  BY <1>1, <1>2, <1>3, <1>4, <1>5 DEF Next
-----------------------------------------------------------------------------
(* What follows                                                            *)

\* In every case, at every moment, each counter is what its landed increments
\* amount to, each answer is what the extractor gave, and what a reader loaded
\* after the join is what the counters are (registry.rs:113-165).
THEOREM CountersExact ==
    Spec => [](RegistryInvariant /\ ExactInvariant /\ Read)
<1>1. Init => RegistryInvariant /\ ExactInvariant /\ Read
  BY RegistryStarts, ExactStarts, ReadStarts
<1>2. RegistryInvariant /\ ExactInvariant /\ Read /\ [Next]_vars
         => (RegistryInvariant /\ ExactInvariant /\ Read)'
  BY RegistryAssumption, RegistrySteps, ExactSteps, ReadSteps
<1>3. QED
  BY <1>1, <1>2, PTL DEF Spec

\* There is one set of counters per extractor, and every increment under way
\* belongs to a hit that was taken and to its owner (registry.rs:117-151).
THEOREM TypeCorrect == Spec => []TypeOK
<1>1. ASSUME RegistryAssumption, RegistryInvariant, ExactInvariant, Read
      PROVE  TypeOK
  <2>1. /\ phase \in {"building", "running", "joined"} /\ todo \subseteq hits
    BY <1>1 DEF RegistryInvariant, Shape
  <2>2. IsPrefix(extractors, run.kinds)
    <3> DEFINE n == Len(extractors)
    <3>1. /\ extractors \in Seq(ToSet(run.kinds)) /\ n \in Nat
          /\ n <= Len(run.kinds) /\ run.kinds \in Seq(ToSet(run.kinds))
          /\ \A i \in 1..n : extractors[i] = run.kinds[i]
      BY <1>1 DEF ExactInvariant, Registered, RegistryAssumption, IsSequence
    <3>2. n \in 0..Len(run.kinds) /\ n \in 0..Len(extractors)
      BY <3>1
    <3> DEFINE front == SubSeq(run.kinds, 1, n)
               whole == SubSeq(extractors, 1, n)
    <3>3. /\ front \in Seq(ToSet(run.kinds)) /\ Len(front) = n
          /\ \A i \in 1..n : front[i] = run.kinds[i]
      BY <3>1, <3>2, FrontOf
    <3>4. /\ whole \in Seq(ToSet(run.kinds)) /\ Len(whole) = n
          /\ \A i \in 1..n : whole[i] = extractors[i]
      BY <3>1, <3>2, FrontOf
    <3>5. front = whole
      <4> HIDE DEF front, whole, n
      <4>1. QED
        BY <3>1, <3>3, <3>4
    <3>6. QED
      BY <3>1, <3>5 DEF IsPrefix
  <2>3. phase # "building" =>
            counters \in [DOMAIN extractors -> [ToSet(Fields) -> Nat]]
    <3> SUFFICES ASSUME phase # "building"
                 PROVE  counters \in [DOMAIN extractors -> [ToSet(Fields) -> Nat]]
      OBVIOUS
    <3>1. \A e \in DOMAIN extractors : \A f \in ToSet(Fields) : counters[e][f] \in Nat
      BY <1>1, LandedWeighs DEF ExactInvariant, Tallied
    <3>2. \A e \in DOMAIN extractors : counters[e] \in [ToSet(Fields) -> Nat]
      BY <1>1, <3>1 DEF ExactInvariant, CountersType
    <3>3. counters = [e \in DOMAIN extractors |-> counters[e]]
      BY <1>1 DEF ExactInvariant, CountersType
    <3>4. QED
      BY <3>2, <3>3
  <2>4. ASSUME NEW add \in unlanded
        PROVE  /\ add.hit \in hits \ todo /\ add.owner \in DOMAIN extractors
               /\ add.field \in ToSet(Fields) /\ add.amount \in Nat
    <3>1. /\ Registered /\ add.field \in ToSet(Fields)
          /\ Executed(add.hit, add.field) /\ add = Due(add.hit, add.field)
      BY <1>1 DEF ExactInvariant, UnderWay
    <3>2. /\ add.hit \in hits \ todo /\ add.hit \in hits
          /\ Known(add.hit.pattern) /\ (add.field = "emitted" => Good(add.hit))
      BY <3>1 DEF Executed
    <3>3. add.owner = Owner(add.hit.pattern) /\ add.amount = Amount(add.hit, add.field)
      BY <3>1 DEF Due, Add
    <3>4. add.owner \in DOMAIN extractors
      BY <1>1, <3>1, <3>2, <3>3, OwnerType
    <3>5. add.amount \in Nat
      BY <1>1, <3>1, <3>2, <3>3, CarvedType DEF Amount
    <3>6. QED
      BY <3>1, <3>2, <3>4, <3>5
  <2>5. calls \subseteq Call
    <3> SUFFICES ASSUME NEW c \in calls PROVE c \in Call
      OBVIOUS
    <3>1. /\ c.step \in {"seen", "accepted"}
          /\ c = [step |-> c.step, hit |-> c.hit] /\ c.hit \in hits
      BY <1>1 DEF ExactInvariant, UnderWay, RegistryInvariant, Shape
    <3>2. QED
      BY <3>1 DEF Call
  <2>6. DOMAIN results \subseteq hits \ todo
    BY <1>1 DEF ExactInvariant, Answers
  <2>7. /\ reader.snapshot \in Seq(Nat)
        /\ reader.started \in {"no", "running", "joined"}
    BY <1>1 DEF Read
  <2>8. QED
    BY <2>1, <2>2, <2>3, <2>4, <2>5, <2>6, <2>7 DEF TypeOK
<1>2. QED
  BY <1>1, CountersExact, RegistryAssumption, PTL

\* When the threads are joined the counters are the tallies.
LEMMA JoinedTallies ==
    ASSUME RegistryAssumption, RegistryInvariant, ExactInvariant,
           phase = "joined", NEW e \in DOMAIN extractors, NEW f \in ToSet(Fields)
    PROVE  counters[e][f] = Tally(e)[f]
<1>1. /\ todo = {} /\ calls = {} /\ unlanded = {}
      /\ counters[e][f] = Weight(Amounts(f), Landed(e, f))
  BY DEF ExactInvariant, Quiet, Tallied
<1>2. \A h : Judged(h) /\ Answered(h)
  BY <1>1 DEF Judged, Answered
<1>3. HitsOf(e) \subseteq hits /\ AcceptedOf(e) \subseteq HitsOf(e)
      /\ IsFiniteSet(HitsOf(e)) /\ IsFiniteSet(AcceptedOf(e))
  <2>1. HitsOf(e) \subseteq hits \ todo /\ AcceptedOf(e) \subseteq HitsOf(e)
    BY <1>1 DEF HitsOf, AcceptedOf
  <2>2. QED
    BY <2>1, FS_Subset DEF RegistryInvariant, Countable
<1>4. /\ Landed(e, "seen") = HitsOf(e)
      /\ Landed(e, "accepted") = AcceptedOf(e)
      /\ Landed(e, "rejected") = HitsOf(e) \ AcceptedOf(e)
      /\ Landed(e, "emitted") = AcceptedOf(e)
  BY <1>1, <1>2 DEF Landed, Executed, HitsOf, AcceptedOf, Good
<1>5. /\ Tally(e)["seen"] = Cardinality(HitsOf(e))
      /\ Tally(e)["accepted"] = Cardinality(AcceptedOf(e))
      /\ Tally(e)["rejected"] = Cardinality(HitsOf(e) \ AcceptedOf(e))
      /\ Tally(e)["emitted"] = SumFunction([h \in HitsOf(e) |-> Len(results[h])])
  BY DEF Tally
<1>6. ASSUME f # "emitted", NEW S, S \subseteq HitsOf(e)
      PROVE  Weight(Amounts(f), S) = Cardinality(S)
  <2>1. \A h \in S : Amounts(f)[h] = 1
    BY <1>3, <1>6 DEF Amounts, Amount
  <2>2. IsFiniteSet(S)
    BY <1>3, <1>6, FS_Subset
  <2>3. QED
    BY <2>1, <2>2, WeightOfOnes
<1>7. CASE f = "seen" \/ f = "accepted" \/ f = "rejected"
  BY <1>1, <1>3, <1>4, <1>5, <1>6, <1>7
<1>8. CASE f = "emitted"
  <2> DEFINE lengths == [h \in HitsOf(e) |-> Len(results[h])]
             w == Amounts("emitted")
  <2>1. \A h \in HitsOf(e) :
            /\ results[h] = Answer(h) /\ lengths[h] = Len(results[h])
            /\ h \in AcceptedOf(e) <=> Good(h)
            /\ Known(h.pattern) /\ h \in hits
    <3>1. \A h \in HitsOf(e) : h \in DOMAIN results /\ results[h] = Answer(h)
      BY <1>1, <1>2, <1>3 DEF ExactInvariant, Answers
    <3>2. \A h \in HitsOf(e) : h \in AcceptedOf(e) <=> Good(h)
      BY DEF AcceptedOf, Good
    <3>3. \A h \in HitsOf(e) : lengths[h] = Len(results[h])
      OBVIOUS
    <3>4. QED
      BY <3>1, <3>2, <3>3 DEF HitsOf
  <2>2. /\ DOMAIN lengths = HitsOf(e)
        /\ \A h \in HitsOf(e) : lengths[h] = Len(results[h])
    OBVIOUS
  <2> HIDE DEF lengths
  <2>3. \A h \in AcceptedOf(e) : lengths[h] = w[h] /\ w[h] \in Nat
    <3> SUFFICES ASSUME NEW h \in AcceptedOf(e)
                 PROVE  lengths[h] = w[h] /\ w[h] \in Nat
      OBVIOUS
    <3>1. /\ h \in HitsOf(e) /\ h \in hits /\ Known(h.pattern) /\ Good(h)
          /\ results[h] = Answer(h)
      BY <1>3, <2>1
    <3>2. lengths[h] = Len(Verdict(h).carved)
      BY <2>1, <3>1 DEF Answer
    <3>3. w[h] = Len(Verdict(h).carved)
      BY <3>1 DEF Amounts, Amount
    <3>4. Len(Verdict(h).carved) \in Nat
      BY <3>1, CarvedType DEF ExactInvariant
    <3>5. QED
      BY <3>2, <3>3, <3>4
  <2>4. \A h \in HitsOf(e) \ AcceptedOf(e) : lengths[h] = 0
    BY <2>1 DEF Answer
  <2> HIDE DEF w
  <2>5. Units(lengths, HitsOf(e)) = Units(w, AcceptedOf(e))
    <3>1. Units(w, AcceptedOf(e)) \subseteq Units(lengths, HitsOf(e))
      BY <1>3, <2>3 DEF Units
    <3>2. ASSUME NEW u \in Units(lengths, HitsOf(e))
          PROVE  u \in Units(w, AcceptedOf(e))
      <4>1. u \in HitsOf(e) \X Nat /\ u[2] \in 1..lengths[u[1]] /\ u[1] \in HitsOf(e)
        BY DEF Units
      <4>2. u[1] \in AcceptedOf(e)
        BY <2>4, <4>1
      <4>3. u[2] \in 1..w[u[1]]
        BY <2>3, <4>1, <4>2
      <4>4. u \in AcceptedOf(e) \X Nat
        BY <4>1, <4>2
      <4>5. QED
        BY <4>3, <4>4 DEF Units
    <3>3. QED
      BY <3>1, <3>2
  <2>6. SumFunction(lengths) = Weight(lengths, HitsOf(e))
    <3>1. \A h \in HitsOf(e) : lengths[h] \in Nat
      BY <2>3, <2>4
    <3>2. IsFiniteSet(DOMAIN lengths) /\ \A h \in DOMAIN lengths : lengths[h] \in Nat
      BY <1>3, <2>2, <3>1
    <3>3. SumFunction(lengths) = Weight(lengths, DOMAIN lengths)
      BY <3>2, SumIsWeight
    <3>4. QED
      BY <2>2, <3>3
  <2>7. Weight(lengths, HitsOf(e)) = Weight(w, AcceptedOf(e))
    BY <2>5 DEF Weight
  <2>8. QED
    BY <1>1, <1>4, <1>5, <1>8, <2>6, <2>7 DEF lengths, w
<1>9. QED
  BY <1>7, <1>8, FieldNames

\* Diagnostics asked for after the processing threads are joined account for
\* every hit of a known pattern exactly once, as accepted or as rejected, and
\* for exactly the artefacts that were returned, however the threads were
\* scheduled and the relaxed increments became visible (registry.rs:113-165).
THEOREM DiagnosticsExact == Spec => []DiagnosticsAfterJoinExact
<1>1. ASSUME RegistryAssumption, RegistryInvariant, ExactInvariant, Read
      PROVE  DiagnosticsAfterJoinExact
  <2> SUFFICES ASSUME reader.started = "joined", Complete
               PROVE  reader.snapshot =
                          [i \in DOMAIN Loads |->
                              Tally(Loads[i].extractor)[Loads[i].field]]
    BY DEF DiagnosticsAfterJoinExact
  <2> DEFINE tallies == [i \in DOMAIN Loads |->
                            Tally(Loads[i].extractor)[Loads[i].field]]
  <2>1. /\ reader.snapshot \in Seq(Nat) /\ phase = "joined"
        /\ Len(reader.snapshot) = Len(Loads)
        /\ \A i \in 1..Len(reader.snapshot) :
              reader.snapshot[i] = counters[Loads[i].extractor][Loads[i].field]
    BY <1>1 DEF Read, Complete
  <2>2. /\ DOMAIN Loads = 1..Len(Loads) /\ Len(Loads) \in Nat
        /\ \A i \in DOMAIN Loads : /\ Loads[i].extractor \in DOMAIN extractors
                                   /\ Loads[i].field \in ToSet(Fields)
    BY <1>1, LoadsType DEF ExactInvariant
  <2>3. \A i \in DOMAIN Loads :
            reader.snapshot[i] = Tally(Loads[i].extractor)[Loads[i].field]
    BY <1>1, <2>1, <2>2, JoinedTallies
  <2>4. /\ DOMAIN tallies = DOMAIN Loads
        /\ \A i \in DOMAIN Loads :
              tallies[i] = Tally(Loads[i].extractor)[Loads[i].field]
    OBVIOUS
  <2>5. tallies = [i \in DOMAIN Loads |-> tallies[i]]
    OBVIOUS
  <2> HIDE DEF tallies
  <2>6. DOMAIN reader.snapshot = DOMAIN Loads
    BY <2>1, <2>2
  <2>7. reader.snapshot = [i \in DOMAIN Loads |-> reader.snapshot[i]]
    BY <2>1, <2>6
  <2>8. reader.snapshot = tallies
    BY <2>3, <2>4, <2>5, <2>7
  <2>9. QED
    BY <2>8 DEF tallies
<1>2. QED
  BY <1>1, CountersExact, RegistryAssumption, PTL
-----------------------------------------------------------------------------
(* How images of event logs are laid out                                   *)

\* A record of that size begins with its header and ends with its size.
RecordLies(cells, size, id) ==
    cells[1] = RecordHeader(size, id) /\ cells[size] = None(size)

\* What fills a record of that size: any cells of which records are made.
IsBody(body, size) == body \in Seq(Cell) /\ Len(body) = size - 2

\* The numbers the definitions are about.
LEMMA SizesAre ==
    /\ RecordSizes \subseteq Nat
    /\ \A n \in RecordSizes : n >= 2 /\ n >= MinRecord /\ n <= MaxRecord /\ n % Align = 0
    /\ MinRecord \in Nat /\ MinRecord >= 2 /\ MaxRecord \in Nat
    /\ ChunkSize \in Nat /\ ChunkSize > 0
    /\ MinTime \in Int /\ MaxTime \in Int /\ GoodTime \in Int /\ StaleId \in Int
    /\ MinTime <= GoodTime /\ GoodTime <= MaxTime
<1>1. /\ MinRecord \in Nat /\ MinRecord >= 2 /\ MaxRecord \in Nat
      /\ ChunkSize \in Nat /\ ChunkSize > 0 /\ MinTime \in Int /\ MaxTime \in Int
  BY EvtxAssumption DEF EvtxAssumption
<1>2. GoodTime \in MinTime..MaxTime /\ StaleId \in Int
  BY LayoutsAssumption DEF LayoutsAssumption
<1>3. QED
  BY <1>1, <1>2 DEF RecordSizes

\* Zeros, one behind the other.
LEMMA ZerosAre ==
    ASSUME NEW n \in Nat
    PROVE  /\ Zeros(n) \in Seq(Cell) /\ Len(Zeros(n)) = n
           /\ \A j \in 1..n : Zeros(n)[j] = None(0)
<1>1. None(0) \in Cell
  BY DEF None, Cell
<1>2. Zeros(n) \in [1..n -> Cell]
  BY <1>1 DEF Zeros
<1>3. QED
  BY <1>2, FunctionIsSequence DEF Zeros

\* A record is laid out like that.
LEMMA RecordCellsAre ==
    ASSUME NEW size \in RecordSizes, NEW id \in Int, NEW body, IsBody(body, size)
    PROVE  /\ RecordCells(size, id, body) \in Seq(Cell)
           /\ Len(RecordCells(size, id, body)) = size
           /\ RecordLies(RecordCells(size, id, body), size, id)
<1> DEFINE a == <<RecordHeader(size, id)>>
           b == body
           c == <<None(size)>>
<1>1. /\ size \in Nat /\ size >= 2 /\ size - 2 \in Nat /\ size - 1 \in Nat
      /\ GoodTime \in Int
  BY SizesAre
<1>2. RecordHeader(size, id) \in Cell /\ None(size) \in Cell
  BY <1>1 DEF RecordHeader, None, Cell
<1>3. a \in Seq(Cell) /\ Len(a) = 1 /\ a[1] = RecordHeader(size, id)
  BY <1>2
<1>4. c \in Seq(Cell) /\ Len(c) = 1 /\ c[1] = None(size)
  BY <1>2
<1>5. b \in Seq(Cell) /\ Len(b) = size - 2
  BY DEF IsBody
<1>6. RecordCells(size, id, body) = (a \o b) \o c
  BY DEF RecordCells
<1> HIDE DEF a, b, c
<1>7. /\ a \o b \in Seq(Cell) /\ Len(a \o b) = size - 1
      /\ (a \o b)[1] = RecordHeader(size, id)
  <2>1. /\ a \o b \in Seq(Cell) /\ Len(a \o b) = Len(a) + Len(b)
        /\ \A i \in 1..Len(a) : (a \o b)[i] = a[i]
        /\ \A i \in 1..Len(b) : (a \o b)[Len(a) + i] = b[i]
    <3>1. a \in Seq(Cell) /\ b \in Seq(Cell)
      BY <1>3, <1>5
    <3>2. QED
      BY <3>1, Behind
  <2>2. 1 \in 1..Len(a)
    BY <1>3
  <2>3. /\ a \o b \in Seq(Cell) /\ (a \o b)[1] = RecordHeader(size, id)
    BY <2>1, <2>2, <1>3
  <2>4. Len(a \o b) = size - 1
    BY <2>1, <1>1, <1>3, <1>5
  <2>5. QED
    BY <2>3, <2>4
<1> DEFINE d == a \o b
<1> HIDE DEF d
<1>8. /\ d \o c \in Seq(Cell) /\ Len(d \o c) = size
      /\ \A i \in 1 .. size - 1 : (d \o c)[i] = d[i]
      /\ (d \o c)[size] = None(size)
  <2>1. /\ d \o c \in Seq(Cell) /\ Len(d \o c) = Len(d) + Len(c)
        /\ \A i \in 1..Len(d) : (d \o c)[i] = d[i]
        /\ \A i \in 1..Len(c) : (d \o c)[Len(d) + i] = c[i]
    <3>1. d \in Seq(Cell) /\ c \in Seq(Cell)
      BY <1>7, <1>4 DEF d
    <3>2. QED
      BY <3>1, Behind
  <2>2. Len(d) = size - 1 /\ (size - 1) + 1 = size
    BY <1>7, <1>1 DEF d
  <2>3. \A i \in 1 .. size - 1 : (d \o c)[i] = d[i]
    BY <2>1, <2>2
  <2>4. 1 \in 1..Len(c) /\ Len(d) + 1 = size
    BY <2>2, <1>4
  <2>5. (d \o c)[Len(d) + 1] = c[1]
    BY <2>1, <2>4
  <2>6. Len(d \o c) = size
    BY <2>1, <2>4, <1>4
  <2>7. QED
    BY <2>1, <2>3, <2>4, <2>5, <2>6, <1>4
<1>9. QED
  <2>1. 1 \in 1 .. size - 1 /\ d[1] = RecordHeader(size, id)
    BY <1>1, <1>7 DEF d
  <2>2. RecordCells(size, id, body) = d \o c
    BY <1>6 DEF d
  <2>3. QED
    BY <2>1, <2>2, <1>8 DEF RecordLies

\* The cells of a lead-in.
LeadCell == [magic : {"record"}, size : Int, id : Int, time : Int]
            \cup [magic : {"file"}, first : Int, last : Int, header : Seq(Int)]

\* What the layouts hold as a chunk.
IsChunk(c) ==
    /\ c.id \in Int /\ c.sizes \in Seq(RecordSizes) /\ c.sizes # <<>>
    /\ \A n \in 1..Len(c.sizes) : IsBody(c.bodies[n], c.sizes[n])
    /\ c.stale \in RecordSizes \cup {0}
    /\ c.stale # 0 => IsBody(c.remains, c.stale)
    /\ 1 + Len(RecordsOf(c, Len(c.sizes))) + c.stale <= ChunkSize

\* What a layout holds.
LEMMA LayoutIs ==
    ASSUME NEW l \in Layouts
    PROVE  /\ l.lead \in Seq(LeadCell)
           /\ \A p \in 1..Len(l.lead) :
                 l.lead[p].magic = "record" => l.lead[p].size > ChunkSize
           /\ Len(l.chunks) \in Nat /\ DOMAIN l.chunks = 1..Len(l.chunks)
           /\ \A i \in 1..Len(l.chunks) : IsChunk(l.chunks[i])
<1> DEFINE C == [id : Int, sizes : Seq(RecordSizes) \ {<<>>},
                 bodies : Seq(Seq(Cell)),
                 stale : RecordSizes \cup {0}, remains : Seq(Cell)]
<1>1. /\ l.lead \in Seq(LeadCell)
      /\ \A cell \in ToSet(l.lead) : cell.magic = "record" => cell.size > ChunkSize
      /\ l.chunks \in Seq(C)
      /\ \A c \in ToSet(l.chunks) :
            /\ Len(c.bodies) = Len(c.sizes)
            /\ \A n \in DOMAIN c.sizes : Len(c.bodies[n]) = c.sizes[n] - 2
            /\ c.stale # 0 => Len(c.remains) = c.stale - 2
            /\ 1 + Len(RecordsOf(c, Len(c.sizes))) + c.stale <= ChunkSize
  BY LayoutsAssumption DEF LayoutsAssumption, LeadCell
<1>2. \A p \in 1..Len(l.lead) : l.lead[p] \in ToSet(l.lead)
  BY <1>1 DEF ToSet
<1>4. \A c \in C : /\ c.id \in Int /\ c.sizes \in Seq(RecordSizes) /\ c.sizes # <<>>
                   /\ c.bodies \in Seq(Seq(Cell))
                   /\ c.stale \in RecordSizes \cup {0} /\ c.remains \in Seq(Cell)
  OBVIOUS
<1> HIDE DEF C
<1>3. \A i \in 1..Len(l.chunks) : l.chunks[i] \in ToSet(l.chunks) /\ l.chunks[i] \in C
  BY <1>1 DEF ToSet
<1>5. ASSUME NEW i \in 1..Len(l.chunks) PROVE IsChunk(l.chunks[i])
  <2> DEFINE c == l.chunks[i]
  <2>1. /\ c.id \in Int /\ c.sizes \in Seq(RecordSizes) /\ c.sizes # <<>>
        /\ c.bodies \in Seq(Seq(Cell))
        /\ c.stale \in RecordSizes \cup {0} /\ c.remains \in Seq(Cell)
    BY <1>3, <1>4
  <2>2. /\ Len(c.bodies) = Len(c.sizes)
        /\ \A n \in DOMAIN c.sizes : Len(c.bodies[n]) = c.sizes[n] - 2
        /\ c.stale # 0 => Len(c.remains) = c.stale - 2
        /\ 1 + Len(RecordsOf(c, Len(c.sizes))) + c.stale <= ChunkSize
    BY <1>1, <1>3
  <2> HIDE DEF c
  <2>3. \A n \in 1..Len(c.bodies) : c.bodies[n] \in Seq(Cell)
    <3>1. PICK S : S = Seq(Cell)
      OBVIOUS
    <3>2. c.bodies \in Seq(S)
      BY <2>1, <3>1
    <3>3. \A n \in 1..Len(c.bodies) : c.bodies[n] \in S
      BY <3>2
    <3>4. QED
      BY <3>1, <3>3
  <2>4. DOMAIN c.sizes = 1..Len(c.sizes)
    BY <2>1
  <2>5. \A n \in 1..Len(c.sizes) : IsBody(c.bodies[n], c.sizes[n])
    BY <2>2, <2>3, <2>4 DEF IsBody
  <2>6. c.stale # 0 => IsBody(c.remains, c.stale)
    BY <2>1, <2>2 DEF IsBody
  <2>7. IsChunk(c)
    BY <2>1, <2>2, <2>5, <2>6 DEF IsChunk
  <2>8. QED
    BY <2>7 DEF c
<1>6. Len(l.chunks) \in Nat /\ DOMAIN l.chunks = 1..Len(l.chunks)
  BY <1>1
<1>7. QED
  BY <1>1, <1>2, <1>5, <1>6

\* The records of a chunk lie one behind the other, and there is nothing else.
LEMMA RecordsLie ==
    ASSUME NEW c, IsChunk(c)
    PROVE  LET N == Len(c.sizes)
               all == RecordsOf(c, N)
           IN  /\ N \in Nat /\ N > 0
               /\ \A n \in 1..N : c.sizes[n] \in RecordSizes
               /\ \A n \in 0..N : RecordsOf(c, n) \in Seq(Cell)
               /\ RecordsOf(c, 0) = <<>>
               /\ \A n \in 1..N :
                     /\ Len(RecordsOf(c, n)) = Len(RecordsOf(c, n - 1)) + c.sizes[n]
                     /\ \A j \in 1..c.sizes[n] :
                           /\ Len(RecordsOf(c, n - 1)) + j \in 1..Len(all)
                           /\ all[Len(RecordsOf(c, n - 1)) + j]
                                 = RecordCells(c.sizes[n], c.id + n - 1, c.bodies[n])[j]
               /\ \A q \in 1..Len(all) : \E n \in 1..N : \E j \in 1..c.sizes[n] :
                     q = Len(RecordsOf(c, n - 1)) + j
<1> DEFINE N == Len(c.sizes)
           all == RecordsOf(c, N)
           Record(n) == RecordCells(c.sizes[n], c.id + n - 1, c.bodies[n])
           pieces(n) == [i \in 1..n |-> Record(i)]
<1>1. N \in Nat /\ N > 0 /\ \A n \in 1..N : c.sizes[n] \in RecordSizes
  BY DEF IsChunk
<1>2. \A n \in 1..N : Record(n) \in Seq(Cell) /\ Len(Record(n)) = c.sizes[n]
  <2>1. \A n \in 1..N : c.id + n - 1 \in Int /\ IsBody(c.bodies[n], c.sizes[n])
    BY <1>1 DEF IsChunk
  <2>2. QED
    BY <1>1, <2>1, RecordCellsAre
<1> HIDE DEF N, Record
<1>3. \A n \in 0..N : /\ pieces(n) \in Seq(Seq(Cell)) /\ Len(pieces(n)) = n
                      /\ \A k \in 1..n : pieces(n)[k] = Record(k)
  <2> SUFFICES ASSUME NEW n \in 0..N
               PROVE  /\ pieces(n) \in Seq(Seq(Cell)) /\ Len(pieces(n)) = n
                      /\ \A k \in 1..n : pieces(n)[k] = Record(k)
    OBVIOUS
  <2>1. n \in Nat /\ 1..n \subseteq 1..N
    BY <1>1
  <2>2. pieces(n) \in [1..n -> Seq(Cell)]
    BY <1>2, <2>1
  <2>3. QED
    BY <2>1, <2>2, FunctionIsSequence
<1>4. \A n \in 0..N : RecordsOf(c, n) = FlattenSeq(pieces(n))
  BY DEF RecordsOf, Record
<1> HIDE DEF pieces
<1>5. \A n \in 0..N : RecordsOf(c, n) \in Seq(Cell)
  BY <1>3, <1>4, FlattenType
<1>6. RecordsOf(c, 0) = <<>>
  <2>1. 0 \in 0..N
    BY <1>1
  <2>2. pieces(0) = <<>>
    BY <1>3, <2>1
  <2>3. QED
    BY <2>1, <2>2, <1>4, FlattenNone
<1>7. \A n \in 0 .. N - 1 : RecordsOf(c, n + 1) = RecordsOf(c, n) \o Record(n + 1)
  <2> SUFFICES ASSUME NEW n \in 0 .. N - 1
               PROVE  RecordsOf(c, n + 1) = RecordsOf(c, n) \o Record(n + 1)
    OBVIOUS
  <2>1. n \in 0..N /\ n + 1 \in 0..N /\ n + 1 \in 1 .. n + 1 /\ 1..n \subseteq 1 .. n + 1
    BY <1>1
  <2>2. /\ pieces(n) \in Seq(Seq(Cell)) /\ pieces(n + 1) \in Seq(Seq(Cell))
        /\ Len(pieces(n + 1)) = Len(pieces(n)) + 1 /\ Len(pieces(n + 1)) = n + 1
        /\ \A k \in 1..Len(pieces(n)) : pieces(n + 1)[k] = pieces(n)[k]
        /\ pieces(n + 1)[n + 1] = Record(n + 1)
    BY <1>3, <2>1
  <2>3. FlattenSeq(pieces(n + 1)) = FlattenSeq(pieces(n)) \o pieces(n + 1)[n + 1]
    BY <2>2, FlattenMore
  <2>4. QED
    BY <2>1, <2>2, <2>3, <1>4
<1>8. \A n \in 0 .. N - 1 :
         Len(RecordsOf(c, n + 1)) = Len(RecordsOf(c, n)) + Len(Record(n + 1))
  <2> SUFFICES ASSUME NEW n \in 0 .. N - 1
               PROVE  Len(RecordsOf(c, n + 1)) = Len(RecordsOf(c, n)) + Len(Record(n + 1))
    OBVIOUS
  <2>1. n \in 0..N /\ n + 1 \in 1..N
    BY <1>1
  <2>2. RecordsOf(c, n) \in Seq(Cell) /\ Record(n + 1) \in Seq(Cell)
    BY <2>1, <1>2, <1>5
  <2>3. QED
    BY <2>2, <1>7, Behind
<1> DEFINE start == [n \in 0..N |-> Len(RecordsOf(c, n))]
<1>9. /\ \A n \in 0..N : start[n] = Len(RecordsOf(c, n)) /\ start[n] \in Nat
      /\ DOMAIN start = 0..N
  BY <1>5
<1> HIDE DEF start
<1>10. N \in 0..N /\ 0 \in 0..N /\ Len(pieces(N)) = N /\ pieces(N) \in Seq(Seq(Cell))
  BY <1>1, <1>3
<1>11. Places(start, pieces(N), Len(pieces(N)))
  <2>1. start[0] = 0
    BY <1>6, <1>9, <1>10
  <2>2. \A k \in 0 .. N - 1 : start[k + 1] = start[k] + Len(pieces(N)[k + 1])
    <3>1. \A k \in 0 .. N - 1 : k \in 0..N /\ k + 1 \in 0..N /\ k + 1 \in 1..N
      BY <1>1
    <3>2. QED
      BY <3>1, <1>3, <1>8, <1>9, <1>10
  <2>3. QED
    BY <2>1, <2>2, <1>9, <1>10 DEF Places
<1>12. all = FlattenSeq(pieces(N)) /\ start[N] = Len(all)
  BY <1>4, <1>9, <1>10
<1>13. \A k \in 0 .. N - 1 : \A i \in 1..Len(pieces(N)[k + 1]) :
          start[k] + i \in 1..Len(all) /\ all[start[k] + i] = pieces(N)[k + 1][i]
  BY <1>10, <1>11, <1>12, FlattenPlaces, SMTT(40)
<1>14. \A q \in 1..Len(all) : \E k \in 0 .. N - 1 :
          \E i \in 1..Len(pieces(N)[k + 1]) : q = start[k] + i
  <2> SUFFICES ASSUME NEW q \in 1..Len(all)
               PROVE  \E k \in 0 .. N - 1 : \E i \in 1..Len(pieces(N)[k + 1]) :
                          q = start[k] + i
    OBVIOUS
  <2>1. \A k \in 0..Len(pieces(N)) : start[k] \in Nat
    BY <1>9, <1>10
  <2>2. Covered(start, pieces(N))
    BY <2>1, <1>10, <1>11, PlacesCover
  <2>3. QED
    BY <2>2, <1>10, <1>12 DEF Covered
<1>15. \A n \in 1..N :
          /\ n - 1 \in 0 .. N - 1 /\ (n - 1) + 1 = n /\ n - 1 \in 0..N
          /\ pieces(N)[n] = Record(n) /\ Len(pieces(N)[n]) = c.sizes[n]
          /\ start[n - 1] = Len(RecordsOf(c, n - 1))
  <2> SUFFICES ASSUME NEW n \in 1..N
               PROVE  /\ n - 1 \in 0 .. N - 1 /\ (n - 1) + 1 = n /\ n - 1 \in 0..N
                      /\ pieces(N)[n] = Record(n) /\ Len(pieces(N)[n]) = c.sizes[n]
                      /\ start[n - 1] = Len(RecordsOf(c, n - 1))
    OBVIOUS
  <2>1. n - 1 \in 0 .. N - 1 /\ (n - 1) + 1 = n /\ n - 1 \in 0..N
    BY <1>1
  <2>2. pieces(N)[n] = Record(n)
    BY <1>3, <1>10
  <2>3. QED
    BY <2>1, <2>2, <1>2, <1>9
<1>16. \A n \in 1..N :
          /\ Len(RecordsOf(c, n)) = Len(RecordsOf(c, n - 1)) + c.sizes[n]
          /\ \A j \in 1..c.sizes[n] :
                /\ Len(RecordsOf(c, n - 1)) + j \in 1..Len(all)
                /\ all[Len(RecordsOf(c, n - 1)) + j] = Record(n)[j]
  <2> SUFFICES ASSUME NEW n \in 1..N
               PROVE  /\ Len(RecordsOf(c, n)) = Len(RecordsOf(c, n - 1)) + c.sizes[n]
                      /\ \A j \in 1..c.sizes[n] :
                            /\ Len(RecordsOf(c, n - 1)) + j \in 1..Len(all)
                            /\ all[Len(RecordsOf(c, n - 1)) + j] = Record(n)[j]
    OBVIOUS
  <2>1. Len(RecordsOf(c, n)) = Len(RecordsOf(c, n - 1)) + c.sizes[n]
    BY <1>2, <1>8, <1>15
  <2>2. /\ n - 1 \in 0 .. N - 1 /\ pieces(N)[(n - 1) + 1] = Record(n)
        /\ Len(pieces(N)[(n - 1) + 1]) = c.sizes[n]
        /\ start[n - 1] = Len(RecordsOf(c, n - 1))
    BY <1>15
  <2>3. \A j \in 1..c.sizes[n] :
           start[n - 1] + j \in 1..Len(all) /\ all[start[n - 1] + j] = Record(n)[j]
    BY <2>2, <1>13
  <2>4. QED
    BY <2>1, <2>2, <2>3
<1>17. \A q \in 1..Len(all) : \E n \in 1..N : \E j \in 1..c.sizes[n] :
          q = Len(RecordsOf(c, n - 1)) + j
  <2> SUFFICES ASSUME NEW q \in 1..Len(all)
               PROVE  \E n \in 1..N : \E j \in 1..c.sizes[n] :
                          q = Len(RecordsOf(c, n - 1)) + j
    OBVIOUS
  <2>1. PICK k \in 0 .. N - 1 : \E i \in 1..Len(pieces(N)[k + 1]) : q = start[k] + i
    BY <1>14
  <2>2. k + 1 \in 1..N /\ (k + 1) - 1 = k
    BY <1>1
  <2>3. Len(pieces(N)[k + 1]) = c.sizes[k + 1] /\ start[k] = Len(RecordsOf(c, k))
    BY <2>2, <1>15
  <2>4. PICK j \in 1..c.sizes[k + 1] : q = Len(RecordsOf(c, (k + 1) - 1)) + j
    BY <2>1, <2>2, <2>3
  <2>5. QED
    BY <2>2, <2>4
<1>18. QED
  BY <1>1, <1>5, <1>6, <1>16, <1>17 DEF N, Record

\* What is left of an earlier use of the chunk.
LEMMA StaleIs ==
    ASSUME NEW c, IsChunk(c)
    PROVE  /\ c.stale \in Nat /\ (c.stale # 0 => c.stale \in RecordSizes)
           /\ Stale(c) \in Seq(Cell) /\ Len(Stale(c)) = c.stale
           /\ c.stale # 0 => IsBody(c.remains, c.stale)
           /\ \A j \in 1..c.stale :
                 Stale(c)[j] = RecordCells(c.stale, StaleId, c.remains)[j]
<1>1. c.stale \in RecordSizes \cup {0} /\ RecordSizes \subseteq Nat
  BY SizesAre DEF IsChunk
<1>2. CASE c.stale = 0
  <2>1. Stale(c) = <<>>
    BY <1>2 DEF Stale
  <2>2. QED
    BY <1>2, <2>1
<1>3. CASE c.stale # 0
  <2>1. c.stale \in RecordSizes /\ c.stale \in Nat /\ c.stale > 0 /\ StaleId \in Int
    <3>1. c.stale \in RecordSizes
      BY <1>1, <1>3
    <3>2. c.stale \in Nat /\ StaleId \in Int
      BY <3>1, SizesAre
    <3>3. QED
      BY <3>1, <3>2, <1>3
  <2>2. Stale(c) = RecordCells(c.stale, StaleId, c.remains)
    BY <2>1 DEF Stale
  <2>3. IsBody(c.remains, c.stale)
    BY <1>3 DEF IsChunk
  <2>4. QED
    BY <2>1, <2>2, <2>3, RecordCellsAre
<1>4. QED
  BY <1>2, <1>3

\* A chunk is its header, its records, what is left of an older one, and zeros.
ChunkLies(cells, c) ==
    LET all == RecordsOf(c, Len(c.sizes))
        R   == Len(all)
    IN  /\ R \in Nat /\ 1 + R + c.stale <= ChunkSize
        /\ cells[1] = HeaderOf(c)
        /\ \A q \in 1..R : cells[1 + q] = all[q]
        /\ \A j \in 1..c.stale :
              cells[1 + R + j] = RecordCells(c.stale, StaleId, c.remains)[j]
        /\ \A p \in 2 + R + c.stale .. ChunkSize : cells[p] = None(0)

\* A chunk is its header, its records, the stale one and zeros.
LEMMA ChunkCellsAre ==
    ASSUME NEW c, IsChunk(c), NEW S, Cell \subseteq S, HeaderOf(c) \in S
    PROVE  /\ ChunkCells(c) \in Seq(S) /\ Len(ChunkCells(c)) = ChunkSize
           /\ ChunkLies(ChunkCells(c), c)
<1> DEFINE all == RecordsOf(c, Len(c.sizes))
           R == Len(all)
           head == <<HeaderOf(c)>>
           live == head \o all
           used == live \o Stale(c)
           free == Zeros(ChunkSize - Len(used))
<1>1. all \in Seq(Cell) /\ R \in Nat
  <2>1. Len(c.sizes) \in 0..Len(c.sizes)
    BY DEF IsChunk
  <2>2. QED
    BY <2>1, RecordsLie
<1>2. all \in Seq(S) /\ head \in Seq(S) /\ Stale(c) \in Seq(S)
  BY <1>1, StaleIs
<1>3. Len(head) = 1 /\ head[1] = HeaderOf(c) /\ 1 \in 1..Len(head)
  OBVIOUS
<1>4. /\ Len(Stale(c)) = c.stale /\ c.stale \in Nat
      /\ \A j \in 1..c.stale :
            Stale(c)[j] = RecordCells(c.stale, StaleId, c.remains)[j]
  BY StaleIs
<1>5. 1 + R + c.stale <= ChunkSize /\ ChunkSize \in Nat
  BY SizesAre DEF IsChunk
<1>6. ChunkCells(c) = used \o free
  BY DEF ChunkCells
<1> HIDE DEF head
<1>7. /\ live \in Seq(S) /\ Len(live) = Len(head) + R
      /\ \A i \in 1..Len(head) : live[i] = head[i]
      /\ \A i \in 1..R : live[Len(head) + i] = all[i]
  <2> HIDE DEF all
  <2>1. head \in Seq(S) /\ all \in Seq(S)
    BY <1>2
  <2>2. QED
    BY <2>1, Behind
<1> HIDE DEF live, all
<1>8. /\ used \in Seq(S) /\ Len(used) = Len(live) + Len(Stale(c))
      /\ \A i \in 1..Len(live) : used[i] = live[i]
      /\ \A i \in 1..Len(Stale(c)) : used[Len(live) + i] = Stale(c)[i]
  <2>1. live \in Seq(S) /\ Stale(c) \in Seq(S)
    BY <1>2, <1>7
  <2>2. QED
    BY <2>1, Behind
<1> HIDE DEF used
<1>9. Len(live) = 1 + R /\ Len(used) = 1 + R + c.stale
  BY <1>1, <1>3, <1>4, <1>7, <1>8
<1>10. ChunkSize - Len(used) \in Nat
  BY <1>1, <1>4, <1>5, <1>9
<1>11. /\ free \in Seq(Cell) /\ Len(free) = ChunkSize - Len(used)
       /\ \A j \in 1 .. ChunkSize - Len(used) : free[j] = None(0)
  BY <1>10, ZerosAre
<1> HIDE DEF free
<1>12. /\ used \o free \in Seq(S) /\ Len(used \o free) = Len(used) + Len(free)
       /\ \A i \in 1..Len(used) : (used \o free)[i] = used[i]
       /\ \A i \in 1..Len(free) : (used \o free)[Len(used) + i] = free[i]
  <2>1. used \in Seq(S) /\ free \in Seq(S)
    BY <1>8, <1>11
  <2>2. QED
    BY <2>1, Behind
<1> DEFINE cells == used \o free
<1> HIDE DEF cells
<1>13. Len(cells) = ChunkSize /\ cells \in Seq(S)
  BY <1>5, <1>9, <1>10, <1>11, <1>12 DEF cells
<1>14. cells[1] = HeaderOf(c)
  <2>1. 1 \in 1..Len(live) /\ 1 \in 1..Len(used)
    BY <1>1, <1>4, <1>9
  <2>2. QED
    BY <2>1, <1>3, <1>7, <1>8, <1>12 DEF cells
<1>15. ASSUME NEW q \in 1..R PROVE cells[1 + q] = all[q]
  <2>1. 1 + q \in 1..Len(live) /\ 1 + q \in 1..Len(used)
    BY <1>1, <1>4, <1>9
  <2>2. cells[1 + q] = used[1 + q] /\ used[1 + q] = live[1 + q]
    BY <2>1, <1>8, <1>12 DEF cells
  <2>3. QED
    BY <2>2, <1>3, <1>7
<1>16. ASSUME NEW j \in 1..c.stale
       PROVE  cells[1 + R + j] = RecordCells(c.stale, StaleId, c.remains)[j]
  <2>1. 1 + R + j \in 1..Len(used) /\ j \in 1..Len(Stale(c))
    BY <1>1, <1>4, <1>9
  <2>2. cells[1 + R + j] = used[1 + R + j]
    BY <2>1, <1>12 DEF cells
  <2>3. QED
    BY <2>1, <2>2, <1>4, <1>8, <1>9
<1>17. ASSUME NEW p \in 2 + R + c.stale .. ChunkSize PROVE cells[p] = None(0)
  <2> DEFINE i == p - Len(used)
  <2>1. i \in 1..Len(free) /\ Len(used) + i = p /\ i \in 1 .. ChunkSize - Len(used)
    BY <1>1, <1>4, <1>5, <1>9, <1>11, SMTT(40)
  <2> HIDE DEF i
  <2>2. QED
    BY <2>1, <1>11, <1>12 DEF cells
<1>18. ChunkLies(cells, c)
  BY <1>1, <1>5, <1>14, <1>15, <1>16, <1>17 DEF ChunkLies, all
<1>19. QED
  BY <1>6, <1>13, <1>18 DEF cells

\* The cells of an image.
AnyCell(l) == Cell \cup LeadCell \cup {HeaderOf(l.chunks[i]) : i \in 1..Len(l.chunks)}

\* An image is its lead-in, then the chunks.
ImageLies(image, l) ==
    /\ image \in Seq(AnyCell(l))
    /\ \A p \in 1..Len(l.lead) : p \in 1..Len(image) /\ image[p] = l.lead[p]
    /\ \A i \in 1..Len(l.chunks) :
          /\ ChunkAt(l, i) \in Nat /\ ChunkAt(l, i) >= Len(l.lead)
          /\ \A j \in 1..ChunkSize : /\ ChunkAt(l, i) + j \in 1..Len(image)
                                     /\ image[ChunkAt(l, i) + j]
                                           = ChunkCells(l.chunks[i])[j]
    /\ \A p \in 1..Len(image) :
          p <= Len(l.lead) \/ \E i \in 1..Len(l.chunks) : \E j \in 1..ChunkSize :
                                 p = ChunkAt(l, i) + j

\* The image of a layout is laid out like that.
LEMMA ImageIs ==
    ASSUME NEW l \in Layouts
    PROVE  ImageLies(ImageOf(l), l)
<1> DEFINE S == AnyCell(l)
           n == Len(l.chunks)
           pieces == [i \in DOMAIN l.chunks |-> ChunkCells(l.chunks[i])]
           area == FlattenSeq(pieces)
           start == [k \in 0..n |-> k * ChunkSize]
           image == l.lead \o area
<1>1. /\ l.lead \in Seq(LeadCell) /\ n \in Nat /\ DOMAIN l.chunks = 1..n
      /\ \A i \in 1..n : IsChunk(l.chunks[i])
  BY LayoutIs
<1>2. Cell \subseteq S /\ LeadCell \subseteq S /\ \A i \in 1..n : HeaderOf(l.chunks[i]) \in S
  BY DEF AnyCell
<1>3. ChunkSize \in Nat
  BY SizesAre
<1> HIDE DEF S, n
<1>4. \A i \in 1..n : ChunkCells(l.chunks[i]) \in Seq(S)
                      /\ Len(ChunkCells(l.chunks[i])) = ChunkSize
  BY <1>1, <1>2, ChunkCellsAre
<1>5. pieces \in [1..n -> Seq(S)] /\ \A i \in 1..n : pieces[i] = ChunkCells(l.chunks[i])
  BY <1>1, <1>4
<1> HIDE DEF pieces
<1>6. pieces \in Seq(Seq(S)) /\ Len(pieces) = n
  BY <1>1, <1>5, FunctionIsSequence
<1>7. /\ DOMAIN start = 0..n /\ \A k \in 0..n : start[k] = k * ChunkSize
      /\ \A k \in 0..n : start[k] \in Nat
      /\ \A k \in 0 .. n - 1 : start[k + 1] = start[k] + ChunkSize
  <2>1. DOMAIN start = 0..n /\ \A k \in 0..n : start[k] = k * ChunkSize
    OBVIOUS
  <2>2. \A k \in 0..n : k \in Nat /\ k * ChunkSize \in Nat
    BY <1>1, <1>3
  <2>3. \A k \in 0 .. n - 1 : /\ k \in 0..n /\ k + 1 \in 0..n
                              /\ (k + 1) * ChunkSize = k * ChunkSize + ChunkSize
    BY <1>1, <1>3
  <2> HIDE DEF start
  <2>4. QED
    BY <2>1, <2>2, <2>3
<1> HIDE DEF start
<1>8. Places(start, pieces, Len(pieces))
  <2>1. start[0] = 0
    BY <1>1, <1>3, <1>7
  <2>2. \A k \in 0 .. n - 1 : Len(pieces[k + 1]) = ChunkSize
    <3>1. \A k \in 0 .. n - 1 : k + 1 \in 1..n
      BY <1>1
    <3>2. QED
      BY <3>1, <1>4, <1>5
  <2>3. QED
    BY <2>1, <2>2, <1>6, <1>7 DEF Places
<1>9. /\ area \in Seq(S) /\ Len(area) = start[n]
      /\ \A k \in 0 .. n - 1 : \A i \in 1..Len(pieces[k + 1]) :
            start[k] + i \in 1..start[n] /\ area[start[k] + i] = pieces[k + 1][i]
  BY <1>6, <1>8, FlattenPlaces
<1>10. Covered(start, pieces)
  <2>1. \A k \in 0..Len(pieces) : start[k] \in Nat
    BY <1>6, <1>7
  <2>2. QED
    BY <2>1, <1>6, <1>8, PlacesCover
<1> HIDE DEF area
<1>11. /\ image \in Seq(S) /\ Len(image) = Len(l.lead) + Len(area)
       /\ \A p \in 1..Len(l.lead) : image[p] = l.lead[p]
       /\ \A p \in 1..Len(area) : image[Len(l.lead) + p] = area[p]
  <2>1. l.lead \in Seq(S) /\ area \in Seq(S)
    BY <1>1, <1>2, <1>9
  <2>2. QED
    BY <2>1, Behind
<1>12. Len(l.lead) \in Nat /\ Len(area) \in Nat
  BY <1>1, <1>9
<1>13. ImageOf(l) = image
  BY DEF ImageOf, area, pieces
<1> HIDE DEF image
<1>14. ASSUME NEW i \in 1..n
       PROVE  /\ ChunkAt(l, i) \in Nat /\ ChunkAt(l, i) >= Len(l.lead)
              /\ \A j \in 1..ChunkSize : /\ ChunkAt(l, i) + j \in 1..Len(image)
                                         /\ image[ChunkAt(l, i) + j]
                                               = ChunkCells(l.chunks[i])[j]
  <2>1. i - 1 \in 0 .. n - 1 /\ i - 1 \in 0..n /\ (i - 1) + 1 = i
    BY <1>1
  <2>2. ChunkAt(l, i) = Len(l.lead) + start[i - 1]
    BY <2>1, <1>7 DEF ChunkAt
  <2>3. pieces[i] = ChunkCells(l.chunks[i]) /\ Len(pieces[i]) = ChunkSize
    BY <1>4, <1>5
  <2>4. \A j \in 1..ChunkSize : /\ start[i - 1] + j \in 1..Len(area)
                                /\ area[start[i - 1] + j] = ChunkCells(l.chunks[i])[j]
    BY <2>1, <2>3, <1>9
  <2>5. start[i - 1] \in Nat
    BY <2>1, <1>7
  <2>6. ASSUME NEW j \in 1..ChunkSize
        PROVE  /\ ChunkAt(l, i) + j \in 1..Len(image)
               /\ image[ChunkAt(l, i) + j] = ChunkCells(l.chunks[i])[j]
    <3>1. ChunkAt(l, i) + j = Len(l.lead) + (start[i - 1] + j)
      BY <2>2, <2>5, <1>3, <1>12
    <3>2. start[i - 1] + j \in 1..Len(area)
      BY <2>4
    <3>3. QED
      BY <3>1, <3>2, <2>4, <1>11, <1>12, SMTT(40)
  <2>7. QED
    BY <2>2, <2>5, <2>6, <1>12
<1>15. ASSUME NEW p \in 1..Len(image), ~(p <= Len(l.lead))
       PROVE  \E i \in 1..n : \E j \in 1..ChunkSize : p = ChunkAt(l, i) + j
  <2> DEFINE q == p - Len(l.lead)
  <2>1. q \in 1..start[n] /\ p = Len(l.lead) + q
    BY <1>9, <1>11, <1>12, <1>15
  <2> HIDE DEF q
  <2>2. PICK k \in 0 .. n - 1 : \E i \in 1..Len(pieces[k + 1]) : q = start[k] + i
    BY <2>1, <1>6, <1>10 DEF Covered
  <2>3. k + 1 \in 1..n /\ (k + 1) - 1 = k /\ k \in 0..n
    BY <1>1
  <2>4. Len(pieces[k + 1]) = ChunkSize
    BY <2>3, <1>4, <1>5
  <2>5. PICK j \in 1..ChunkSize : q = start[k] + j
    BY <2>2, <2>4
  <2>6. ChunkAt(l, k + 1) = Len(l.lead) + start[k] /\ start[k] \in Nat
    BY <2>3, <1>7 DEF ChunkAt
  <2>7. p = ChunkAt(l, k + 1) + j
    BY <2>1, <2>5, <2>6, <1>12, SMTT(40)
  <2>8. QED
    BY <2>3, <2>7
<1>16. \A p \in 1..Len(l.lead) : p \in 1..Len(image)
  BY <1>11, <1>12
<1>17. QED
  BY <1>11, <1>13, <1>14, <1>15, <1>16 DEF ImageLies, S, n

-----------------------------------------------------------------------------
(* What was written lies there, and nothing else looks like it             *)

\* Structure s is in the image as a record, or as a chunk.
RecordIn(image, s) ==
    /\ s.offset \in Nat /\ s.size \in RecordSizes /\ s.size <= ChunkSize
    /\ s.offset + s.size <= Len(image)
    /\ \E id \in Int : image[s.offset + 1] = RecordHeader(s.size, id)
    /\ image[s.offset + s.size] = None(s.size)

ChunkIn(image, s) ==
    \E c : LET all == RecordsOf(c, Len(c.sizes))
           IN  /\ IsChunk(c) /\ all \in Seq(Cell)
               /\ s.offset \in Nat /\ s.size = 1 + Len(all) /\ s.size <= ChunkSize
               /\ s.offset + ChunkSize <= Len(image)
               /\ image[s.offset + 1] = HeaderOf(c)
               /\ \A q \in 1..Len(all) : image[s.offset + 1 + q] = all[q]

LiesIn(image, s) == IF s.kind = "chunk" THEN ChunkIn(image, s) ELSE RecordIn(image, s)

\* A record that lies at a place of a chunk, lies in the image.
LEMMA RecordPlaced ==
    ASSUME NEW image, NEW place \in Nat, NEW size \in RecordSizes, NEW id \in Int, NEW kind,
           NEW body, IsBody(body, size),
           size <= ChunkSize, place + size <= Len(image), Len(image) \in Nat,
           \A j \in 1..size : image[place + j] = RecordCells(size, id, body)[j]
    PROVE  RecordIn(image, Structure(kind, place, size))
<1>1. size \in Nat /\ size >= 2
  BY SizesAre
<1>2. RecordLies(RecordCells(size, id, body), size, id)
  BY RecordCellsAre
<1>3. 1 \in 1..size /\ size \in 1..size
  BY <1>1
<1>4. image[place + 1] = RecordHeader(size, id) /\ image[place + size] = None(size)
  BY <1>2, <1>3 DEF RecordLies
<1>5. /\ Structure(kind, place, size).offset = place
      /\ Structure(kind, place, size).size = size
  BY DEF Structure
<1>6. QED
  BY <1>4, <1>5 DEF RecordIn

\* What there is of a chunk in the image, by places in the chunk.
LEMMA ChunkPlaces ==
    ASSUME NEW l \in Layouts, NEW i \in 1..Len(l.chunks)
    PROVE  LET c == l.chunks[i]
               N == Len(c.sizes)
               all == RecordsOf(c, N)
               at == ChunkAt(l, i)
               image == ImageOf(l)
           IN  /\ IsChunk(c) /\ N \in Nat /\ N > 0 /\ DOMAIN c.sizes = 1..N
               /\ \A n \in 1..N : c.sizes[n] \in RecordSizes
               /\ \A n \in 1..N : IsBody(c.bodies[n], c.sizes[n])
               /\ c.stale \in Nat /\ (c.stale # 0 => c.stale \in RecordSizes)
               /\ c.stale # 0 => IsBody(c.remains, c.stale)
               /\ all \in Seq(Cell) /\ 1 + Len(all) + c.stale <= ChunkSize
               /\ at \in Nat /\ at + ChunkSize <= Len(image) /\ Len(image) \in Nat
               /\ image[at + 1] = HeaderOf(c)
               /\ \A q \in 1..Len(all) : image[at + 1 + q] = all[q]
               /\ \A j \in 1..c.stale :
                     image[at + 1 + Len(all) + j]
                        = RecordCells(c.stale, StaleId, c.remains)[j]
               /\ \A p \in 2 + Len(all) + c.stale .. ChunkSize : image[at + p] = None(0)
<1> DEFINE c == l.chunks[i]
           N == Len(c.sizes)
           all == RecordsOf(c, N)
           at == ChunkAt(l, i)
           image == ImageOf(l)
           cells == ChunkCells(c)
<1>1. IsChunk(c)
  BY LayoutIs
<1>2. /\ N \in Nat /\ N > 0 /\ DOMAIN c.sizes = 1..N
      /\ \A n \in 1..N : c.sizes[n] \in RecordSizes
      /\ \A n \in 1..N : IsBody(c.bodies[n], c.sizes[n])
  BY <1>1 DEF IsChunk
<1>3. /\ c.stale \in Nat /\ (c.stale # 0 => c.stale \in RecordSizes)
      /\ c.stale # 0 => IsBody(c.remains, c.stale)
  BY <1>1, StaleIs
<1>4. all \in Seq(Cell)
  <2>1. N \in 0..N
    BY <1>2
  <2>2. QED
    BY <1>1, <2>1, RecordsLie
<1>5. ChunkLies(cells, c)
  <2>1. HeaderOf(c) \in AnyCell(l) /\ Cell \subseteq AnyCell(l)
    BY DEF AnyCell
  <2>2. QED
    BY <1>1, <2>1, ChunkCellsAre
<1>6. /\ Len(all) \in Nat /\ 1 + Len(all) + c.stale <= ChunkSize
      /\ cells[1] = HeaderOf(c)
      /\ \A q \in 1..Len(all) : cells[1 + q] = all[q]
      /\ \A j \in 1..c.stale :
            cells[1 + Len(all) + j] = RecordCells(c.stale, StaleId, c.remains)[j]
      /\ \A p \in 2 + Len(all) + c.stale .. ChunkSize : cells[p] = None(0)
  BY <1>5 DEF ChunkLies
<1>7. ImageLies(image, l)
  BY ImageIs
<1>8. /\ at \in Nat /\ image \in Seq(AnyCell(l))
      /\ \A j \in 1..ChunkSize : at + j \in 1..Len(image) /\ image[at + j] = cells[j]
  BY <1>7 DEF ImageLies
<1>9. ChunkSize \in Nat /\ ChunkSize > 0
  BY SizesAre
<1> HIDE DEF c, N, all, at, image, cells
<1>10. at + ChunkSize <= Len(image) /\ Len(image) \in Nat
  <2>1. ChunkSize \in 1..ChunkSize
    BY <1>9
  <2>2. at + ChunkSize \in 1..Len(image) /\ Len(image) \in Nat
    BY <2>1, <1>8
  <2>3. QED
    BY <2>2
<1>11. image[at + 1] = HeaderOf(c)
  <2>1. 1 \in 1..ChunkSize
    BY <1>9
  <2>2. QED
    BY <2>1, <1>6, <1>8
<1>12. ASSUME NEW q \in 1..Len(all) PROVE image[at + 1 + q] = all[q]
  <2>1. 1 + q \in 1..ChunkSize /\ at + 1 + q = at + (1 + q)
    BY <1>3, <1>6, <1>8, <1>9
  <2>2. image[at + (1 + q)] = cells[1 + q] /\ cells[1 + q] = all[q]
    BY <2>1, <1>6, <1>8
  <2>3. QED
    BY <2>1, <2>2
<1>13. ASSUME NEW j \in 1..c.stale
       PROVE  image[at + 1 + Len(all) + j]
               = RecordCells(c.stale, StaleId, c.remains)[j]
  <2> DEFINE p == 1 + Len(all) + j
  <2>1. p \in 1..ChunkSize /\ at + 1 + Len(all) + j = at + p
    BY <1>3, <1>6, <1>8, <1>9, SMTT(40)
  <2>2. cells[p] = RecordCells(c.stale, StaleId, c.remains)[j]
    BY <1>6
  <2> HIDE DEF p
  <2>3. QED
    BY <2>1, <2>2, <1>8
<1>14. ASSUME NEW p \in 2 + Len(all) + c.stale .. ChunkSize
       PROVE  image[at + p] = None(0)
  <2>1. p \in 1..ChunkSize
    BY <1>3, <1>6, <1>9
  <2>2. QED
    BY <2>1, <1>6, <1>8
<1>15. QED
  BY <1>1, <1>2, <1>3, <1>4, <1>6, <1>8, <1>10, <1>11, <1>12, <1>13, <1>14
     DEF c, N, all, at, image

\* What was written there lies there.
LEMMA WrittenLies ==
    ASSUME NEW l \in Layouts, NEW s \in Written(l)
    PROVE  s.kind \in {"chunk", "record", "stale"} /\ LiesIn(ImageOf(l), s)
<1>1. PICK i \in 1..Len(l.chunks) : s \in WrittenIn(l, i)
  BY LayoutIs DEF Written
<1> DEFINE c == l.chunks[i]
           N == Len(c.sizes)
           all == RecordsOf(c, N)
           at == ChunkAt(l, i)
           image == ImageOf(l)
           stale == RecordAt(l, i, N + 1)
<1>2. /\ IsChunk(c) /\ N \in Nat /\ N > 0 /\ DOMAIN c.sizes = 1..N
      /\ \A n \in 1..N : c.sizes[n] \in RecordSizes
      /\ \A n \in 1..N : IsBody(c.bodies[n], c.sizes[n])
      /\ c.stale \in Nat /\ (c.stale # 0 => c.stale \in RecordSizes)
      /\ c.stale # 0 => IsBody(c.remains, c.stale)
      /\ all \in Seq(Cell) /\ 1 + Len(all) + c.stale <= ChunkSize
      /\ at \in Nat /\ at + ChunkSize <= Len(image) /\ Len(image) \in Nat
      /\ image[at + 1] = HeaderOf(c)
      /\ \A q \in 1..Len(all) : image[at + 1 + q] = all[q]
      /\ \A j \in 1..c.stale :
            image[at + 1 + Len(all) + j]
               = RecordCells(c.stale, StaleId, c.remains)[j]
  BY ChunkPlaces
<1>3. Len(all) \in Nat /\ ChunkSize \in Nat /\ StaleId \in Int /\ c.id \in Int
  BY <1>2, SizesAre DEF IsChunk
<1>4. \/ s = Structure("chunk", at, stale - at)
      \/ \E n \in 1..N : s = Structure("record", RecordAt(l, i, n), c.sizes[n])
      \/ c.stale # 0 /\ s = Structure("stale", stale, c.stale)
  BY <1>1, <1>2 DEF WrittenIn
<1>5. stale = at + 1 + Len(all)
  <2>1. (N + 1) - 1 = N
    BY <1>2
  <2>2. QED
    BY <2>1 DEF RecordAt
<1>6. CASE s = Structure("chunk", at, stale - at)
  <2>1. s.kind = "chunk" /\ s.offset = at /\ s.size = stale - at
    BY <1>6 DEF Structure
  <2> HIDE DEF all, at, image, N, c, stale
  <2>2. s.size = 1 + Len(all) /\ s.size <= ChunkSize
    BY <2>1, <1>2, <1>3, <1>5
  <2>3. ChunkIn(image, s)
    BY <2>1, <2>2, <1>2 DEF ChunkIn, all, N
  <2>4. QED
    BY <2>1, <2>3 DEF LiesIn, image
<1>7. ASSUME NEW n \in 1..N, s = Structure("record", RecordAt(l, i, n), c.sizes[n])
      PROVE  s.kind = "record" /\ RecordIn(image, s)
  <2> DEFINE place == RecordAt(l, i, n)
             size == c.sizes[n]
             before == Len(RecordsOf(c, n - 1))
  <2>1. /\ RecordsOf(c, n - 1) \in Seq(Cell)
        /\ \A j \in 1..size : /\ before + j \in 1..Len(all)
                              /\ all[before + j]
                                    = RecordCells(size, c.id + n - 1, c.bodies[n])[j]
    <3>1. n - 1 \in 0..N
      BY <1>2
    <3>2. QED
      BY <3>1, <1>2, RecordsLie, ZenonT(40)
  <2>2. place = at + 1 + before /\ before \in Nat
    BY <2>1 DEF RecordAt
  <2>3. size \in RecordSizes /\ IsBody(c.bodies[n], size)
    BY <1>2
  <2> HIDE DEF place, size, before, all, at, image, N, c, stale
  <2>4. size \in Nat /\ size > 0 /\ c.id + n - 1 \in Int
    <3>1. size \in Nat /\ size >= 2
      BY <2>3, SizesAre
    <3>2. n \in Int
      BY <1>2
    <3>3. QED
      BY <3>1, <3>2, <1>3
  <2>5. before + size \in 1..Len(all)
    <3>1. size \in 1..size
      BY <2>4
    <3>2. QED
      BY <2>1, <3>1
  <2>6. place \in Nat /\ place + size <= Len(image) /\ size <= ChunkSize
    <3>1. /\ at \in Nat /\ c.stale \in Nat /\ at + ChunkSize <= Len(image)
          /\ 1 + Len(all) + c.stale <= ChunkSize /\ Len(image) \in Nat
      BY <1>2
    <3>2. before + size <= Len(all)
      BY <2>5
    <3>3. QED
      BY <2>2, <2>4, <3>1, <3>2, <1>3
  <2>7. ASSUME NEW j \in 1..size
        PROVE  image[place + j] = RecordCells(size, c.id + n - 1, c.bodies[n])[j]
    <3>1. place + j = at + 1 + (before + j)
      BY <2>2, <2>4, <1>2
    <3>2. QED
      BY <3>1, <2>1, <1>2
  <2>8. RecordIn(image, Structure("record", place, size))
    BY <2>3, <2>4, <2>6, <2>7, <1>2, RecordPlaced
  <2>9. s = Structure("record", place, size)
    BY <1>7 DEF place, size
  <2>10. QED
    BY <2>8, <2>9 DEF Structure
<1>8. CASE c.stale # 0 /\ s = Structure("stale", stale, c.stale)
  <2>1. c.stale \in RecordSizes /\ IsBody(c.remains, c.stale)
    BY <1>2, <1>8
  <2> HIDE DEF all, at, image, N, c, stale
  <2>2. stale \in Nat /\ stale + c.stale <= Len(image) /\ c.stale <= ChunkSize
    <3>1. /\ at \in Nat /\ c.stale \in Nat /\ at + ChunkSize <= Len(image)
          /\ 1 + Len(all) + c.stale <= ChunkSize /\ Len(image) \in Nat
      BY <1>2
    <3>2. QED
      BY <3>1, <1>3, <1>5
  <2>3. \A j \in 1..c.stale :
           image[stale + j] = RecordCells(c.stale, StaleId, c.remains)[j]
    BY <1>2, <1>5
  <2>4. RecordIn(image, Structure("stale", stale, c.stale))
    BY <2>1, <2>2, <2>3, <1>2, <1>3, RecordPlaced
  <2>5. s.kind = "stale"
    BY <1>8 DEF Structure
  <2>6. QED
    BY <2>4, <2>5, <1>8 DEF LiesIn, image
<1>9. QED
  <2>1. (\E n \in 1..N : s = Structure("record", RecordAt(l, i, n), c.sizes[n]))
        => s.kind = "record" /\ RecordIn(image, s)
    BY <1>7
  <2> HIDE DEF c, N, stale, at, all
  <2>2. QED
    BY <2>1, <1>4, <1>6, <1>8 DEF LiesIn

\* Place p is in the body of a record.
InBody(p, written) == \E s \in written : s.kind # "chunk" /\ p \in Body(s)

\* A cell, at place p, tells where structures were written: a header whose size a
\* record can have, and a word that can be such a size, are those of a record, or
\* something in its body.
Tells(cell, p, written) ==
    /\ cell.magic = "record" =>
          /\ cell.id \in Int
          /\ cell.size <= ChunkSize =>
                \/ \E s \in written :
                      s.kind # "chunk" /\ s.offset + 1 = p /\ s.size = cell.size
                \/ InBody(p, written)
    /\ cell.magic = "chunk" => \E s \in written : s.kind = "chunk" /\ s.offset + 1 = p
    /\ cell.magic = "none" /\ cell.word >= 2 =>
          \/ \E s \in written : /\ s.kind # "chunk" /\ s.offset + s.size = p
                                /\ s.size = cell.word
          \/ InBody(p, written)

\* A zero tells nothing ...
LEMMA NoneTells ==
    ASSUME NEW p, NEW written
    PROVE  Tells(None(0), p, written)
<1>1. None(0).magic = "none" /\ None(0).word = 0
  BY DEF None
<1>2. QED
  BY <1>1 DEF Tells

\* ... and the cells of a record tell where it is.
LEMMA RecordTells ==
    ASSUME NEW size \in RecordSizes, NEW id \in Int, NEW place \in Nat, NEW kind,
           kind # "chunk", NEW written, Structure(kind, place, size) \in written,
           NEW body, IsBody(body, size), NEW j \in 1..size
    PROVE  Tells(RecordCells(size, id, body)[j], place + j, written)
<1> DEFINE s == Structure(kind, place, size)
           cell == RecordCells(size, id, body)[j]
<1>1. s \in written /\ s.kind # "chunk" /\ s.offset = place /\ s.size = size
  BY DEF Structure
<1>2. size \in Nat /\ size >= 2
  BY SizesAre
<1>3. /\ RecordLies(RecordCells(size, id, body), size, id)
      /\ RecordCells(size, id, body) \in Seq(Cell)
      /\ Len(RecordCells(size, id, body)) = size
  BY RecordCellsAre
<1>9. cell \in Cell
  BY <1>3
<1>4. \/ j = 1 /\ cell = RecordHeader(size, id)
      \/ j = size /\ cell = None(size)
      \/ j \in 2 .. size - 1
  <2>1. j = 1 \/ j = size \/ j \in 2 .. size - 1
    BY <1>2
  <2>2. QED
    BY <2>1, <1>3 DEF RecordLies
<1> HIDE DEF s, cell
<1>5. CASE j = 1 /\ cell = RecordHeader(size, id)
  <2>1. cell.magic = "record" /\ cell.size = size /\ cell.id = id
    BY <1>5 DEF RecordHeader
  <2>2. QED
    BY <2>1, <1>1, <1>5 DEF Tells, cell
<1>6. CASE j = size /\ cell = None(size)
  <2>1. cell.magic = "none" /\ cell.word = size
    BY <1>6 DEF None
  <2>2. QED
    BY <2>1, <1>1, <1>6 DEF Tells, cell
<1>7. CASE j \in 2 .. size - 1
  <2>1. place + j \in Body(s)
    BY <1>1, <1>2, <1>7 DEF Body
  <2>2. InBody(place + j, written)
    BY <2>1, <1>1 DEF InBody
  <2>3. cell.magic # "chunk" /\ (cell.magic = "record" => cell.id \in Int)
    BY <1>9 DEF Cell
  <2>4. Tells(cell, place + j, written)
    BY <2>2, <2>3 DEF Tells
  <2>5. QED
    BY <2>4 DEF cell
<1>8. QED
  BY <1>4, <1>5, <1>6, <1>7

\* Every cell of an image does.
LEMMA ImageTells ==
    ASSUME NEW l \in Layouts, NEW p \in 1..Len(ImageOf(l))
    PROVE  Tells(ImageOf(l)[p], p, Written(l))
<1> DEFINE image == ImageOf(l)
           written == Written(l)
<1>1. ImageLies(image, l)
  BY ImageIs
<1>2. \/ p \in 1..Len(l.lead)
      \/ \E i \in 1..Len(l.chunks) : \E j \in 1..ChunkSize : p = ChunkAt(l, i) + j
  <2>1. Len(l.lead) \in Nat
    BY LayoutIs
  <2>2. QED
    BY <2>1, <1>1 DEF ImageLies
<1>3. CASE p \in 1..Len(l.lead)
  <2>1. image[p] = l.lead[p] /\ l.lead[p] \in LeadCell
    BY <1>1, <1>3, LayoutIs DEF ImageLies
  <2>2. image[p].magic = "record" => image[p].size > ChunkSize /\ image[p].size \in Int
    BY <2>1, <1>3, LayoutIs DEF LeadCell
  <2>3. /\ image[p].magic # "chunk" /\ image[p].magic # "none"
        /\ image[p].magic = "record" => image[p].id \in Int
    BY <2>1 DEF LeadCell
  <2>4. ChunkSize \in Nat
    BY SizesAre
  <2>5. image[p].magic = "record" => ~(image[p].size <= ChunkSize)
    BY <2>2, <2>4
  <2> HIDE DEF image, written
  <2>6. Tells(image[p], p, written)
    BY <2>3, <2>5 DEF Tells
  <2>7. QED
    BY <2>6 DEF image, written
<1>4. ASSUME NEW i \in 1..Len(l.chunks), NEW j \in 1..ChunkSize, p = ChunkAt(l, i) + j
      PROVE  Tells(image[p], p, written)
  <2> DEFINE c == l.chunks[i]
             N == Len(c.sizes)
             all == RecordsOf(c, N)
             at == ChunkAt(l, i)
             stale == RecordAt(l, i, N + 1)
  <2>1. /\ IsChunk(c) /\ N \in Nat /\ N > 0 /\ DOMAIN c.sizes = 1..N
        /\ \A n \in 1..N : c.sizes[n] \in RecordSizes
        /\ \A n \in 1..N : IsBody(c.bodies[n], c.sizes[n])
        /\ c.stale \in Nat /\ (c.stale # 0 => c.stale \in RecordSizes)
        /\ c.stale # 0 => IsBody(c.remains, c.stale)
        /\ all \in Seq(Cell) /\ 1 + Len(all) + c.stale <= ChunkSize
        /\ at \in Nat /\ image[at + 1] = HeaderOf(c)
        /\ \A q \in 1..Len(all) : image[at + 1 + q] = all[q]
        /\ \A k \in 1..c.stale :
              image[at + 1 + Len(all) + k]
                 = RecordCells(c.stale, StaleId, c.remains)[k]
        /\ \A k \in 2 + Len(all) + c.stale .. ChunkSize : image[at + k] = None(0)
    BY ChunkPlaces
  <2>2. Len(all) \in Nat /\ ChunkSize \in Nat /\ StaleId \in Int /\ c.id \in Int
    BY <2>1, SizesAre DEF IsChunk
  <2>3. WrittenIn(l, i) \subseteq written
    BY LayoutIs DEF Written
  <2>4. /\ Structure("chunk", at, stale - at) \in WrittenIn(l, i)
        /\ \A n \in 1..N :
              Structure("record", RecordAt(l, i, n), c.sizes[n]) \in WrittenIn(l, i)
        /\ c.stale # 0 => Structure("stale", stale, c.stale) \in WrittenIn(l, i)
    BY <2>1 DEF WrittenIn
  <2>5. stale = at + 1 + Len(all)
    <3>1. (N + 1) - 1 = N
      BY <2>1
    <3>2. QED
      BY <3>1 DEF RecordAt
  <2>6. \A n \in 1..N : RecordAt(l, i, n) = at + 1 + Len(RecordsOf(c, n - 1))
    BY DEF RecordAt
  <2>13. /\ \A n \in 0..N : RecordsOf(c, n) \in Seq(Cell)
         /\ \A q \in 1..Len(all) : \E n \in 1..N : \E k \in 1..c.sizes[n] :
               q = Len(RecordsOf(c, n - 1)) + k
         /\ \A n \in 1..N : \A k \in 1..c.sizes[n] :
               all[Len(RecordsOf(c, n - 1)) + k]
                  = RecordCells(c.sizes[n], c.id + n - 1, c.bodies[n])[k]
    <3> HIDE DEF c, at, stale, image, written
    <3>1. IsChunk(c)
      BY <2>1
    <3> USE <3>1, RecordsLie
    <3>2. \A n \in 0..N : RecordsOf(c, n) \in Seq(Cell)
      OBVIOUS
    <3>3. \A q \in 1..Len(all) : \E n \in 1..N : \E k \in 1..c.sizes[n] :
             q = Len(RecordsOf(c, n - 1)) + k
      OBVIOUS
    <3>4. \A n \in 1..N : \A k \in 1..c.sizes[n] :
             all[Len(RecordsOf(c, n - 1)) + k]
                = RecordCells(c.sizes[n], c.id + n - 1, c.bodies[n])[k]
      OBVIOUS
    <3>5. QED
      BY <3>2, <3>3, <3>4
  <2> HIDE DEF c, N, all, at, stale, image, written
  <2>7. \/ j = 1 \/ j - 1 \in 1..Len(all)
        \/ c.stale # 0 /\ j - 1 - Len(all) \in 1..c.stale
        \/ j \in 2 + Len(all) + c.stale .. ChunkSize
    BY <2>1, <2>2
  <2>8. CASE j = 1
    <3> DEFINE s == Structure("chunk", at, stale - at)
    <3>1. s \in written /\ s.kind = "chunk" /\ s.offset = at
      BY <2>3, <2>4 DEF Structure
    <3>2. image[p] = HeaderOf(c) /\ HeaderOf(c).magic = "chunk" /\ p = at + 1
      BY <2>1, <2>8, <1>4 DEF HeaderOf, at
    <3> HIDE DEF s
    <3>3. image[p].magic = "chunk"
      BY <3>2
    <3>4. QED
      BY <3>1, <3>2, <3>3 DEF Tells
  <2>9. CASE j - 1 \in 1..Len(all)
    <3> DEFINE q == j - 1
    <3>1. q \in 1..Len(all) /\ p = at + 1 + q
      BY <2>9, <2>1, <1>4 DEF at
    <3> HIDE DEF q
    <3>2. PICK n \in 1..N : \E k \in 1..c.sizes[n] : q = Len(RecordsOf(c, n - 1)) + k
      BY <3>1, <2>13
    <3>3. PICK k \in 1..c.sizes[n] : q = Len(RecordsOf(c, n - 1)) + k
      BY <3>2
    <3> DEFINE before == Len(RecordsOf(c, n - 1))
               size == c.sizes[n]
               place == RecordAt(l, i, n)
    <3>4. /\ before \in Nat
          /\ all[before + k] = RecordCells(size, c.id + n - 1, c.bodies[n])[k]
      <4>1. n - 1 \in 0..N
        BY <2>1
      <4>2. RecordsOf(c, n - 1) \in Seq(Cell)
        BY <4>1, <2>13
      <4>3. all[before + k] = RecordCells(size, c.id + n - 1, c.bodies[n])[k]
        BY <2>13
      <4>4. QED
        BY <4>2, <4>3
    <3>5. /\ size \in RecordSizes /\ IsBody(c.bodies[n], size)
          /\ place = at + 1 + before
          /\ Structure("record", place, size) \in written
      BY <2>1, <2>3, <2>4, <2>6
    <3>6. q = before + k /\ k \in 1..size
      BY <3>3
    <3> HIDE DEF before, size, place
    <3>7. size \in Nat
      BY <3>5, SizesAre
    <3>8. c.id + n - 1 \in Int
      <4>1. n \in Int
        OBVIOUS
      <4>2. QED
        BY <4>1, <2>2
    <3>9. place \in Nat /\ p = place + k
      <4>1. at \in Nat /\ before \in Nat /\ k \in Int
        BY <2>1, <3>4, <3>6, <3>7
      <4>2. p = at + 1 + q /\ q = before + k /\ place = at + 1 + before
        BY <3>1, <3>5, <3>6
      <4>3. QED
        BY <4>1, <4>2
    <3>10. image[p] = RecordCells(size, c.id + n - 1, c.bodies[n])[k]
      BY <3>1, <3>4, <3>6, <2>1
    <3>11. Tells(RecordCells(size, c.id + n - 1, c.bodies[n])[k], place + k, written)
      BY <3>5, <3>6, <3>8, <3>9, RecordTells
    <3>12. QED
      BY <3>9, <3>10, <3>11
  <2>10. CASE c.stale # 0 /\ j - 1 - Len(all) \in 1..c.stale
    <3> DEFINE k == j - 1 - Len(all)
    <3>1. k \in 1..c.stale /\ p = stale + k /\ p = at + 1 + Len(all) + k /\ stale \in Nat
      <4>1. at \in Nat /\ Len(all) \in Nat /\ c.stale \in Nat /\ j \in Int
        BY <2>1, <2>2
      <4>2. k \in 1..c.stale /\ p = at + j /\ stale = at + 1 + Len(all)
        BY <2>10, <2>5, <1>4 DEF at
      <4>3. j = k + 1 + Len(all) /\ k \in Int
        BY <4>1
      <4> HIDE DEF k
      <4>4. QED
        BY <4>1, <4>2, <4>3
    <3>2. image[p] = RecordCells(c.stale, StaleId, c.remains)[k]
      BY <3>1, <2>1
    <3>3. /\ c.stale \in RecordSizes /\ IsBody(c.remains, c.stale)
          /\ Structure("stale", stale, c.stale) \in written
      BY <2>10, <2>1, <2>3, <2>4
    <3> HIDE DEF k
    <3>4. Tells(RecordCells(c.stale, StaleId, c.remains)[k], stale + k, written)
      BY <3>1, <3>3, <2>2, RecordTells
    <3>5. QED
      BY <3>1, <3>2, <3>4
  <2>11. CASE j \in 2 + Len(all) + c.stale .. ChunkSize
    <3>1. image[p] = None(0)
      BY <2>11, <2>1, <1>4 DEF at
    <3>2. QED
      BY <3>1, NoneTells
  <2>12. QED
    BY <2>7, <2>8, <2>9, <2>10, <2>11
<1>5. QED
  BY <1>2, <1>3, <1>4

-----------------------------------------------------------------------------
(* What damage makes of an image                                           *)

\* A damaged cell is no header of a structure that is not there; and no damage to the
\* header of a chunk goes with its checksum.
DamageShows(was, is) ==
    /\ is.magic = "record" => was.magic = "record" /\ is.id \in Int /\ is.size \in Int
    /\ is.magic = "chunk" => was.magic = "chunk" /\ (is.header = HeaderSum(is) => is = was)

\* What damage makes of the cells of an image is like that.
LEMMA AlteredShows ==
    ASSUME NEW l \in Layouts, NEW was \in AnyCell(l), NEW is \in {was} \cup Altered(was)
    PROVE  DamageShows(was, is)
<1>1. /\ StaleId \in Int /\ MaxTime \in Int /\ MinTime \in Int /\ MaxRecord \in Int
  BY SizesAre
<1>2. None(1).magic = "none" /\ None(4).magic = "none"
  BY DEF None
<1>3. CASE was \in [magic : {"record"}, size : Int, id : Int, time : Int]
  <2>1. was.magic = "record" /\ was.id \in Int /\ was.size \in Int
    BY <1>3
  <2>2. \/ is = was \/ is = None(1)
        \/ is = [was EXCEPT !.id = StaleId] \/ is = [was EXCEPT !.id = 99]
        \/ is = [was EXCEPT !.time = MaxTime + 1] \/ is = [was EXCEPT !.time = MinTime - 1]
        \/ \E n \in {0, 2, 3, 4, 6, MaxRecord + 1} : is = [was EXCEPT !.size = n]
    BY <2>1 DEF Altered
  <2>3. is.magic = "record" => is.id \in Int /\ is.size \in Int
    BY <2>1, <2>2, <1>1, <1>2, <1>3
  <2>4. is.magic = "record" \/ is.magic = "none"
    BY <2>1, <2>2, <1>2, <1>3
  <2>5. QED
    BY <2>1, <2>3, <2>4 DEF DamageShows
<1>4. CASE was \in [magic : {"none"}, word : Int]
  <2>1. was.magic = "none"
    BY <1>4
  <2>2. is = was \/ is = None(1) \/ is = None(4)
    BY <2>1 DEF Altered
  <2>3. is.magic = "none"
    BY <2>1, <2>2, <1>2
  <2>4. QED
    BY <2>3 DEF DamageShows
<1>5. CASE was \in [magic : {"file"}, first : Int, last : Int, header : Seq(Int)]
  <2>1. was.magic = "file"
    BY <1>5
  <2>2. is = was \/ is = None(1) \/ is = [was EXCEPT !.first = 99]
    BY <2>1 DEF Altered
  <2>3. is.magic = "file" \/ is.magic = "none"
    BY <2>1, <2>2, <1>2, <1>5
  <2>4. QED
    BY <2>3 DEF DamageShows
<1>6. ASSUME NEW c, was = HeaderOf(c)
      PROVE  DamageShows(was, is)
  <2>1. /\ was = [magic |-> "chunk", free |-> was.free, records |-> was.records,
                  first |-> was.first, last |-> was.last, header |-> was.header]
        /\ was.magic = "chunk"
        /\ was.header = <<was.free, was.records, was.first, was.last>>
    BY <1>6 DEF HeaderOf, HeaderSum
  <2>2. \/ is = was \/ is = None(1)
        \/ \E n \in {0, 3, ChunkSize + 1} : is = [was EXCEPT !.free = n]
        \/ is = [was EXCEPT !.first = 99]
    BY <2>1 DEF Altered
  <2>3. CASE is = was
    BY <2>1, <2>3 DEF DamageShows
  <2>4. CASE is = None(1)
    BY <2>4, <1>2 DEF DamageShows
  <2>5. ASSUME NEW n, is = [was EXCEPT !.free = n]
        PROVE  DamageShows(was, is)
    <3>1. /\ is.magic = "chunk" /\ is.free = n /\ is.header = was.header
          /\ HeaderSum(is) = <<n, was.records, was.first, was.last>>
      BY <2>1, <2>5 DEF HeaderSum
    <3>2. ASSUME is.header = HeaderSum(is)
          PROVE  is = was
      <4>1. <<was.free, was.records, was.first, was.last>>
               = <<n, was.records, was.first, was.last>>
        BY <3>1, <3>2, <2>1
      <4>2. was.free = n
        BY <4>1
      <4>3. QED
        BY <4>2, <2>1, <2>5
    <3>3. QED
      BY <3>1, <3>2, <2>1 DEF DamageShows
  <2>6. CASE is = [was EXCEPT !.first = 99]
    <3>1. /\ is.magic = "chunk" /\ is.header = was.header
          /\ HeaderSum(is) = <<was.free, was.records, 99, was.last>>
      BY <2>1, <2>6 DEF HeaderSum
    <3>2. ASSUME is.header = HeaderSum(is)
          PROVE  is = was
      <4>1. <<was.free, was.records, was.first, was.last>>
               = <<was.free, was.records, 99, was.last>>
        BY <3>1, <3>2, <2>1
      <4>2. was.first = 99
        BY <4>1
      <4>3. QED
        BY <4>2, <2>1, <2>6
    <3>3. QED
      BY <3>1, <3>2, <2>1 DEF DamageShows
  <2>7. QED
    BY <2>2, <2>3, <2>4, <2>5, <2>6
<1>7. QED
  BY <1>3, <1>4, <1>5, <1>6 DEF AnyCell, Cell, LeadCell

\* An image is a layout with at most one cell damaged, or its end missing, or one
\* cell unreadable.
Damaged(bytes, image, bad) ==
    /\ Len(bytes) \in Nat /\ Len(image) \in Nat /\ Len(bytes) <= Len(image)
    /\ \A p \in 1..Len(bytes) : bytes[p] \in {image[p]} \cup Altered(image[p])
    /\ \A p, q \in 1..Len(bytes) : bytes[p] # image[p] /\ bytes[q] # image[q] => p = q
    /\ bad \subseteq 0 .. Len(bytes) - 1

\* Every case on an image is like that.
LEMMA CaseIs ==
    ASSUME NEW c \in EvtxCases
    PROVE  /\ c.kinds = <<EvtxExtractor>> /\ c.strays = {}
           /\ \E l \in Layouts : /\ c.pristine = ImageOf(l) /\ c.written = Written(l)
                                 /\ Damaged(c.bytes, c.pristine, c.bad)
<1>1. PICK l \in Layouts : c \in Images(l)
  BY DEF EvtxCases
<1> DEFINE image == ImageOf(l)
<1>2. image \in Seq(AnyCell(l))
  BY ImageIs DEF ImageLies
<1>3. Len(image) \in Nat /\ DOMAIN image = 1..Len(image)
  BY <1>2
<1>4. ASSUME NEW bytes, NEW bad, Damaged(bytes, image, bad), c = EvtxCase(l, bytes, bad)
      PROVE  /\ c.kinds = <<EvtxExtractor>> /\ c.strays = {}
             /\ c.pristine = ImageOf(l) /\ c.written = Written(l)
             /\ Damaged(c.bytes, c.pristine, c.bad)
  <2>1. /\ c.kinds = <<EvtxExtractor>> /\ c.strays = {} /\ c.bytes = bytes /\ c.bad = bad
        /\ c.pristine = ImageOf(l) /\ c.written = Written(l)
    BY <1>4 DEF EvtxCase
  <2>2. QED
    BY <2>1, <1>4
<1>5. \/ \E i \in DOMAIN image : \E cell \in {image[i]} \cup Altered(image[i]) :
            c = EvtxCase(l, [image EXCEPT ![i] = cell], {})
      \/ \E n \in 0 .. Len(image) - 1 : c = EvtxCase(l, SubSeq(image, 1, n), {})
      \/ \E i \in DOMAIN image : c = EvtxCase(l, image, {i - 1})
  <2> DEFINE Changed(i, cell) == EvtxCase(l, [image EXCEPT ![i] = cell], {})
             Cells(i) == {image[i]} \cup Altered(image[i])
             Short(n) == EvtxCase(l, SubSeq(image, 1, n), {})
             Bad(i) == EvtxCase(l, image, {i - 1})
  <2>1. c \in {Short(n) : n \in 0 .. Len(image) - 1}
             \cup {Bad(i) : i \in DOMAIN image}
             \cup UNION {{Changed(i, cell) : cell \in Cells(i)} : i \in DOMAIN image}
    BY <1>1 DEF Images
  <2> HIDE DEF Changed, Cells, Short, Bad, image
  <2>2. \/ \E i \in DOMAIN image : \E cell \in Cells(i) : c = Changed(i, cell)
        \/ \E n \in 0 .. Len(image) - 1 : c = Short(n)
        \/ \E i \in DOMAIN image : c = Bad(i)
    BY <2>1
  <2>3. QED
    BY <2>2 DEF Changed, Cells, Short, Bad
<1> HIDE DEF image
<1>6. ASSUME NEW i \in DOMAIN image, NEW cell \in {image[i]} \cup Altered(image[i])
      PROVE  Damaged([image EXCEPT ![i] = cell], image, {})
  <2> DEFINE bytes == [image EXCEPT ![i] = cell]
  <2>1. /\ DOMAIN bytes = 1..Len(image)
        /\ \A p \in 1..Len(image) : bytes[p] = IF p = i THEN cell ELSE image[p]
    BY <1>3
  <2>2. Len(bytes) = Len(image)
    BY <2>1, <1>3
  <2> HIDE DEF bytes
  <2>3. \A p \in 1..Len(image) : bytes[p] \in {image[p]} \cup Altered(image[p])
    BY <2>1, <1>6
  <2>4. \A p \in 1..Len(image) : bytes[p] # image[p] => p = i
    BY <2>1
  <2>5. Damaged(bytes, image, {})
    BY <2>2, <2>3, <2>4, <1>3 DEF Damaged
  <2>6. QED
    BY <2>5 DEF bytes
<1>7. ASSUME NEW n \in 0 .. Len(image) - 1
      PROVE  Damaged(SubSeq(image, 1, n), image, {})
  <2> DEFINE bytes == SubSeq(image, 1, n)
  <2>1. n \in 0..Len(image) /\ n \in Nat
    BY <1>3
  <2>2. Len(bytes) = n /\ \A p \in 1..n : bytes[p] = image[p]
    BY <2>1, <1>2, FrontOf
  <2> HIDE DEF bytes
  <2>3. Damaged(bytes, image, {})
    BY <2>1, <2>2, <1>3 DEF Damaged
  <2>4. QED
    BY <2>3 DEF bytes
<1>8. ASSUME NEW i \in DOMAIN image
      PROVE  Damaged(image, image, {i - 1})
  BY <1>3 DEF Damaged
<1>9. QED
  BY <1>4, <1>5, <1>6, <1>7, <1>8 DEF image

-----------------------------------------------------------------------------
(* What the registry makes of an image                                     *)

\* What is read for a hit at offset o, and whether it can be.
Span(o) == Reach(EvtxExtractor, run.bytes, o)
Ahead(o) == SubSeq(run.bytes, o + 1, o + Span(o))
Readable(o) == run.bad \cap (o .. o + Span(o) - 1) = {}

\* It is the largest structure, or what is left of the source.
LEMMA SpanIs ==
    ASSUME NEW o \in Nat, Len(run.bytes) \in Nat, o < Len(run.bytes)
    PROVE  /\ Span(o) \in Nat /\ Span(o) > 0 /\ Span(o) <= ChunkSize
           /\ o + Span(o) <= Len(run.bytes)
           /\ Span(o) = ChunkSize \/ o + Span(o) = Len(run.bytes)
           /\ Span(o) = Min({ChunkSize, Len(run.bytes) - o})
<1> DEFINE left == Len(run.bytes) - o
<1>1. ChunkSize \in Nat /\ ChunkSize > 0 /\ left \in Nat /\ left > 0
  BY SizesAre
<1>2. EvtxExtractor.window = ChunkSize
  BY DEF EvtxExtractor
<1>3. Max({0, left}) = left
  <2>1. {0, left} \subseteq Int /\ left \in {0, left} /\ \A y \in {0, left} : y <= left
    BY <1>1
  <2>2. QED
    BY <2>1, MaxIs
<1>4. Span(o) = Min({ChunkSize, left})
  BY <1>2, <1>3 DEF Span, Reach
<1> DEFINE S == {ChunkSize, left}
<1>5. S \subseteq Int /\ ChunkSize \in S /\ left \in S
  BY <1>1
<1>6. CASE ChunkSize <= left
  <2>1. \A y \in S : ChunkSize <= y
    BY <1>1, <1>6
  <2> HIDE DEF S, left
  <2>2. Min(S) = ChunkSize
    BY <1>5, <2>1, MinIs
  <2>3. QED
    BY <2>2, <1>1, <1>4, <1>6 DEF S, left
<1>7. CASE ~(ChunkSize <= left)
  <2>1. \A y \in S : left <= y
    BY <1>1, <1>7
  <2> HIDE DEF S, left
  <2>2. Min(S) = left
    BY <1>5, <2>1, MinIs
  <2>3. QED
    BY <2>2, <1>1, <1>4, <1>7 DEF S, left
<1>8. QED
  BY <1>6, <1>7

\* Those are the bytes from there on.
LEMMA AheadIs ==
    ASSUME NEW S, run.bytes \in Seq(S), NEW o \in Nat, o < Len(run.bytes)
    PROVE  /\ Ahead(o) \in Seq(S) /\ Len(Ahead(o)) = Span(o)
           /\ \A i \in 1..Span(o) : Ahead(o)[i] = run.bytes[o + i]
<1>1. Len(run.bytes) \in Nat
  OBVIOUS
<1>2. /\ Span(o) \in Nat /\ o + Span(o) <= Len(run.bytes)
  BY <1>1, SpanIs
<1>3. QED
  BY <1>2, SliceIs DEF Ahead

\* The hits are those of the scan, once the registry is built.
Scanned ==
    phase # "building" => extractors = run.kinds /\ hits = Found \cup run.strays

\* They are, in every reachable state.
LEMMA ScannedSteps ==
    /\ Init => Scanned
    /\ Shape /\ Scanned /\ [Next]_vars => Scanned'
<1>1. Init => Scanned
  BY DEF Init, Scanned
<1>2. ASSUME Scanned, [Next]_vars
      PROVE  Scanned'
  <2>1. UNCHANGED <<run, extractors>> => Found' = Found
    BY DEF Found, Patterns
  <2>2. CASE Register
    BY <2>2 DEF Register, Scanned
  <2>3. CASE Build
    BY <2>1, <2>3 DEF Build, Scanned
  <2>4. ASSUME UNCHANGED <<run, extractors, hits>>, phase # "building" \/ phase' = phase
        PROVE  Scanned'
    BY <1>2, <2>1, <2>4 DEF Scanned
  <2>5. CASE Processing
    <3>1. UNCHANGED <<run, extractors, hits>> /\ (phase # "building" \/ phase' = phase)
      BY <2>5 DEF Processing, IgnoreUnknown, Dispatch, Reject, Accept, Emit, Land, Join, fixed
    <3>2. QED
      BY <3>1, <2>4
  <2>6. CASE StartDiagnostics \/ LoadCounter \/ Done \/ UNCHANGED vars
    <3>1. UNCHANGED <<run, extractors, hits, phase>>
      BY <2>6 DEF StartDiagnostics, LoadCounter, Done, vars, fixed
    <3>2. QED
      BY <3>1, <2>4
  <2>7. QED
    BY <1>2, <2>2, <2>3, <2>5, <2>6 DEF Next
<1>3. QED
  BY <1>1, <1>2

\* The signatures of the EVTX extractor, and what they hit.
LEMMA EvtxPatterns ==
    ASSUME extractors = <<EvtxExtractor>>
    PROVE  /\ Patterns = << <<"chunk">>, <<"record">>, <<"file">> >>
           /\ PatternOwner = <<1, 1, 1>>
<1> DEFINE names == << <<"chunk">>, <<"record">>, <<"file">> >>
           owners == <<1, 1, 1>>
           S == Seq({"chunk", "record", "file"})
<1>1. EvtxExtractor.signatures = names
  BY DEF EvtxExtractor
<1>2. DOMAIN extractors = {1} /\ extractors[1] = EvtxExtractor
  OBVIOUS
<1>3. names \in Seq(S) /\ DOMAIN names = 1..3 /\ owners \in Seq({1})
  OBVIOUS
<1>4. owners = [s \in 1..3 |-> 1]
  OBVIOUS
<1>5. ASSUME NEW T, NEW x \in Seq(T)
      PROVE  FlattenSeq([e \in {1} |-> x]) = x
  <2> DEFINE one == [e \in {1} |-> x]
  <2>1. one = <<x>>
    OBVIOUS
  <2> DEFINE none == <<>>
  <2>2. /\ <<x>> \in Seq(Seq(T)) /\ none \in Seq(Seq(T)) /\ Len(<<x>>) = Len(none) + 1
        /\ \A k \in 1..Len(none) : <<x>>[k] = none[k]
    OBVIOUS
  <2>3. FlattenSeq(<<x>>) = FlattenSeq(none) \o <<x>>[Len(<<x>>)]
    BY <2>2, FlattenMore
  <2>4. <<>> \o x = x
    OBVIOUS
  <2>5. QED
    BY <2>1, <2>3, <2>4, FlattenNone
<1> HIDE DEF names, owners, S
<1>6. Patterns = FlattenSeq([e \in {1} |-> names])
  BY <1>1, <1>2 DEF Patterns
<1>7. PatternOwner = FlattenSeq([e \in {1} |-> owners])
  <2>1. \A e \in {1} : [s \in DOMAIN extractors[e].signatures |-> e] = owners
    BY <1>1, <1>2, <1>3, <1>4
  <2>2. QED
    BY <1>2, <2>1 DEF PatternOwner
<1>8. QED
  BY <1>3, <1>5, <1>6, <1>7 DEF names, owners

\* Every hit is for the EVTX extractor, and every header of a chunk or a record is hit.
LEMMA FoundIs ==
    ASSUME extractors = <<EvtxExtractor>>, NEW S, run.bytes \in Seq(S)
    PROVE  /\ \A h \in Found : /\ h.offset \in 0 .. Len(run.bytes) - 1
                               /\ Known(h.pattern) /\ Owner(h.pattern) = 1
           /\ \A o \in 0 .. Len(run.bytes) - 1 :
                 run.bytes[o + 1].magic \in {"chunk", "record"} =>
                    \E h \in Found : h.offset = o
<1> DEFINE n == Len(run.bytes)
           bytes == [i \in DOMAIN run.bytes |-> run.bytes[i].magic]
           names == << <<"chunk">>, <<"record">>, <<"file">> >>
<1>1. n \in Nat /\ DOMAIN run.bytes = 1..n
  OBVIOUS
<1>2. Len(bytes) = n /\ \A i \in 1..n : bytes[i] = run.bytes[i].magic
  <2> DEFINE T == {run.bytes[i].magic : i \in 1..n}
  <2>1. bytes \in [1..n -> T]
    BY <1>1
  <2>2. \A i \in 1..n : bytes[i] = run.bytes[i].magic
    BY <1>1
  <2> HIDE DEF bytes, T
  <2>3. QED
    BY <1>1, <2>1, <2>2, FunctionIsSequence
<1>3. /\ Patterns = names /\ PatternOwner = <<1, 1, 1>>
  BY EvtxPatterns
<1>4. Len(Patterns) = 3 /\ \A k \in 1..3 : PatternOwner[k] = 1
  BY <1>3
<1>5. DOMAIN names = 1..3 /\ Len(names[1]) = 1 /\ Len(names[2]) = 1
  OBVIOUS
<1>6. names[1][1] = "chunk" /\ names[2][1] = "record"
  OBVIOUS
<1> HIDE DEF n, bytes, names
<1>7. Found = {[offset |-> h.offset, pattern |-> h.pattern - 1] :
                  h \in Scan!Occurrences(names, bytes)}
  BY <1>3 DEF Found, bytes
<1>8. Scan!Occurrences(names, bytes) =
         {h \in [offset : 0 .. n - 1, pattern : 1..3] :
            Scan!MatchesAt(names, bytes, h.offset, h.pattern)}
  BY <1>2, <1>5 DEF Scan!Occurrences, Scan!Hits
<1>9. ASSUME NEW h \in Found
      PROVE  h.offset \in 0 .. n - 1 /\ Known(h.pattern) /\ Owner(h.pattern) = 1
  <2>1. PICK g \in [offset : 0 .. n - 1, pattern : 1..3] :
               h = [offset |-> g.offset, pattern |-> g.pattern - 1]
    BY <1>7, <1>8
  <2>2. h.offset \in 0 .. n - 1 /\ h.pattern \in 0..2
    BY <2>1
  <2>3. h.pattern < 3 /\ h.pattern + 1 \in 1..3
    BY <2>2
  <2>4. QED
    BY <2>2, <2>3, <1>4 DEF Known, Owner
<1>10. ASSUME NEW o \in 0 .. n - 1, NEW k \in {1, 2}, run.bytes[o + 1].magic = names[k][1]
       PROVE  \E h \in Found : h.offset = o
  <2> DEFINE g == [offset |-> o, pattern |-> k]
             h == [offset |-> o, pattern |-> k - 1]
  <2>1. g \in [offset : 0 .. n - 1, pattern : 1..3] /\ g.offset = o /\ g.pattern = k
    BY <1>1
  <2>2. Scan!MatchesAt(names, bytes, o, k)
    <3>1. Len(names[k]) = 1
      BY <1>5
    <3>2. o + 1 \in 1..n /\ o + 1 <= Len(bytes)
      BY <1>1, <1>2
    <3>3. bytes[o + 1] = names[k][1]
      BY <1>2, <1>10, <3>2
    <3>4. \A m \in 1..1 : bytes[o + m] = names[k][m]
      BY <3>3
    <3>5. QED
      BY <3>1, <3>2, <3>4 DEF Scan!MatchesAt
  <2>3. g \in Scan!Occurrences(names, bytes)
    BY <1>8, <2>1, <2>2
  <2>4. h \in Found
    BY <1>7, <2>1, <2>3
  <2>5. h.offset = o
    OBVIOUS
  <2>6. QED
    BY <2>4, <2>5
<1>11. \A o \in 0 .. n - 1 : run.bytes[o + 1].magic \in {"chunk", "record"} =>
          \E h \in Found : h.offset = o
  BY <1>6, <1>10
<1>12. QED
  BY <1>9, <1>11 DEF n

\* The cases are of two kinds.
OnImages ==
    /\ run \in EvtxCases
    /\ \A o \in 0 .. Len(run.bytes) - 1 :
          Extract(EvtxExtractor, o, Ahead(o)) = ExtractEvtx(o, Ahead(o))

Elsewhere ==
    /\ run.written = {}
    /\ \A kind \in ToSet(run.kinds) : \A o \in HitOffsets(run) :
          \A a \in ToSet(Extract(kind, o, SubSeq(run.bytes, o + 1,
                                            o + Reach(kind, run.bytes, o))).carved) :
             a.kind \notin {"chunk", "record"}

\* There is no other kind.
LEMMA CasesAre ==
    ASSUME CarvingAssumption, run \in Cases
    PROVE  OnImages \/ Elsewhere
  BY DEF CarvingAssumption, OnImages, Elsewhere, Ahead, Span, HitOffsets

\* What comes of the hits at an offset.
Verdicts(o) == IF Readable(o) /\ ExtractEvtx(o, Ahead(o)).ok
               THEN ExtractEvtx(o, Ahead(o)).carved ELSE <<>>

\* The answer to a hit is what comes of its offset.
LEMMA EvtxAnswers ==
    ASSUME OnImages, extractors = <<EvtxExtractor>>, NEW S, run.bytes \in Seq(S),
           NEW h \in Found
    PROVE  h.offset \in 0 .. Len(run.bytes) - 1 /\ Answer(h) = Verdicts(h.offset)
<1>1. /\ h.offset \in 0 .. Len(run.bytes) - 1
      /\ Known(h.pattern) /\ Owner(h.pattern) = 1
  BY FoundIs
<1>2. extractors[Owner(h.pattern)] = EvtxExtractor
  BY <1>1
<1>3. Window(h) = Span(h.offset)
  BY <1>2 DEF Window, Span
<1>4. WindowBytes(h) = Ahead(h.offset) /\ (Unreadable(h) <=> ~Readable(h.offset))
  BY <1>3 DEF WindowBytes, Unreadable, Ahead, Readable
<1>5. Verdict(h) = ExtractEvtx(h.offset, Ahead(h.offset))
  BY <1>1, <1>2, <1>4 DEF Verdict, OnImages
<1>6. QED
  BY <1>1, <1>4, <1>5 DEF Answer, Good, Verdicts

\* What is carved, at which offset.
RecordCarved(o) == Readable(o) /\ Starts("record", Ahead(o)) /\ ValidRecord(Ahead(o))
RecordArtefact(o) == Carved(o, "record", Ahead(o), Ahead(o)[1].size)
ChunkCarved(o) == Readable(o) /\ Starts("chunk", Ahead(o)) /\ ValidChunk(Ahead(o))
ChunkArtefact(o) == Carved(o, "chunk", Ahead(o), ChunkLength(Ahead(o)))

\* A verdict is a record, a chunk, or neither.
LEMMA VerdictsAre ==
    ASSUME NEW o
    PROVE  /\ \A a \in ToSet(Verdicts(o)) :
                 /\ a.kind = "record" => RecordCarved(o) /\ a = RecordArtefact(o)
                 /\ a.kind = "chunk" => ChunkCarved(o) /\ a = ChunkArtefact(o)
           /\ RecordCarved(o) => RecordArtefact(o) \in ToSet(Verdicts(o))
           /\ ChunkCarved(o) => ChunkArtefact(o) \in ToSet(Verdicts(o))
<1> DEFINE data == Ahead(o)
           file == Carved(o, "file", data, 1)
<1>1. RecordArtefact(o).kind = "record" /\ ChunkArtefact(o).kind = "chunk"
      /\ file.kind = "file"
  BY DEF RecordArtefact, ChunkArtefact, Carved
<1>2. /\ Starts("chunk", data) => ~Starts("record", data)
      /\ Starts("file", data) => ~Starts("record", data)
  BY DEF Starts
<1>3. \A x : ToSet(<<x>>) = {x}
  BY DEF ToSet
<1>4. ToSet(<<>>) = {}
  BY DEF ToSet
<1>5. Verdicts(o) =
         IF ~Readable(o) THEN <<>>
         ELSE IF Starts("chunk", data)
              THEN IF ValidChunk(data) THEN <<ChunkArtefact(o)>> ELSE <<>>
         ELSE IF Starts("file", data)
              THEN IF ValidFileHeader(data) THEN <<file>> ELSE <<>>
         ELSE IF Starts("record", data)
              THEN IF ValidRecord(data) THEN <<RecordArtefact(o)>> ELSE <<>>
         ELSE <<>>
  BY DEF Verdicts, ExtractEvtx, If, Refused, ChunkArtefact, RecordArtefact
<1> HIDE DEF data, file
<1>6. CASE Readable(o) /\ Starts("chunk", data) /\ ValidChunk(data)
  <2>1. Verdicts(o) = <<ChunkArtefact(o)>>
    BY <1>5, <1>6
  <2>2. QED
    BY <2>1, <1>1, <1>2, <1>3, <1>6 DEF RecordCarved, ChunkCarved, data
<1>7. CASE Readable(o) /\ ~Starts("chunk", data) /\ Starts("file", data)
             /\ ValidFileHeader(data)
  <2>1. Verdicts(o) = <<file>>
    BY <1>5, <1>7
  <2>2. QED
    BY <2>1, <1>1, <1>2, <1>3, <1>7 DEF RecordCarved, ChunkCarved, data
<1>8. CASE Readable(o) /\ ~Starts("chunk", data) /\ ~Starts("file", data)
             /\ Starts("record", data) /\ ValidRecord(data)
  <2>1. Verdicts(o) = <<RecordArtefact(o)>>
    BY <1>5, <1>8
  <2>2. QED
    BY <2>1, <1>1, <1>2, <1>3, <1>8 DEF RecordCarved, ChunkCarved, data
<1>9. CASE ~(Readable(o) /\ Starts("chunk", data) /\ ValidChunk(data))
           /\ ~(Readable(o) /\ ~Starts("chunk", data) /\ Starts("file", data)
                 /\ ValidFileHeader(data))
           /\ ~(Readable(o) /\ ~Starts("chunk", data) /\ ~Starts("file", data)
                 /\ Starts("record", data) /\ ValidRecord(data))
  <2>1. Verdicts(o) = <<>>
    BY <1>5, <1>9
  <2>2. ~RecordCarved(o) /\ ~ChunkCarved(o)
    BY <1>2, <1>9 DEF RecordCarved, ChunkCarved, data
  <2>3. QED
    BY <2>1, <2>2, <1>4
<1>10. QED
  BY <1>6, <1>7, <1>8, <1>9

\* The artefacts are those that the offsets give; all of them at the end.
LEMMA ArtefactsAre ==
    ASSUME OnImages, extractors = <<EvtxExtractor>>, hits = Found,
           NEW S, run.bytes \in Seq(S), Answers
    PROVE  /\ \A a \in Artefacts("record") : \E o \in 0 .. Len(run.bytes) - 1 :
                 RecordCarved(o) /\ a = RecordArtefact(o)
           /\ \A a \in Artefacts("chunk") : \E o \in 0 .. Len(run.bytes) - 1 :
                 ChunkCarved(o) /\ a = ChunkArtefact(o)
           /\ DOMAIN results = hits =>
                 \A o \in 0 .. Len(run.bytes) - 1 :
                    /\ RecordCarved(o) => RecordArtefact(o) \in Artefacts("record")
                    /\ ChunkCarved(o) => ChunkArtefact(o) \in Artefacts("chunk")
<1>1. \A h \in DOMAIN results : h \in Found /\ results[h] = Answer(h)
  BY DEF Answers
<1>2. \A h \in Found : h.offset \in 0 .. Len(run.bytes) - 1
                       /\ Answer(h) = Verdicts(h.offset)
  BY EvtxAnswers
<1>3. ASSUME NEW a, NEW kind \in {"record", "chunk"}, a \in Artefacts(kind)
      PROVE  /\ a.kind = kind
             /\ \E o \in 0 .. Len(run.bytes) - 1 : a \in ToSet(Verdicts(o))
  <2>1. a.kind = kind /\ \E h \in DOMAIN results : a \in ToSet(results[h])
    BY <1>3 DEF Artefacts
  <2>2. QED
    BY <2>1, <1>1, <1>2
<1>4. ASSUME DOMAIN results = hits, NEW o \in 0 .. Len(run.bytes) - 1,
             NEW a \in ToSet(Verdicts(o)), NEW kind \in {"record", "chunk"}, a.kind = kind,
             Starts(kind, Ahead(o))
      PROVE  a \in Artefacts(kind)
  <2>1. run.bytes[o + 1].magic = kind
    <3>1. o \in Nat /\ o < Len(run.bytes) /\ Len(run.bytes) \in Nat
      OBVIOUS
    <3>2. Span(o) \in Nat /\ Span(o) > 0
      BY <3>1, SpanIs
    <3>3. Ahead(o)[1] = run.bytes[o + 1]
      <4>1. \A i \in 1..Span(o) : Ahead(o)[i] = run.bytes[o + i]
        BY <3>1, AheadIs
      <4>2. 1 \in 1..Span(o)
        BY <3>2
      <4>3. QED
        BY <4>1, <4>2
    <3>4. QED
      BY <3>3, <1>4 DEF Starts
  <2>2. PICK h \in Found : h.offset = o
    BY <2>1, FoundIs
  <2>3. h \in DOMAIN results /\ results[h] = Verdicts(o)
    BY <2>2, <1>1, <1>2, <1>4
  <2>4. QED
    BY <2>3, <1>4 DEF Artefacts
<1>5. ASSUME NEW o
      PROVE  /\ RecordArtefact(o).kind = "record" /\ ChunkArtefact(o).kind = "chunk"
             /\ RecordCarved(o) => Starts("record", Ahead(o))
             /\ ChunkCarved(o) => Starts("chunk", Ahead(o))
  BY DEF RecordArtefact, ChunkArtefact, Carved, RecordCarved, ChunkCarved
<1>6. \A a \in Artefacts("record") : \E o \in 0 .. Len(run.bytes) - 1 :
         RecordCarved(o) /\ a = RecordArtefact(o)
  BY <1>3, VerdictsAre
<1>7. \A a \in Artefacts("chunk") : \E o \in 0 .. Len(run.bytes) - 1 :
         ChunkCarved(o) /\ a = ChunkArtefact(o)
  BY <1>3, VerdictsAre
<1>8. ASSUME DOMAIN results = hits, NEW o \in 0 .. Len(run.bytes) - 1
      PROVE  /\ RecordCarved(o) => RecordArtefact(o) \in Artefacts("record")
             /\ ChunkCarved(o) => ChunkArtefact(o) \in Artefacts("chunk")
  BY <1>4, <1>5, <1>8, VerdictsAre
<1>9. QED
  BY <1>6, <1>7, <1>8

-----------------------------------------------------------------------------
(* What was written against what is carved                                 *)

\* What is known of the image that is processed, and of what was written there.
ImageFacts ==
    /\ Len(run.bytes) \in Nat /\ Len(run.pristine) \in Nat
    /\ Len(run.bytes) <= Len(run.pristine)
    /\ \A p, q \in 1..Len(run.bytes) :
          run.bytes[p] # run.pristine[p] /\ run.bytes[q] # run.pristine[q] => p = q
    /\ \A p \in 1..Len(run.bytes) : DamageShows(run.pristine[p], run.bytes[p])
    /\ \A p \in 1..Len(run.pristine) : Tells(run.pristine[p], p, run.written)
    /\ \A s \in run.written :
          s.kind \in {"chunk", "record", "stale"} /\ LiesIn(run.pristine, s)
    /\ run.bad \subseteq 0 .. Len(run.bytes) - 1

\* It is known of every case on an image.
LEMMA ImageFactsHold ==
    ASSUME run \in EvtxCases
    PROVE  /\ run.kinds = <<EvtxExtractor>> /\ run.strays = {}
           /\ ImageFacts /\ \E S : run.pristine \in Seq(S)
<1>1. /\ run.kinds = <<EvtxExtractor>> /\ run.strays = {}
      /\ \E l \in Layouts : /\ run.pristine = ImageOf(l) /\ run.written = Written(l)
                            /\ Damaged(run.bytes, run.pristine, run.bad)
  BY CaseIs
<1>2. PICK l \in Layouts : /\ run.pristine = ImageOf(l) /\ run.written = Written(l)
                           /\ Damaged(run.bytes, run.pristine, run.bad)
  BY <1>1
<1>3. run.pristine \in Seq(AnyCell(l))
  BY <1>2, ImageIs DEF ImageLies
<1>4. /\ Len(run.bytes) \in Nat /\ Len(run.pristine) \in Nat
      /\ Len(run.bytes) <= Len(run.pristine)
      /\ \A p, q \in 1..Len(run.bytes) :
            run.bytes[p] # run.pristine[p] /\ run.bytes[q] # run.pristine[q] => p = q
      /\ \A p \in 1..Len(run.bytes) :
            run.bytes[p] \in {run.pristine[p]} \cup Altered(run.pristine[p])
      /\ run.bad \subseteq 0 .. Len(run.bytes) - 1
  BY <1>2 DEF Damaged
<1>5. ASSUME NEW p \in 1..Len(run.bytes)
      PROVE  DamageShows(run.pristine[p], run.bytes[p])
  <2>1. p \in 1..Len(run.pristine)
    BY <1>4
  <2>2. run.pristine[p] \in AnyCell(l)
    BY <2>1, <1>3
  <2>3. QED
    BY <2>2, <1>4, AlteredShows
<1>6. \A p \in 1..Len(run.pristine) : Tells(run.pristine[p], p, run.written)
  BY <1>2, ImageTells
<1>7. \A s \in run.written :
         s.kind \in {"chunk", "record", "stale"} /\ LiesIn(run.pristine, s)
  BY <1>2, WrittenLies
<1>8. ImageFacts
  BY <1>4, <1>5, <1>6, <1>7 DEF ImageFacts
<1>9. QED
  BY <1>1, <1>3, <1>8

\* What is read at offset o of the source.
LEMMA DataIs ==
    ASSUME NEW S, run.bytes \in Seq(S), NEW o \in 0 .. Len(run.bytes) - 1
    PROVE  /\ Ahead(o) \in Seq(S) /\ Len(Ahead(o)) = Span(o) /\ Ahead(o) # <<>>
           /\ o \in Nat /\ o < Len(run.bytes) /\ Len(run.bytes) \in Nat
           /\ Span(o) \in Nat /\ Span(o) > 0 /\ Span(o) <= ChunkSize
           /\ o + Span(o) <= Len(run.bytes)
           /\ Span(o) = ChunkSize \/ o + Span(o) = Len(run.bytes)
           /\ \A i \in 1..Span(o) : Ahead(o)[i] = run.bytes[o + i]
           /\ Ahead(o)[1] = run.bytes[o + 1]
<1>1. o \in Nat /\ o < Len(run.bytes) /\ Len(run.bytes) \in Nat
  OBVIOUS
<1>2. /\ Span(o) \in Nat /\ Span(o) > 0 /\ Span(o) <= ChunkSize
      /\ o + Span(o) <= Len(run.bytes)
      /\ Span(o) = ChunkSize \/ o + Span(o) = Len(run.bytes)
  BY <1>1, SpanIs
<1>3. /\ Ahead(o) \in Seq(S) /\ Len(Ahead(o)) = Span(o)
      /\ \A i \in 1..Span(o) : Ahead(o)[i] = run.bytes[o + i]
  BY <1>1, AheadIs
<1>4. 1 \in 1..Span(o) /\ Ahead(o) # <<>>
  BY <1>2, <1>3
<1>5. QED
  BY <1>1, <1>2, <1>3, <1>4

\* A record that is carved was written there, at that length, or is in the body of
\* one that was.
LEMMA RecordWasWritten ==
    ASSUME ImageFacts, NEW S, run.bytes \in Seq(S), NEW o \in 0 .. Len(run.bytes) - 1,
           RecordCarved(o)
    PROVE  \/ \E s \in Was("record") \cup Was("stale") :
                 /\ RecordArtefact(o).offset = s.offset
                 /\ Len(RecordArtefact(o).bytes) = s.size
           \/ Imitated(RecordArtefact(o))
<1> DEFINE data == Ahead(o)
           n == data[1].size
<1>1. /\ data \in Seq(S) /\ Len(data) = Span(o) /\ o \in Nat /\ Len(run.bytes) \in Nat
      /\ Span(o) \in Nat /\ Span(o) > 0 /\ Span(o) <= ChunkSize
      /\ o + Span(o) <= Len(run.bytes)
      /\ \A i \in 1..Span(o) : data[i] = run.bytes[o + i]
      /\ data[1] = run.bytes[o + 1]
  BY DataIs
<1>2. /\ Starts("record", data) /\ n >= MinRecord /\ n <= Len(data)
      /\ Word(data[n]) = n
  BY DEF RecordCarved, ValidRecord, Framed
<1>3. ChunkSize \in Nat /\ MinRecord \in Nat /\ MinRecord >= 2
  BY SizesAre
<1> DEFINE first == o + 1
           last == o + n
<1>4. first \in 1..Len(run.bytes) /\ first \in 1..Len(run.pristine)
  BY <1>1 DEF ImageFacts
<1>5. run.bytes[first].magic = "record"
  BY <1>1, <1>2 DEF Starts
<1>6. n \in Int
  BY <1>1, <1>4, <1>5 DEF ImageFacts, DamageShows
<1> HIDE DEF data, n
<1>7. n \in Nat /\ n >= 2 /\ n <= Span(o) /\ n <= ChunkSize /\ n \in 1..Span(o)
  BY <1>1, <1>2, <1>3, <1>6
<1>8. last \in 1..Len(run.bytes) /\ last \in 1..Len(run.pristine) /\ first # last
  BY <1>1, <1>7 DEF ImageFacts
<1>9. /\ Word(run.bytes[last]) = n
      /\ run.bytes[last].magic = "none" /\ run.bytes[last].word = n
  <2>1. Word(run.bytes[last]) = n
    BY <1>1, <1>2, <1>7
  <2>2. QED
    BY <2>1, <1>7 DEF Word
<1>10. RecordArtefact(o).offset = o /\ Len(RecordArtefact(o).bytes) = n
  <2>1. n \in 0..Len(data)
    BY <1>1, <1>7
  <2>2. Len(SubSeq(data, 1, n)) = n
    BY <1>1, <2>1, FrontOf
  <2>3. QED
    BY <2>2 DEF RecordArtefact, Carved, data, n
<1>11. run.bytes[first] = run.pristine[first] \/ run.bytes[last] = run.pristine[last]
  BY <1>4, <1>8 DEF ImageFacts
<1>12. ASSUME NEW s \in run.written, s.kind # "chunk"
       PROVE  s.offset \in Nat /\ s \in Was("record") \cup Was("stale")
  BY <1>12 DEF ImageFacts, LiesIn, RecordIn, Was
<1>16. RecordArtefact(o).offset + 1 = first
       /\ RecordArtefact(o).offset + Len(RecordArtefact(o).bytes) = last
  BY <1>10
<1> HIDE DEF first, last
<1>13. CASE run.bytes[first] = run.pristine[first]
  <2>1. Tells(run.bytes[first], first, run.written)
    BY <1>4, <1>13 DEF ImageFacts
  <2>2. run.bytes[first].size = n /\ first = o + 1
    BY <1>1 DEF n, first
  <2>3. \/ \E s \in run.written : s.kind # "chunk" /\ s.offset + 1 = first /\ s.size = n
        \/ InBody(first, run.written)
    BY <2>1, <2>2, <1>5, <1>7 DEF Tells
  <2>4. ASSUME NEW s \in run.written, s.kind # "chunk", s.offset + 1 = first, s.size = n
        PROVE  s.offset = o /\ s \in Was("record") \cup Was("stale")
    BY <2>2, <2>4, <1>1, <1>12
  <2>5. ASSUME InBody(first, run.written)
        PROVE  Imitated(RecordArtefact(o))
    <3>1. PICK s \in run.written : s.kind # "chunk" /\ first \in Body(s)
      BY <2>5 DEF InBody
    <3>2. run.pristine[first].magic = "record"
      BY <1>5, <1>13
    <3>3. QED
      BY <3>1, <3>2, <1>12, <1>16 DEF Imitated
  <2>6. QED
    BY <2>3, <2>4, <2>5, <1>10
<1>14. CASE run.bytes[last] = run.pristine[last]
  <2>1. Tells(run.bytes[last], last, run.written)
    BY <1>8, <1>14 DEF ImageFacts
  <2>2. \/ \E s \in run.written :
              s.kind # "chunk" /\ s.offset + s.size = last /\ s.size = n
        \/ InBody(last, run.written)
    BY <2>1, <1>7, <1>9 DEF Tells
  <2>3. ASSUME NEW s \in run.written, s.kind # "chunk", s.offset + s.size = last,
               s.size = n
        PROVE  s.offset = o /\ s \in Was("record") \cup Was("stale")
    BY <2>3, <1>1, <1>7, <1>12 DEF last
  <2>4. ASSUME InBody(last, run.written)
        PROVE  Imitated(RecordArtefact(o))
    <3>1. PICK s \in run.written : s.kind # "chunk" /\ last \in Body(s)
      BY <2>4 DEF InBody
    <3>2. Word(run.pristine[last]) = n
      BY <1>9, <1>14
    <3>3. QED
      BY <3>1, <3>2, <1>10, <1>12, <1>16 DEF Imitated
  <2>5. QED
    BY <2>2, <2>3, <2>4, <1>10
<1>15. QED
  BY <1>11, <1>13, <1>14

\* An intact structure that can be read is read whole, from its offset.
LEMMA IntactIsRead ==
    ASSUME ImageFacts, NEW S, run.bytes \in Seq(S), NEW s, s.offset \in Nat,
           s.size \in Nat, s.size > 0, s.size <= ChunkSize, Intact(s), Legible(s)
    PROVE  /\ s.offset \in 0 .. Len(run.bytes) - 1 /\ Readable(s.offset)
           /\ s.size <= Span(s.offset)
           /\ \A i \in 1..s.size : /\ s.offset + i \in 1..Len(run.bytes)
                                   /\ run.bytes[s.offset + i] = run.pristine[s.offset + i]
                                   /\ Ahead(s.offset)[i] = run.pristine[s.offset + i]
<1> DEFINE o == s.offset
           size == s.size
<1>1. \A i \in o + 1 .. o + size :
         i <= Len(run.bytes) /\ run.bytes[i] = run.pristine[i]
  BY DEF Intact, Place
<1>2. o \in Nat /\ size \in Nat /\ size > 0 /\ Len(run.bytes) \in Nat
      /\ size <= ChunkSize /\ ChunkSize \in Nat
  BY SizesAre
<1>3. run.bad \cap o .. o + ChunkSize - 1 = {}
  BY DEF Legible
<1> HIDE DEF o, size
<1>4. o + size <= Len(run.bytes)
  <2>1. o + size \in o + 1 .. o + size
    BY <1>2
  <2>2. QED
    BY <2>1, <1>1
<1>5. o \in 0 .. Len(run.bytes) - 1
  BY <1>2, <1>4
<1>6. /\ Span(o) \in Nat /\ Span(o) > 0 /\ Span(o) <= ChunkSize
      /\ Span(o) = ChunkSize \/ o + Span(o) = Len(run.bytes)
      /\ \A i \in 1..Span(o) : Ahead(o)[i] = run.bytes[o + i]
  BY <1>5, DataIs
<1>7. size <= Span(o)
  BY <1>2, <1>4, <1>6
<1>8. Readable(o)
  <2>1. o .. o + Span(o) - 1 \subseteq o .. o + ChunkSize - 1
    BY <1>2, <1>6
  <2>2. QED
    BY <2>1, <1>3 DEF Readable
<1>9. ASSUME NEW i \in 1..size
      PROVE  /\ o + i \in 1..Len(run.bytes) /\ run.bytes[o + i] = run.pristine[o + i]
             /\ Ahead(o)[i] = run.pristine[o + i]
  <2>1. o + i \in o + 1 .. o + size /\ i \in 1..Span(o) /\ o + i \in 1..Len(run.bytes)
    BY <1>2, <1>4, <1>6, <1>7
  <2>2. QED
    BY <2>1, <1>1, <1>6
<1>10. QED
  BY <1>5, <1>7, <1>8, <1>9 DEF o, size

\* An intact record is carved unless what follows contradicts it.
LEMMA IntactRecordCarved ==
    ASSUME ImageFacts, NEW S, run.bytes \in Seq(S), NEW R, run.pristine \in Seq(R),
           NEW s \in Was("record") \cup Was("stale"),
           Intact(s), Legible(s), ~Contradicted(s)
    PROVE  /\ s.offset \in 0 .. Len(run.bytes) - 1 /\ RecordCarved(s.offset)
           /\ RecordArtefact(s.offset).offset = s.offset
           /\ RecordArtefact(s.offset).bytes
                 = SubSeq(run.pristine, s.offset + 1, s.offset + s.size)
<1> DEFINE o == s.offset
           size == s.size
           data == Ahead(o)
           N == Span(o)
           next == SubSeq(run.bytes, o + size + 1, Min({o + ChunkSize, Len(run.bytes)}))
<1>1. RecordIn(run.pristine, s)
  BY DEF ImageFacts, Was, LiesIn
<1>2. /\ o \in Nat /\ size \in RecordSizes /\ size <= ChunkSize
      /\ o + size <= Len(run.pristine)
      /\ \E id \in Int : run.pristine[o + 1] = RecordHeader(size, id)
      /\ run.pristine[o + size] = None(size)
  BY <1>1 DEF RecordIn
<1>3. PICK id \in Int : run.pristine[o + 1] = RecordHeader(size, id)
  BY <1>2
<1>4. /\ size \in Nat /\ size >= 2 /\ size > 0 /\ size >= MinRecord /\ size <= MaxRecord
      /\ size % Align = 0 /\ MinRecord \in Nat /\ ChunkSize \in Nat
      /\ MinTime <= GoodTime /\ GoodTime <= MaxTime
      /\ MinTime \in Int /\ MaxTime \in Int /\ GoodTime \in Int
  <2>1. size \in RecordSizes
    BY <1>2
  <2> HIDE DEF size
  <2>2. /\ size \in Nat /\ size >= 2 /\ size >= MinRecord /\ size <= MaxRecord
        /\ size % Align = 0
    BY <2>1, SizesAre
  <2>3. /\ MinRecord \in Nat /\ ChunkSize \in Nat
        /\ MinTime <= GoodTime /\ GoodTime <= MaxTime
        /\ MinTime \in Int /\ MaxTime \in Int /\ GoodTime \in Int
    BY SizesAre
  <2>4. size > 0
    BY <2>2
  <2>5. QED
    BY <2>2, <2>3, <2>4
<1>5. /\ o \in 0 .. Len(run.bytes) - 1 /\ Readable(o) /\ size <= N
      /\ \A i \in 1..size : /\ o + i \in 1..Len(run.bytes)
                            /\ run.bytes[o + i] = run.pristine[o + i]
                            /\ data[i] = run.pristine[o + i]
  BY <1>2, <1>4, IntactIsRead
<1>6. /\ data \in Seq(S) /\ Len(data) = N /\ data # <<>> /\ Len(run.bytes) \in Nat
      /\ N \in Nat /\ N > 0 /\ N <= ChunkSize /\ o + N <= Len(run.bytes)
      /\ N = ChunkSize \/ o + N = Len(run.bytes)
      /\ \A i \in 1..N : data[i] = run.bytes[o + i]
  BY <1>5, DataIs
<1>7. ~(Framed(next) /\ next[1].id <= run.bytes[o + 1].id)
  BY DEF Contradicted
<1>8. /\ data[1] = RecordHeader(size, id) /\ run.bytes[o + 1] = RecordHeader(size, id)
      /\ data[size] = None(size)
  <2>1. 1 \in 1..size /\ size \in 1..size
    BY <1>4
  <2>2. QED
    BY <2>1, <1>2, <1>3, <1>5
<1>9. /\ data[1].magic = "record" /\ data[1].size = size /\ data[1].id = id
      /\ data[1].time = GoodTime /\ run.bytes[o + 1].id = id
      /\ Word(data[size]) = size
  BY <1>8 DEF RecordHeader, None, Word
<1>10. After(data) = next
  <2>1. After(data) = SubSeq(data, size + 1, N)
    BY <1>6, <1>9 DEF After
  <2>2. Min({o + ChunkSize, Len(run.bytes)}) = o + N
    <3> DEFINE T == {o + ChunkSize, Len(run.bytes)}
    <3>1. T \subseteq Int /\ o + N \in T /\ \A y \in T : o + N <= y
      BY <1>2, <1>4, <1>6
    <3> HIDE DEF T
    <3>2. Min(T) = o + N
      BY <3>1, MinIs
    <3>3. QED
      BY <3>2 DEF T
  <2>3. SubSeq(data, size + 1, N) = SubSeq(run.bytes, o + size + 1, o + N)
    <3>1. size \in 0..N
      BY <1>4, <1>5, <1>6
    <3> HIDE DEF o, size, N
    <3>2. SubSeq(SubSeq(run.bytes, o + 1, o + N), size + 1, N)
             = SubSeq(run.bytes, o + size + 1, o + N)
      BY <3>1, <1>2, <1>6, PartOfSlice
    <3>3. data = SubSeq(run.bytes, o + 1, o + N)
      BY DEF Ahead, N
    <3>4. QED
      BY <3>2, <3>3
  <2>4. QED
    BY <2>1, <2>2, <2>3
<1> HIDE DEF data, N, next, o, size
<1>11. Framed(data)
  <2>1. Starts("record", data)
    BY <1>6, <1>9 DEF Starts
  <2>2. Len(data) >= MinRecord /\ size <= Len(data)
    BY <1>4, <1>5, <1>6
  <2>3. QED
    BY <2>1, <2>2, <1>4, <1>9 DEF Framed
<1>12. Framed(next) => next[1].id > id
  <2> SUFFICES ASSUME Framed(next) PROVE next[1].id > id
    OBVIOUS
  <2>1. next # <<>> /\ next[1].magic = "record"
    BY DEF Framed, Starts
  <2>2. next[1].id \in Int
    <3>1. next = SubSeq(data, size + 1, size + (N - size))
      <4>1. next = SubSeq(data, size + 1, N)
        BY <1>6, <1>9, <1>10 DEF After
      <4>2. size + (N - size) = N
        BY <1>4, <1>6
      <4>3. QED
        BY <4>1, <4>2
    <3>2. /\ N - size \in Nat /\ size + (N - size) <= Len(data) /\ size \in Nat
          /\ data \in Seq(S)
      BY <1>4, <1>5, <1>6
    <3> DEFINE rest == N - size
    <3> HIDE DEF rest
    <3>3. /\ Len(next) = rest /\ next \in Seq(S)
          /\ \A i \in 1..rest : next[i] = data[size + i]
      <4>1. next = SubSeq(data, size + 1, size + rest)
        BY <3>1 DEF rest
      <4>2. rest \in Nat /\ size + rest <= Len(data)
        BY <3>2 DEF rest
      <4>3. QED
        BY <3>2, <4>1, <4>2, SliceIs
    <3>4. 1 \in 1..rest
      BY <3>2, <3>3, <2>1 DEF rest
    <3>5. size + 1 \in 1..N
      BY <3>2, <3>4, <1>4, <1>6 DEF rest
    <3>6. next[1] = run.bytes[o + (size + 1)]
      BY <3>3, <3>4, <3>5, <1>6
    <3>7. o + (size + 1) \in 1..Len(run.bytes)
      <4>1. /\ o \in Nat /\ size \in Nat /\ N \in Nat /\ o + N <= Len(run.bytes)
            /\ Len(run.bytes) \in Nat
        BY <1>2, <1>4, <1>6
      <4>2. size + 1 <= N
        BY <3>5
      <4>3. QED
        BY <4>1, <4>2
    <3>8. DamageShows(run.pristine[o + (size + 1)], run.bytes[o + (size + 1)])
      BY <3>7 DEF ImageFacts
    <3>9. QED
      BY <3>6, <3>8, <2>1 DEF DamageShows
  <2>3. ~(next[1].id <= id)
    BY <1>7, <1>9
  <2>4. QED
    BY <2>2, <2>3
<1>13. RecordCarved(o)
  <2>1. ValidRecord(data)
    BY <1>4, <1>9, <1>10, <1>11, <1>12 DEF ValidRecord
  <2>2. Starts("record", data)
    BY <1>6, <1>9 DEF Starts
  <2>3. QED
    BY <2>1, <2>2, <1>5 DEF RecordCarved, data
<1>14. RecordArtefact(o).offset = o /\ RecordArtefact(o).bytes = SubSeq(data, 1, size)
  BY <1>9 DEF RecordArtefact, Carved, data
<1>15. SubSeq(data, 1, size) = SubSeq(run.pristine, o + 1, o + size)
  <2> DEFINE a == SubSeq(data, 1, size)
             b == SubSeq(run.pristine, o + 1, o + size)
             T == S \cup R
  <2>1. size \in 0..Len(data)
    BY <1>4, <1>5, <1>6
  <2>2. a \in Seq(S) /\ Len(a) = size /\ \A i \in 1..size : a[i] = data[i]
    BY <2>1, <1>6, FrontOf
  <2>3. b \in Seq(R) /\ Len(b) = size /\ \A i \in 1..size : b[i] = run.pristine[o + i]
    <3>1. o \in Nat /\ size \in Nat /\ o + size <= Len(run.pristine)
      BY <1>2, <1>4
    <3>2. QED
      BY <3>1, SliceIs
  <2> HIDE DEF a, b
  <2>4. a \in Seq(T) /\ b \in Seq(T)
    BY <2>2, <2>3
  <2> HIDE DEF T
  <2>5. \A i \in 1..size : a[i] = b[i]
    BY <2>2, <2>3, <1>5
  <2>6. a = b
    BY <2>2, <2>3, <2>4, <2>5, SeqEqual
  <2>7. QED
    BY <2>6 DEF a, b
<1>16. QED
  BY <1>5, <1>13, <1>14, <1>15 DEF o, size

\* An intact chunk that can be read is carved.
LEMMA IntactChunkCarved ==
    ASSUME ImageFacts, NEW S, run.bytes \in Seq(S), NEW s \in Was("chunk"),
           Intact(s), Legible(s)
    PROVE  /\ s.offset \in 0 .. Len(run.bytes) - 1 /\ ChunkCarved(s.offset)
           /\ ChunkArtefact(s.offset).offset = s.offset
<1> DEFINE o == s.offset
           size == s.size
           data == Ahead(o)
           N == Span(o)
<1>1. ChunkIn(run.pristine, s)
  BY DEF ImageFacts, Was, LiesIn
<1>2. PICK c : /\ IsChunk(c) /\ RecordsOf(c, Len(c.sizes)) \in Seq(Cell)
               /\ o \in Nat /\ size = 1 + Len(RecordsOf(c, Len(c.sizes)))
               /\ size <= ChunkSize
               /\ run.pristine[o + 1] = HeaderOf(c)
               /\ \A q \in 1..Len(RecordsOf(c, Len(c.sizes))) :
                     run.pristine[o + 1 + q] = RecordsOf(c, Len(c.sizes))[q]
  BY <1>1 DEF ChunkIn
<1> DEFINE all == RecordsOf(c, Len(c.sizes))
           h == HeaderOf(c)
<1>3. /\ h.free = 1 + Len(all) /\ h.records = all /\ h.first = c.id
      /\ h.last = c.id + Len(c.sizes) - 1 /\ h.header = HeaderSum(h) /\ h.magic = "chunk"
  BY DEF HeaderOf, HeaderSum
<1>4. c.id \in Int /\ Len(c.sizes) \in Nat /\ Len(c.sizes) > 0
  BY <1>2, RecordsLie DEF IsChunk
<1> HIDE DEF o, size, all, h
<1>5. /\ o \in Nat /\ size = 1 + Len(all) /\ size <= ChunkSize /\ all \in Seq(Cell)
      /\ run.pristine[o + 1] = h
      /\ \A q \in 1..Len(all) : run.pristine[o + 1 + q] = all[q]
  BY <1>2 DEF all, h
<1>6. Len(all) \in Nat /\ size \in Nat /\ size > 0 /\ ChunkSize \in Nat
  BY <1>5, SizesAre
<1>7. /\ o \in 0 .. Len(run.bytes) - 1 /\ Readable(o) /\ size <= N
      /\ \A i \in 1..size : data[i] = run.pristine[o + i]
  BY <1>5, <1>6, IntactIsRead DEF o, size
<1>8. /\ data \in Seq(S) /\ Len(data) = N /\ data # <<>> /\ N \in Nat
  BY <1>7, DataIs
<1> HIDE DEF data, N
<1>9. data[1] = h
  <2>1. 1 \in 1..size
    BY <1>6
  <2>2. QED
    BY <2>1, <1>5, <1>7
<1>10. RecordsSum(data, size) = all
  <2> DEFINE b == SubSeq(data, 1 + 1, 1 + Len(all))
             T == S \cup Cell
  <2>1. 1 + Len(all) <= Len(data)
    BY <1>5, <1>6, <1>7, <1>8
  <2>2. b \in Seq(S) /\ Len(b) = Len(all) /\ \A q \in 1..Len(all) : b[q] = data[1 + q]
    BY <2>1, <1>6, <1>8, SliceIs
  <2> HIDE DEF b
  <2>3. \A q \in 1..Len(all) : b[q] = all[q]
    <3> SUFFICES ASSUME NEW q \in 1..Len(all) PROVE b[q] = all[q]
      OBVIOUS
    <3>1. 1 + q \in 1..size /\ o + (1 + q) = o + 1 + q
      BY <1>5, <1>6
    <3>2. data[1 + q] = run.pristine[o + 1 + q]
      BY <3>1, <1>7
    <3>3. QED
      BY <3>2, <2>2, <1>5
  <2>4. b \in Seq(T) /\ all \in Seq(T)
    BY <2>2, <1>5
  <2> HIDE DEF T
  <2>5. b = all
    BY <2>2, <2>3, <2>4, SeqEqual
  <2>6. RecordsSum(data, size) = b
    <3>1. 1 + 1 = 2
      OBVIOUS
    <3>2. QED
      BY <3>1, <1>5 DEF RecordsSum, b
  <2>7. QED
    BY <2>5, <2>6
<1>11. h.first <= h.last /\ h.free \in 1..ChunkSize /\ h.free <= Len(data) /\ h.free = size
  <2>1. h.first = c.id /\ h.last = c.id + Len(c.sizes) - 1 /\ h.free = size
    BY <1>3, <1>5 DEF all, h
  <2>2. h.first <= h.last
    BY <2>1, <1>4
  <2>3. QED
    BY <2>1, <2>2, <1>5, <1>6, <1>7, <1>8
<1>12. ValidChunk(data)
  <2>1. h.header = HeaderSum(h) /\ h.records = all
    BY <1>3 DEF h, all
  <2>2. QED
    BY <2>1, <1>9, <1>10, <1>11 DEF ValidChunk
<1>13. Starts("chunk", data)
  <2>1. h.magic = "chunk"
    BY <1>3 DEF h
  <2>2. QED
    BY <2>1, <1>8, <1>9 DEF Starts
<1>14. ChunkCarved(o)
  BY <1>7, <1>12, <1>13 DEF ChunkCarved, data
<1>15. ChunkArtefact(o).offset = o
  BY DEF ChunkArtefact, Carved
<1>16. QED
  BY <1>7, <1>14, <1>15 DEF o

\* A chunk that is carved was written there, and is intact.
LEMMA ChunkWasWritten ==
    ASSUME ImageFacts, NEW S, run.bytes \in Seq(S), NEW o \in 0 .. Len(run.bytes) - 1,
           ChunkCarved(o)
    PROVE  \E s \in Was("chunk") :
              ChunkArtefact(o).offset = s.offset /\ Intact(s) /\ Legible(s)
<1> DEFINE data == Ahead(o)
           N == Span(o)
           free == data[1].free
<1>1. /\ data \in Seq(S) /\ Len(data) = N /\ o \in Nat /\ Len(run.bytes) \in Nat
      /\ N \in Nat /\ N > 0 /\ N <= ChunkSize /\ o + N <= Len(run.bytes)
      /\ N = ChunkSize \/ o + N = Len(run.bytes)
      /\ \A i \in 1..N : data[i] = run.bytes[o + i]
      /\ data[1] = run.bytes[o + 1]
  BY DataIs
<1>2. /\ Readable(o) /\ Starts("chunk", data) /\ data[1].header = HeaderSum(data[1])
      /\ free <= Len(data) /\ data[1].records = RecordsSum(data, free)
  BY DEF ChunkCarved, ValidChunk
<1>3. ChunkSize \in Nat
  BY SizesAre
<1>4. o + 1 \in 1..Len(run.bytes) /\ o + 1 \in 1..Len(run.pristine)
  BY <1>1 DEF ImageFacts
<1>5. data[1].magic = "chunk"
  BY <1>2 DEF Starts
<1> HIDE DEF data, N, free
<1>6. /\ run.pristine[o + 1].magic = "chunk" /\ data[1] = run.pristine[o + 1]
  <2>1. DamageShows(run.pristine[o + 1], run.bytes[o + 1])
    BY <1>4 DEF ImageFacts
  <2>2. QED
    BY <2>1, <1>1, <1>2, <1>5 DEF DamageShows
<1>7. PICK s \in run.written : s.kind = "chunk" /\ s.offset + 1 = o + 1
  <2>1. Tells(run.pristine[o + 1], o + 1, run.written)
    BY <1>4 DEF ImageFacts
  <2>2. QED
    BY <2>1, <1>6 DEF Tells
<1>8. ChunkIn(run.pristine, s)
  BY <1>7 DEF ImageFacts, LiesIn
<1>9. s.offset \in Nat
  BY <1>8 DEF ChunkIn
<1>10. s.offset = o
  BY <1>1, <1>7, <1>9
<1>11. PICK c : /\ RecordsOf(c, Len(c.sizes)) \in Seq(Cell)
                /\ s.size = 1 + Len(RecordsOf(c, Len(c.sizes)))
                /\ s.size <= ChunkSize
                /\ run.pristine[o + 1] = HeaderOf(c)
                /\ \A q \in 1..Len(RecordsOf(c, Len(c.sizes))) :
                      run.pristine[o + 1 + q] = RecordsOf(c, Len(c.sizes))[q]
  BY <1>8, <1>10 DEF ChunkIn
<1> DEFINE all == RecordsOf(c, Len(c.sizes))
<1>12. HeaderOf(c).free = 1 + Len(all) /\ HeaderOf(c).records = all
  BY DEF HeaderOf
<1> HIDE DEF all
<1>13. /\ all \in Seq(Cell) /\ s.size = 1 + Len(all) /\ free = 1 + Len(all)
       /\ data[1].records = all /\ Len(all) \in Nat
       /\ \A q \in 1..Len(all) : run.pristine[o + 1 + q] = all[q]
  BY <1>6, <1>11, <1>12 DEF all, free
<1>14. \A q \in 1..Len(all) : data[1 + q] = all[q]
  <2> DEFINE b == SubSeq(data, 1 + 1, 1 + Len(all))
  <2>1. 1 + Len(all) <= Len(data)
    BY <1>2, <1>13
  <2>2. \A q \in 1..Len(all) : b[q] = data[1 + q]
    BY <2>1, <1>1, <1>13, SliceIs
  <2>3. b = all
    <3>1. 1 + 1 = 2
      OBVIOUS
    <3>2. QED
      BY <3>1, <1>2, <1>13 DEF RecordsSum
  <2>4. QED
    BY <2>2, <2>3
<1>15. ASSUME NEW i \in Place(s)
       PROVE  i <= Len(run.bytes) /\ run.bytes[i] = run.pristine[i]
  <2>1. i \in o + 1 .. o + s.size
    BY <1>10 DEF Place
  <2> DEFINE q == i - o - 1
  <2>2. /\ q \in 0..Len(all) /\ i = o + (1 + q) /\ i = o + 1 + q /\ 1 + q \in 1..N
        /\ i <= Len(run.bytes)
    <3>1. i \in Int /\ o + 1 <= i /\ i <= o + 1 + Len(all)
      BY <2>1, <1>1, <1>13
    <3>2. 1 + Len(all) <= N
      BY <1>1, <1>2, <1>13
    <3>3. /\ o \in Nat /\ Len(all) \in Nat /\ N \in Nat /\ o + N <= Len(run.bytes)
          /\ Len(run.bytes) \in Nat
      BY <1>1, <1>13
    <3>4. q \in Int /\ i = o + 1 + q /\ i = o + (1 + q)
      BY <3>1, <3>3
    <3> HIDE DEF q
    <3>5. q \in 0..Len(all)
      BY <3>1, <3>3, <3>4
    <3>6. 1 + q \in 1..N
      BY <3>2, <3>3, <3>5
    <3>7. i <= Len(run.bytes)
      BY <3>3, <3>4, <3>6
    <3>8. QED
      BY <3>4, <3>5, <3>6, <3>7
  <2> HIDE DEF q
  <2>3. run.bytes[i] = data[1 + q]
    BY <2>2, <1>1
  <2>4. CASE q = 0
    BY <2>2, <2>3, <2>4, <1>1, <1>6
  <2>5. CASE q \in 1..Len(all)
    BY <2>2, <2>3, <2>5, <1>13, <1>14
  <2>6. QED
    BY <2>2, <2>4, <2>5, <1>13
<1>16. Intact(s)
  BY <1>15 DEF Intact
<1>17. Legible(s)
  <2>1. run.bad \subseteq 0 .. Len(run.bytes) - 1
    BY DEF ImageFacts
  <2>2. run.bad \cap (o .. o + N - 1) = {}
    BY <1>2 DEF Readable, N
  <2>3. ASSUME NEW b \in run.bad, b \in o .. o + ChunkSize - 1
        PROVE  FALSE
    <3>1. b \in Int /\ o <= b /\ b < o + ChunkSize /\ b < Len(run.bytes)
      BY <2>1, <2>3, <1>1, <1>3
    <3>2. b \in o .. o + N - 1
      BY <3>1, <1>1, <1>3
    <3>3. QED
      BY <3>2, <2>2
  <2>4. QED
    BY <2>3, <1>10 DEF Legible
<1>18. s \in Was("chunk") /\ ChunkArtefact(o).offset = o
  BY <1>7 DEF Was, ChunkArtefact, Carved
<1>19. QED
  BY <1>10, <1>16, <1>17, <1>18

-----------------------------------------------------------------------------
(* What follows for the images                                             *)

\* What holds in every reachable state.
CarvingInvariant == RegistryInvariant /\ ExactInvariant /\ Scanned

\* It does.
LEMMA CarvingInvariantHolds == Spec => []CarvingInvariant
<1>1. Init => CarvingInvariant
  BY RegistryStarts, ExactStarts, ScannedSteps DEF CarvingInvariant
<1>2. CarvingInvariant /\ [Next]_vars => CarvingInvariant'
  BY RegistryAssumption, RegistrySteps, ExactSteps, ScannedSteps
     DEF CarvingInvariant, RegistryInvariant
<1>3. QED
  BY <1>1, <1>2, PTL DEF Spec

\* Neither chunks nor records were written or are carved.
Nothing == run.written = {} /\ Artefacts("record") = {} /\ Artefacts("chunk") = {}

\* Nothing is carved before the registry is built ...
LEMMA EmptyBefore ==
    ASSUME CarvingInvariant, phase = "building"
    PROVE  \A kind : Artefacts(kind) = {}
<1>1. results = <<>>
  BY DEF CarvingInvariant, ExactInvariant, Quiet
<1>2. DOMAIN results = {}
  BY <1>1
<1>3. QED
  BY <1>2 DEF Artefacts

\* ... and neither chunks nor records of a source that is no image.
LEMMA NothingElsewhere ==
    ASSUME CarvingInvariant, RegistryAssumption, Elsewhere
    PROVE  Nothing
<1>1. Registered /\ Answers
  BY DEF CarvingInvariant, ExactInvariant
<1>2. ASSUME NEW h \in DOMAIN results, NEW a \in ToSet(results[h])
      PROVE  a.kind \notin {"chunk", "record"}
  <2>1. h \in hits /\ results[h] = Answer(h)
    BY <1>1 DEF Answers
  <2>2. CASE Known(h.pattern) /\ Good(h)
    <3> DEFINE kind == extractors[Owner(h.pattern)]
    <3>1. kind \in ToSet(run.kinds) /\ h.offset \in HitOffsets(run)
      <4>1. Owner(h.pattern) \in DOMAIN extractors
        BY <1>1, <2>1, <2>2, OwnerType
      <4>2. QED
        BY <4>1, <1>1, <2>1 DEF Registered
    <3>2. results[h] = Extract(kind, h.offset, SubSeq(run.bytes, h.offset + 1,
                          h.offset + Reach(kind, run.bytes, h.offset))).carved
      BY <2>1, <2>2 DEF Answer, Verdict, WindowBytes, Window
    <3> HIDE DEF kind
    <3>3. QED
      BY <3>1, <3>2, <1>2 DEF Elsewhere
  <2>3. CASE ~(Known(h.pattern) /\ Good(h))
    <3>1. results[h] = <<>>
      BY <2>1, <2>3 DEF Answer
    <3>2. QED
      BY <3>1, <1>2 DEF ToSet
  <2>4. QED
    BY <2>2, <2>3
<1>3. ASSUME NEW kind \in {"chunk", "record"}
      PROVE  Artefacts(kind) = {}
  BY <1>2 DEF Artefacts
<1>4. QED
  BY <1>3 DEF Nothing, Elsewhere

\* On an image, the artefacts are those of its offsets.
LEMMA OnImagesFacts ==
    ASSUME CarvingInvariant, RegistryAssumption, OnImages, phase # "building"
    PROVE  /\ ImageFacts /\ extractors = <<EvtxExtractor>> /\ hits = Found /\ Answers
           /\ run.bytes \in Seq(ToSet(run.bytes)) /\ \E S : run.pristine \in Seq(S)
           /\ phase = "joined" => DOMAIN results = hits
<1>1. /\ run.kinds = <<EvtxExtractor>> /\ run.strays = {}
      /\ ImageFacts /\ \E S : run.pristine \in Seq(S)
  BY ImageFactsHold DEF OnImages
<1>2. extractors = <<EvtxExtractor>> /\ hits = Found
  BY <1>1 DEF CarvingInvariant, Scanned
<1>3. Answers /\ (phase = "joined" => todo = {} /\ calls = {})
  BY DEF CarvingInvariant, ExactInvariant, Quiet
<1>4. run.bytes \in Seq(ToSet(run.bytes))
  BY DEF CarvingInvariant, ExactInvariant, Registered, RegistryAssumption, IsSequence
<1>5. phase = "joined" => DOMAIN results = hits
  BY <1>3 DEF Answers, Answered, Judged
<1>6. QED
  BY <1>1, <1>2, <1>3, <1>4, <1>5

\* Whatever the bodies of the records hold, what is carved as a record begins and
\* ends where one was written, or a body holds the header it begins with or the
\* word that repeats its size: one damaged cell by itself forges no record
\* (evtx/format.rs:142-190, of which 187-188 compares head and tail).
THEOREM NoRecordForged == Spec => []NoForgedRecord
<1>1. ASSUME RegistryAssumption, CarvingAssumption, CarvingInvariant
      PROVE  NoForgedRecord
  <2>1. run \in Cases
    BY <1>1 DEF CarvingInvariant, ExactInvariant, Registered
  <2>2. CASE phase = "building"
    BY <1>1, <2>2, EmptyBefore DEF NoForgedRecord
  <2>3. CASE Elsewhere
    BY <1>1, <2>3, NothingElsewhere DEF NoForgedRecord, Nothing
  <2>4. CASE phase # "building" /\ OnImages
    <3>1. /\ ImageFacts /\ extractors = <<EvtxExtractor>> /\ hits = Found /\ Answers
          /\ run.bytes \in Seq(ToSet(run.bytes))
      BY <1>1, <2>4, OnImagesFacts
    <3>2. ASSUME NEW a \in Artefacts("record")
          PROVE  \/ \E s \in Was("record") \cup Was("stale") :
                       a.offset = s.offset /\ Len(a.bytes) = s.size
                 \/ Imitated(a)
      <4>1. PICK o \in 0 .. Len(run.bytes) - 1 : RecordCarved(o) /\ a = RecordArtefact(o)
        BY <3>1, <2>4, ArtefactsAre
      <4>2. QED
        BY <3>1, <4>1, RecordWasWritten
    <3>3. QED
      BY <3>2 DEF NoForgedRecord
  <2>5. QED
    BY <1>1, <2>1, <2>2, <2>3, <2>4, CasesAre
<1>2. QED
  BY <1>1, CarvingInvariantHolds, RegistryAssumption, CarvingAssumption, PTL

\* Whatever became of the chunk around it, a record that is as it was written is
\* carved, whole and at its place, unless its lookahead cannot be read or what
\* follows contradicts its identifier (evtx/mod.rs:23-26, format.rs:142-190).
THEOREM IntactRecordsSurvive == Spec => []RecordsSurvive
<1>1. ASSUME RegistryAssumption, CarvingAssumption, CarvingInvariant
      PROVE  RecordsSurvive
  <2> SUFFICES ASSUME phase = "joined", NEW s \in Was("record") \cup Was("stale"),
                      Intact(s), Legible(s), ~Contradicted(s)
               PROVE  \E a \in Artefacts("record") :
                         a.offset = s.offset
                         /\ a.bytes = SubSeq(run.pristine, s.offset + 1,
                                             s.offset + s.size)
    BY DEF RecordsSurvive
  <2>1. run \in Cases /\ phase # "building"
    BY <1>1 DEF CarvingInvariant, ExactInvariant, Registered
  <2>2. CASE Elsewhere
    BY <2>2 DEF Elsewhere, Was
  <2>3. CASE OnImages
    <3>1. /\ ImageFacts /\ extractors = <<EvtxExtractor>> /\ hits = Found /\ Answers
          /\ run.bytes \in Seq(ToSet(run.bytes)) /\ DOMAIN results = hits
          /\ \E S : run.pristine \in Seq(S)
      BY <1>1, <2>1, <2>3, OnImagesFacts
    <3>2. PICK S : run.pristine \in Seq(S)
      BY <3>1
    <3>3. /\ s.offset \in 0 .. Len(run.bytes) - 1 /\ RecordCarved(s.offset)
          /\ RecordArtefact(s.offset).offset = s.offset
          /\ RecordArtefact(s.offset).bytes
                = SubSeq(run.pristine, s.offset + 1, s.offset + s.size)
      BY <3>1, <3>2, IntactRecordCarved
    <3>4. RecordArtefact(s.offset) \in Artefacts("record")
      BY <3>1, <3>3, <2>3, ArtefactsAre
    <3>5. QED
      BY <3>3, <3>4
  <2>4. QED
    BY <1>1, <2>1, <2>2, <2>3, CasesAre
<1>2. QED
  BY <1>1, CarvingInvariantHolds, RegistryAssumption, CarvingAssumption, PTL

\* A chunk is carved exactly when its header and all its records are as they were
\* written and can be read: no damage to them goes unnoticed, and damage to its free
\* space does not cost it (evtx/mod.rs:18-20, format.rs:57-86).
THEOREM ChunksCarvedExactly == Spec => []ChunksExact
<1>1. ASSUME RegistryAssumption, CarvingAssumption, CarvingInvariant
      PROVE  ChunksExact
  <2> SUFFICES ASSUME phase = "joined"
               PROVE  Offsets(Artefacts("chunk")) =
                         {s.offset : s \in {c \in Was("chunk") : Intact(c) /\ Legible(c)}}
    BY DEF ChunksExact
  <2>1. run \in Cases /\ phase # "building"
    BY <1>1 DEF CarvingInvariant, ExactInvariant, Registered
  <2>2. CASE Elsewhere
    <3>1. Artefacts("chunk") = {} /\ Was("chunk") = {}
      BY <1>1, <2>2, NothingElsewhere DEF Nothing, Was
    <3>2. QED
      BY <3>1 DEF Offsets
  <2>3. CASE OnImages
    <3>1. /\ ImageFacts /\ extractors = <<EvtxExtractor>> /\ hits = Found /\ Answers
          /\ run.bytes \in Seq(ToSet(run.bytes)) /\ DOMAIN results = hits
      BY <1>1, <2>1, <2>3, OnImagesFacts
    <3>2. ASSUME NEW a \in Artefacts("chunk")
          PROVE  \E s \in Was("chunk") : a.offset = s.offset /\ Intact(s) /\ Legible(s)
      <4>1. PICK o \in 0 .. Len(run.bytes) - 1 : ChunkCarved(o) /\ a = ChunkArtefact(o)
        BY <3>1, <2>3, ArtefactsAre
      <4>2. QED
        BY <3>1, <4>1, ChunkWasWritten
    <3>3. ASSUME NEW s \in Was("chunk"), Intact(s), Legible(s)
          PROVE  \E a \in Artefacts("chunk") : a.offset = s.offset
      <4>1. /\ s.offset \in 0 .. Len(run.bytes) - 1 /\ ChunkCarved(s.offset)
            /\ ChunkArtefact(s.offset).offset = s.offset
        BY <3>1, <3>3, IntactChunkCarved
      <4>2. ChunkArtefact(s.offset) \in Artefacts("chunk")
        BY <3>1, <4>1, <2>3, ArtefactsAre
      <4>3. QED
        BY <4>1, <4>2
    <3>4. QED
      BY <3>2, <3>3 DEF Offsets
  <2>4. QED
    BY <1>1, <2>1, <2>2, <2>3, CasesAre
<1>2. QED
  BY <1>1, CarvingInvariantHolds, RegistryAssumption, CarvingAssumption, PTL
=============================================================================
