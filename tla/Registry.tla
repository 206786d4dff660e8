------------------------------ MODULE Registry ------------------------------
(***************************************************************************)
(* The extractor registry of latent-carve: registration, the dispatch of   *)
(* signature hits to their extractors by the threads that process hits,    *)
(* and the diagnostics another thread reads while they run.                *)
(*                                                                         *)
(* The counters are Relaxed atomics, so two increments of one thread may   *)
(* become visible to another thread in either order.  An increment that    *)
(* was executed but is not visible yet is in `unlanded`; joining the       *)
(* threads makes all of them visible.                                      *)
(*                                                                         *)
(* A byte of the source is a record; its magic is what the scan engine     *)
(* compares with the signatures.                                           *)
(***************************************************************************)
EXTENDS Integers, Sequences, FiniteSets, SequencesExt, FiniteSetsExt

CONSTANTS
    Extract(_, _, _), \* Extractor::extract(offset, data) of a kind: a record
                      \* [ok, carved], carved being the sequence of artefacts
    Cases             \* the runs to make: the extractors to register, in order
                      \* (their signatures and max_structure_size), the bytes
                      \* of the source, the offsets a read fails on, the hits
                      \* for ids no extractor owns, how many threads process

\* min(max_structure_size, size - offset), the subtraction saturating at 0.
Reach(kind, bytes, offset) ==
    Min({kind.window, Max({0, Len(bytes) - offset})})

IsSequence(s) == s \in Seq(ToSet(s))

\* Ids and offsets are unsigned, and what extract() accepts it answers with a Vec.
ASSUME RegistryAssumption ==
    \A c \in Cases :
        /\ IsSequence(c.kinds) /\ IsSequence(c.bytes)
        /\ c.bad \subseteq Nat /\ c.threads \in Nat \ {0}
        /\ \A h \in c.strays : h.offset \in Nat /\ h.pattern \in Nat
        /\ \A kind \in ToSet(c.kinds) :
              /\ kind.window \in Nat /\ IsSequence(kind.signatures)
              /\ \A offset \in 0..Len(c.bytes) \cup {h.offset : h \in c.strays} :
                    LET answer == Extract(kind, offset, SubSeq(c.bytes, offset + 1,
                                      offset + Reach(kind, c.bytes, offset)))
                    IN  answer.ok => Len(answer.carved) \in Nat

VARIABLES
    run,         \* the case that is run
    extractors,  \* the registered extractors, in registration order
    phase,       \* "building", "running" or "joined"
    counters,    \* per extractor: the visible value of each counter
    unlanded,    \* increments executed and not visible yet
    hits,        \* the hits to process
    todo,        \* the hits no thread has taken
    calls,       \* the extract_hit calls in progress, one per busy thread
    results,     \* what extract_hit returned, per hit
    reader       \* the diagnostics() call, if one was made.  The calls share
                 \* no state, so one at an arbitrary moment stands for all

vars == <<run, extractors, phase, counters, unlanded, hits, todo, calls, results,
          reader>>
fixed == <<run, hits>>   \* what processing a hit never changes

Fields == <<"seen", "accepted", "rejected", "emitted">>   \* in load order
Zero == [f \in ToSet(Fields) |-> 0]

Init ==
    /\ run \in Cases
    /\ extractors = <<>> /\ phase = "building"
    /\ counters = <<>> /\ unlanded = {}
    /\ hits = {} /\ todo = {} /\ calls = {} /\ results = <<>>
    /\ reader = [started |-> "no", snapshot |-> <<>>]
-----------------------------------------------------------------------------
(* RegistryBuilder                                                         *)

Register ==
    /\ phase = "building" /\ Len(extractors) < Len(run.kinds)
    /\ extractors' = Append(extractors, run.kinds[Len(extractors) + 1])
    /\ UNCHANGED <<fixed, phase, counters, unlanded, todo, calls, results, reader>>

\* patterns and pattern_owner: the signatures of the extractors in registration
\* order, each one mapped to its extractor.  Pattern ids count from 0.
Patterns == FlattenSeq([e \in DOMAIN extractors |-> extractors[e].signatures])
PatternOwner ==
    FlattenSeq([e \in DOMAIN extractors |->
                   [s \in DOMAIN extractors[e].signatures |-> e]])

\* What the scan of the source for those signatures reports, and the strays.
Scan == INSTANCE Signatures
Found ==
    LET bytes == [i \in DOMAIN run.bytes |-> run.bytes[i].magic]
    IN  {[offset |-> h.offset, pattern |-> h.pattern - 1] :
            h \in Scan!Occurrences(Patterns, bytes)}

Build ==
    /\ phase = "building" /\ extractors = run.kinds
    /\ phase' = "running"
    /\ counters' = [e \in DOMAIN extractors |-> Zero]
    /\ hits' = Found \cup run.strays /\ todo' = hits'
    /\ UNCHANGED <<run, extractors, unlanded, calls, results, reader>>

Known(pattern) == pattern < Len(Patterns)

\* Mutant of Owner: pattern ids are taken to count from 1.
OwnerFromOne(pattern) ==
    IF pattern = 0 THEN Len(extractors) + 1 ELSE PatternOwner[pattern]

Owner(pattern) == PatternOwner[pattern + 1]
-----------------------------------------------------------------------------
(* extract_hit                                                             *)

\* The fetch_add of n on counter field of the owner of hit h.
Add(h, field, n) == [hit |-> h, owner |-> Owner(h.pattern), field |-> field,
                     amount |-> n]

Window(h) == Reach(extractors[Owner(h.pattern)], run.bytes, h.offset)

Unreadable(h) == run.bad \cap (h.offset .. h.offset + Window(h) - 1) # {}
WindowBytes(h) == SubSeq(run.bytes, h.offset + 1, h.offset + Window(h))

Verdict(h) == Extract(extractors[Owner(h.pattern)], h.offset, WindowBytes(h))

\* A lone thread takes the hits in their order; several, as they are scheduled.
Take(h) ==
    /\ phase = "running" /\ Cardinality(calls) < run.threads
    /\ h \in todo /\ todo' = todo \ {h}
    /\ run.threads = 1 => ~ \E g \in todo : Scan!HitBefore(g, h)

Return(h, carved) ==
    results' = [g \in DOMAIN results \cup {h} |->
                   IF g = h THEN carved ELSE results[g]]

\* A hit for an id no extractor owns is logged and ignored: nothing is counted.
IgnoreUnknown(h) ==
    /\ Take(h) /\ ~Known(h.pattern)
    /\ Return(h, <<>>)
    /\ UNCHANGED <<fixed, extractors, phase, counters, unlanded, calls, reader>>

Dispatch(h) ==
    /\ Take(h) /\ Known(h.pattern)
    /\ unlanded' = unlanded \cup {Add(h, "seen", 1)}
    /\ calls' = calls \cup {[step |-> "seen", hit |-> h]}
    /\ UNCHANGED <<fixed, extractors, phase, counters, results, reader>>

\* Mutants of Reject: an unreadable window is not counted; a bad candidate makes
\* the thread give up.
RejectUncounted(c) ==
    /\ c.step = "seen"
    /\ Unreadable(c.hit) \/ ~Verdict(c.hit).ok
    /\ unlanded' = IF Unreadable(c.hit) THEN unlanded
                   ELSE unlanded \cup {Add(c.hit, "rejected", 1)}
    /\ calls' = calls \ {c}
    /\ Return(c.hit, <<>>)
    /\ UNCHANGED <<fixed, extractors, phase, counters, todo, reader>>

RejectGivesUp(c) ==
    /\ c.step = "seen"
    /\ Unreadable(c.hit) \/ ~Verdict(c.hit).ok
    /\ unlanded' = unlanded \cup {Add(c.hit, "rejected", 1)}
    /\ calls' = calls \ {c}
    /\ UNCHANGED <<fixed, extractors, phase, counters, todo, results, reader>>

\* The window cannot be read, or the extractor refuses the candidate.
Reject(c) ==
    /\ c.step = "seen"
    /\ Unreadable(c.hit) \/ ~Verdict(c.hit).ok
    /\ unlanded' = unlanded \cup {Add(c.hit, "rejected", 1)}
    /\ calls' = calls \ {c}
    /\ Return(c.hit, <<>>)
    /\ UNCHANGED <<fixed, extractors, phase, counters, todo, reader>>

\* Mutant of Accept: an accepted candidate is counted as rejected first.
AcceptAfterReject(c) ==
    /\ c.step = "seen"
    /\ ~Unreadable(c.hit) /\ Verdict(c.hit).ok
    /\ unlanded' = unlanded \cup {Add(c.hit, "accepted", 1),
                                  Add(c.hit, "rejected", 1)}
    /\ calls' = (calls \ {c}) \cup {[step |-> "accepted", hit |-> c.hit]}
    /\ UNCHANGED <<fixed, extractors, phase, counters, todo, results, reader>>

Accept(c) ==
    /\ c.step = "seen"
    /\ ~Unreadable(c.hit) /\ Verdict(c.hit).ok
    /\ unlanded' = unlanded \cup {Add(c.hit, "accepted", 1)}
    /\ calls' = (calls \ {c}) \cup {[step |-> "accepted", hit |-> c.hit]}
    /\ UNCHANGED <<fixed, extractors, phase, counters, todo, results, reader>>

Emit(c) ==
    /\ c.step = "accepted"
    /\ unlanded' = unlanded \cup
                       {Add(c.hit, "emitted", Len(Verdict(c.hit).carved))}
    /\ calls' = calls \ {c}
    /\ Return(c.hit, Verdict(c.hit).carved)
    /\ UNCHANGED <<fixed, extractors, phase, counters, todo, reader>>

\* An executed increment becomes visible.
Land(add) ==
    /\ unlanded' = unlanded \ {add}
    /\ counters' = [counters EXCEPT ![add.owner][add.field] = @ + add.amount]
    /\ UNCHANGED <<fixed, extractors, phase, todo, calls, results, reader>>

\* The threads that processed the hits are joined.
Join ==
    /\ phase = "running" /\ todo = {} /\ calls = {} /\ unlanded = {}
    /\ phase' = "joined"
    /\ UNCHANGED <<fixed, extractors, counters, unlanded, todo, calls, results, reader>>
-----------------------------------------------------------------------------
(* diagnostics(): one load after the other, extractor by extractor.  The   *)
(* snapshot is the sequence of the values loaded so far.                   *)

Loads == [i \in 1 .. 4 * Len(extractors) |->
             [extractor |-> (i + 3) \div 4, field |-> Fields[((i - 1) % 4) + 1]]]

Complete == reader.started # "no" /\ Len(reader.snapshot) = Len(Loads)

StartDiagnostics ==
    /\ phase # "building" /\ reader.started = "no"
    /\ run.threads = 1 => phase = "joined"
    /\ reader' = [started |-> phase, snapshot |-> <<>>]
    /\ UNCHANGED <<fixed, extractors, phase, counters, unlanded, todo, calls, results>>

LoadCounter ==
    /\ reader.started # "no" /\ Len(reader.snapshot) < Len(Loads)
    /\ LET next == Loads[Len(reader.snapshot) + 1]
       IN  reader' = [reader EXCEPT !.snapshot =
                         Append(@, counters[next.extractor][next.field])]
    /\ UNCHANGED <<fixed, extractors, phase, counters, unlanded, todo, calls, results>>
-----------------------------------------------------------------------------
\* When a lone thread processes the hits nobody reads the counters before it is
\* joined, so it makes no difference when its increments land: at once, here.
Settled == run.threads = 1 => unlanded = {}

Processing ==
    \/ Settled /\ \E h \in todo : IgnoreUnknown(h) \/ Dispatch(h)
    \/ Settled /\ \E c \in calls : Reject(c) \/ Accept(c) \/ Emit(c)
    \/ \E add \in unlanded : Land(add)
    \/ Join

Done == phase = "joined" /\ UNCHANGED vars

Next ==
    \/ Register \/ Build
    \/ Processing
    \/ StartDiagnostics \/ LoadCounter
    \/ Done

\* The threads that process hits run while they have something to do; nobody
\* is obliged to ask for diagnostics.
Spec == Init /\ [][Next]_vars /\ WF_vars(Processing)
-----------------------------------------------------------------------------
(* Properties                                                              *)

Call == [step : {"seen", "accepted"}, hit : hits]

\* The type invariant: there is one set of counters per extractor, and every
\* increment under way belongs to a hit that was taken and to its owner.
TypeOK ==
    /\ phase \in {"building", "running", "joined"}
    /\ IsPrefix(extractors, run.kinds)
    /\ phase # "building" =>
          counters \in [DOMAIN extractors -> [ToSet(Fields) -> Nat]]
    /\ \A add \in unlanded :
          /\ add.hit \in hits \ todo /\ add.owner \in DOMAIN extractors
          /\ add.field \in ToSet(Fields) /\ add.amount \in Nat
    /\ todo \subseteq hits
    /\ calls \subseteq Call
    /\ DOMAIN results \subseteq hits \ todo
    /\ reader.snapshot \in Seq(Nat)
    /\ reader.started \in {"no", "running", "joined"}

\* What the hits of extractor e amount to, whoever processed them and when.
HitsOf(e) == {h \in hits : Known(h.pattern) /\ Owner(h.pattern) = e}
AcceptedOf(e) == {h \in HitsOf(e) : ~Unreadable(h) /\ Verdict(h).ok}
Tally(e) == [seen     |-> Cardinality(HitsOf(e)),
             accepted |-> Cardinality(AcceptedOf(e)),
             rejected |-> Cardinality(HitsOf(e) \ AcceptedOf(e)),
             emitted  |-> SumFunction([h \in HitsOf(e) |-> Len(results[h])])]

\* Diagnostics asked for after the processing threads are joined account for
\* every hit of a known pattern exactly once, as accepted or as rejected, and
\* for exactly the artefacts that were returned (registry.rs:113-115, 123-149).
DiagnosticsAfterJoinExact ==
    reader.started = "joined" /\ Complete =>
        reader.snapshot =
            [i \in DOMAIN Loads |-> Tally(Loads[i].extractor)[Loads[i].field]]

\* While the threads run, a counter never exceeds what the hits taken so far
\* justify: no candidate is counted twice and none ahead of its dispatch.
NeverOvercounts ==
    \A e \in DOMAIN counters :
        LET taken == HitsOf(e) \ todo
        IN  /\ counters[e].seen <= Cardinality(taken)
            /\ counters[e].accepted + counters[e].rejected
                  <= Cardinality(taken)
            /\ counters[e].accepted <= Cardinality(AcceptedOf(e) \ todo)

\* A bad candidate, an unreadable window or an unknown pattern never interrupts
\* the processing: every hit gets its answer (registry.rs:113-115).
EveryHitAnswered ==
    phase = "running" ~> phase = "joined" /\ DOMAIN results = hits

\* registry.rs:153 of the snapshot, taken at any time: "A consistent snapshot of
\* every extractor's counters".  No candidate is accepted or rejected that was
\* not seen.
Loaded(e, field) == reader.snapshot[CHOOSE i \in DOMAIN Loads :
                       Loads[i] = [extractor |-> e, field |-> field]]
SnapshotConsistent ==
    Complete =>
        \A e \in DOMAIN extractors :
            Loaded(e, "accepted") + Loaded(e, "rejected") <= Loaded(e, "seen")
=============================================================================
