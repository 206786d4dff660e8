--------------------------- MODULE VerifiedSource ---------------------------
(***************************************************************************)
(* A run over a raw evidence file: RawSource and VerifiedSource of         *)
(* latent-source, while other processes may rewrite, truncate or extend    *)
(* the file.                                                               *)
(*                                                                         *)
(* The file is a sequence of pieces (the pages one read delivers), each    *)
(* with some content.  A digest stands for the content hashed: SHA-256 is  *)
(* taken to have no collisions.                                            *)
(***************************************************************************)
EXTENDS Integers, Sequences

CONSTANTS Contents,   \* what a piece may hold
          MaxPieces,  \* bound on the length of the file
          MaxEdits    \* bound on the changes other processes make

Absent == "absent"   \* the content of a piece past the end of the file

ASSUME EvidenceAssumption ==
    MaxPieces \in Nat /\ MaxEdits \in Nat /\ Absent \notin Contents

VARIABLES
    evidence,  \* the file as it is now
    past,      \* history: what each piece has held before, Absent included
    edits,     \* how many changes were made
    reverted,  \* history: some piece went back to what it had held before
    expected,  \* the digests the caller expects: none or one
    phase,     \* how far the run is
    handle,    \* RawSource: its backing, its size, the length of its map
    hashed,    \* the pieces the hash in progress has read
    openHash,  \* VerifiedSource.open_hash, once computed
    seen,      \* history: the <<piece, content>> pairs processing has read
    trail,     \* the audit events of the run
    outcome    \* what became of the run

file == <<evidence, past, edits, reverted>>
vars == <<evidence, past, edits, reverted, expected, phase, handle, hashed,
          openHash, seen, trail, outcome>>

Pieces == 1..MaxPieces
Piece(i) == IF i <= Len(evidence) THEN evidence[i] ELSE Absent
Files == UNION {[1..n -> Contents] : n \in 0..MaxPieces}

Digest(pieces) == [sha256 |-> pieces]
NoHandle == [backing |-> "none", size |-> 0, length |-> 0]

Init ==
    /\ evidence \in Files
    /\ past = [i \in Pieces |-> {}] /\ edits = 0 /\ reverted = FALSE
    /\ expected \in {{}} \cup {{Digest(f)} : f \in Files}
    /\ phase = "start" /\ handle = NoHandle
    /\ hashed = <<>> /\ openHash = Digest(<<>>)
    /\ seen = {} /\ trail = <<>> /\ outcome = "pending"
-----------------------------------------------------------------------------
(* The other processes                                                     *)

Become(after) ==
    LET now(i) == IF i <= Len(after) THEN after[i] ELSE Absent
        change == {i \in Pieces : now(i) # Piece(i)}
    IN  /\ evidence' = after
        /\ past' = [i \in Pieces |-> IF i \in change THEN past[i] \cup {Piece(i)}
                                                     ELSE past[i]]
        /\ reverted' = (reverted \/ \E i \in change : now(i) \in past[i])

Edit ==
    /\ edits < MaxEdits /\ edits' = edits + 1 /\ phase # "over"
    /\ \/ \E i \in DOMAIN evidence : \E c \in Contents \ {evidence[i]} :
              Become([evidence EXCEPT ![i] = c])
       \/ \E n \in 0 .. Len(evidence) - 1 : Become(SubSeq(evidence, 1, n))
       \/ /\ Len(evidence) < MaxPieces
          /\ \E c \in Contents : Become(Append(evidence, c))
    /\ UNCHANGED <<expected, phase, handle, hashed, openHash, seen, trail,
                   outcome>>
-----------------------------------------------------------------------------
(* RawSource                                                               *)

End(what) == phase' = "over" /\ outcome' = what

\* open_readonly fails, or finds a handle that is not read-only.
OpenFails ==
    /\ phase = "start"
    /\ \E error \in {"source error", "not read-only"} : End(error)
    /\ UNCHANGED <<file, expected, handle, hashed, openHash, seen, trail>>

\* open_file: the size is read from the metadata, once and for all.
OpenFile ==
    /\ phase = "start" /\ phase' = "sized"
    /\ handle' = [NoHandle EXCEPT !.size = Len(evidence)]
    /\ UNCHANGED <<file, expected, hashed, openHash, seen, trail, outcome>>

\* The map covers the file as it is by then; when there can be none the reads
\* are positioned ones.
ChooseBacking ==
    /\ phase = "sized" /\ phase' = "opened"
    /\ \E backing \in IF handle.size = 0 THEN {"empty"}
                                         ELSE {"mapped", "positioned"} :
          handle' = [handle EXCEPT !.backing = backing,
                                   !.length = Len(evidence)]
    /\ UNCHANGED <<file, expected, hashed, openHash, seen, trail, outcome>>

\* The outcomes of read_at at piece i: its content; 0 bytes; a slice out of the
\* bounds of the map; a page that is not backed by the file any more.
Mapped == handle.backing = "mapped"

\* Mutant of Delivers: a positioned read is not kept within the size found at open.
DeliversToTheEnd(i) == /\ i <= Len(evidence)
                       /\ Mapped => i <= handle.size /\ i <= handle.length

Delivers(i) == /\ i <= handle.size /\ i <= Len(evidence)
               /\ Mapped => i <= handle.length
AtEnd(i) == i > handle.size \/ (~Mapped /\ i > Len(evidence))
Panics(i) == Mapped /\ i <= handle.size /\ i > handle.length
Faults(i) == Mapped /\ i <= handle.size /\ i <= handle.length
                    /\ i > Len(evidence)

Dies(i) == \/ Panics(i) /\ End("panicked")
           \/ Faults(i) /\ End("killed by SIGBUS")
-----------------------------------------------------------------------------
(* open() reads the magic to recognise the format: a raw one, here.  Then  *)
(* the whole source is hashed.                                             *)

RecogniseRaw ==
    /\ phase = "opened"
    /\ Delivers(1) \/ AtEnd(1)
    /\ phase' = "hashing open" /\ trail' = Append(trail, <<"source_open">>)
    /\ UNCHANGED <<file, expected, handle, hashed, openHash, seen, outcome>>

RecogniseDies ==
    /\ phase = "opened" /\ Dies(1)
    /\ UNCHANGED <<file, expected, handle, hashed, openHash, seen, trail>>

Hashing == phase \in {"hashing open", "hashing close"}
Next1 == Len(hashed) + 1

\* Mutant of HashPiece: the size found at open does not bound the reads.
HashPastSize ==
    /\ Hashing /\ Next1 <= Len(evidence)
    /\ hashed' = Append(hashed, evidence[Next1])
    /\ UNCHANGED <<file, expected, phase, handle, openHash, seen, trail,
                   outcome>>

HashPiece ==
    /\ Hashing /\ Delivers(Next1)
    /\ hashed' = Append(hashed, evidence[Next1])
    /\ UNCHANGED <<file, expected, phase, handle, openHash, seen, trail,
                   outcome>>

HashDies ==
    /\ Hashing /\ Dies(Next1)
    /\ UNCHANGED <<file, expected, handle, hashed, openHash, seen, trail>>

\* A positioned read returns an I/O error.
ReadFails ==
    /\ ~Mapped
    /\ \/ phase = "opened" /\ Delivers(1)
       \/ Hashing /\ Delivers(Next1)
    /\ End("source error")
    /\ UNCHANGED <<file, expected, handle, hashed, openHash, seen, trail>>

\* Mutant of WrapEnds: a digest that was expected and does not match is only
\* noted, the source is used all the same.
WrapToleratesMismatch ==
    /\ phase = "hashing open" /\ AtEnd(Next1)
    /\ openHash' = Digest(hashed) /\ hashed' = <<>>
    /\ trail' = Append(trail, <<"source_hash", "open", openHash'>>)
    /\ phase' = "processing"
    /\ UNCHANGED <<file, expected, handle, seen, outcome>>

\* A read of 0 bytes ends the hash at open.
WrapEnds ==
    /\ phase = "hashing open" /\ AtEnd(Next1)
    /\ openHash' = Digest(hashed) /\ hashed' = <<>>
    /\ trail' = Append(trail, <<"source_hash", "open", openHash'>>)
    /\ IF expected \subseteq {openHash'}
       THEN phase' = "processing" /\ UNCHANGED outcome
       ELSE End("expected mismatch")
    /\ UNCHANGED <<file, expected, handle, seen>>
-----------------------------------------------------------------------------
(* Processing: scan blocks and extraction windows, in any order            *)

ProcessPiece(i) ==
    /\ phase = "processing" /\ Delivers(i)
    /\ seen' = seen \cup {<<i, evidence[i]>>}
    /\ UNCHANGED <<file, expected, phase, handle, hashed, openHash, trail,
                   outcome>>

ProcessDies(i) ==
    /\ phase = "processing" /\ Dies(i)
    /\ UNCHANGED <<file, expected, handle, hashed, openHash, seen, trail>>

\* Processing ends with an error (a short read, among others): finish is never
\* called.
Abandon ==
    /\ phase = "processing" /\ End("abandoned")
    /\ UNCHANGED <<file, expected, handle, hashed, openHash, seen, trail>>

Finish ==
    /\ phase = "processing" /\ phase' = "hashing close"
    /\ UNCHANGED <<file, expected, handle, hashed, openHash, seen, trail,
                   outcome>>

\* Mutants of FinishEnds: only the lengths of the two hashes are compared; the
\* digests are compared before the close digest is logged.
FinishComparesSizes ==
    /\ phase = "hashing close" /\ AtEnd(Next1)
    /\ trail' = trail \o << <<"source_hash", "close", Digest(hashed)>>,
                            <<"source_close">> >>
    /\ End(IF Len(hashed) = Len(openHash.sha256) THEN "unchanged"
                                                 ELSE "source changed")
    /\ UNCHANGED <<file, expected, handle, hashed, openHash, seen>>

FinishReturnsEarly ==
    /\ phase = "hashing close" /\ AtEnd(Next1)
    /\ End(IF Digest(hashed) = openHash THEN "unchanged" ELSE "source changed")
    /\ trail' = IF outcome' = "source changed" THEN trail
                ELSE trail \o << <<"source_hash", "close", Digest(hashed)>>,
                                 <<"source_close">> >>
    /\ UNCHANGED <<file, expected, handle, hashed, openHash, seen>>

\* Both events are emitted before the digests are compared.
FinishEnds ==
    /\ phase = "hashing close" /\ AtEnd(Next1)
    /\ trail' = trail \o << <<"source_hash", "close", Digest(hashed)>>,
                            <<"source_close">> >>
    /\ End(IF Digest(hashed) = openHash THEN "unchanged" ELSE "source changed")
    /\ UNCHANGED <<file, expected, handle, hashed, openHash, seen>>
-----------------------------------------------------------------------------
Hash == HashPiece \/ HashDies \/ WrapEnds \/ FinishEnds

Done == phase = "over" /\ UNCHANGED vars

Next ==
    \/ Edit
    \/ OpenFails \/ OpenFile \/ ChooseBacking \/ RecogniseRaw \/ RecogniseDies
    \/ Hash \/ ReadFails
    \/ \E i \in Pieces : ProcessPiece(i) \/ ProcessDies(i)
    \/ Abandon \/ Finish
    \/ Done

Spec == Init /\ [][Next]_vars
-----------------------------------------------------------------------------
(* Properties                                                              *)

DigestType == [sha256 : Files]
Event == {<<"source_open">>, <<"source_close">>}
           \cup {<<"source_hash", at, d>> : at \in {"open", "close"},
                                            d \in DigestType}
Broken == {"source error", "not read-only", "panicked", "killed by SIGBUS",
           "abandoned"}

\* The type invariant: the outcome is known exactly when the run is over.
TypeOK ==
    /\ evidence \in Files /\ past \in [Pieces -> SUBSET (Contents \cup {Absent})]
    /\ edits \in 0..MaxEdits /\ reverted \in BOOLEAN
    /\ expected \subseteq DigestType
    /\ phase \in {"start", "sized", "opened", "hashing open", "processing",
                  "hashing close", "over"}
    /\ handle \in [backing : {"none", "empty", "mapped", "positioned"},
                   size : 0..MaxPieces, length : 0..MaxPieces]
    /\ hashed \in Files /\ Len(hashed) <= handle.size
    /\ openHash \in DigestType
    /\ seen \subseteq Pieces \X Contents
    /\ trail \in Seq(Event)
    /\ outcome \in {"pending", "unchanged", "source changed",
                    "expected mismatch"} \cup Broken
    /\ phase = "over" <=> outcome # "pending"

\* A run that ends well processed exactly what its open hash vouches for: each
\* byte that was read is the one that was hashed, although other processes could
\* write at any time between and during the hashes and the reads.  The one thing
\* two hashes cannot see is a change that is undone (integrity.rs:103-115).
ProcessedWhatWasHashed ==
    outcome = "unchanged" /\ ~reverted =>
        \A pair \in seen : /\ pair[1] \in DOMAIN openHash.sha256
                           /\ openHash.sha256[pair[1]] = pair[2]

\* What the caller expects is what is processed: a source that does not match
\* the expected digest is given up before a byte of it is used, and a run that
\* ends well processed the expected bytes (integrity.rs:79-87).
ProcessedWhatWasExpected ==
    /\ outcome = "expected mismatch" => seen = {}
    /\ outcome = "unchanged" /\ ~reverted =>
          \A d \in expected : \A pair \in seen :
              /\ pair[1] \in DOMAIN d.sha256
              /\ d.sha256[pair[1]] = pair[2]

\* The audit trail tells the verdict: it ends with a close digest exactly when
\* the run came to compare the two, and then the digests it shows are the ones
\* compared, so they are equal for an unchanged source and differ for a changed
\* one (integrity.rs:71-77, 103-114).
DigestsAt(at) ==
    {trail[n][3] : n \in {m \in DOMAIN trail :
        trail[m][1] = "source_hash" /\ trail[m][2] = at}}

TrailTellsTheVerdict ==
    LET pairs == DigestsAt("open") \X DigestsAt("close")
    IN  /\ outcome = "unchanged" <=> \E p \in pairs : p[1] = p[2]
        /\ outcome = "source changed" <=> \E p \in pairs : p[1] # p[2]
        /\ outcome = "expected mismatch" =>
              \E d \in DigestsAt("open") : {d} # expected
        /\ outcome \in Broken => DigestsAt("close") = {}

\* Piece i no longer holds something that it held.
Lost(i) == past[i] \cap Contents # {}

\* The size found at open is the size of the evidence (raw.rs:80, 94-103): that
\* another process goes on appending to the file, between the open and the map,
\* between two reads or between the two hashes, is no change.  No run is told of a
\* changed source, and none dies, unless something within that size was lost.
GrowthIsNoChange ==
    outcome \in {"source changed", "panicked", "killed by SIGBUS"} =>
        \E i \in 1 .. handle.size : Lost(i)

\* raw.rs:44-45: "truncation under us would SIGBUS, caught by the open/close
\* hashing".  A truncation is caught by a hash; it does not end the process.
TruncationCaughtByHashing == outcome # "killed by SIGBUS"
=============================================================================
