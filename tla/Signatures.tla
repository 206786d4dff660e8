----------------------------- MODULE Signatures -----------------------------
(***************************************************************************)
(* Signature patterns, their occurrences in a run of bytes, and the order  *)
(* in which hits are reported (latent-scan).  A byte is any value; a       *)
(* pattern set is a sequence of byte sequences, whose positions are the    *)
(* pattern ids carried by the hits.                                        *)
(***************************************************************************)
EXTENDS Integers, Sequences, FiniteSets

\* Pattern p of the set occurs in bytes at the 0-based offset i.  This is what
\* the external Aho-Corasick automaton reports under MatchKind::Standard with
\* overlapping iteration: every occurrence of every pattern.
MatchesAt(patterns, bytes, i, p) ==
    /\ i + Len(patterns[p]) <= Len(bytes)
    /\ \A k \in 1..Len(patterns[p]) : bytes[i + k] = patterns[p][k]

Hits(patterns, offsets) == [offset : offsets, pattern : DOMAIN patterns]

Occurrences(patterns, bytes) ==
    {h \in Hits(patterns, 0 .. Len(bytes) - 1) :
        MatchesAt(patterns, bytes, h.offset, h.pattern)}

\* The derived Ord of Hit: offset first, then pattern id.
HitBefore(g, h) ==
    \/ g.offset < h.offset
    \/ g.offset = h.offset /\ g.pattern < h.pattern

\* The hits of S in that order: the i-th is the one that i-1 others precede.
InOrder(S) ==
    [i \in 1..Cardinality(S) |->
        CHOOSE h \in S : Cardinality({g \in S : HitBefore(g, h)}) = i - 1]
=============================================================================
