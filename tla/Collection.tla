----------------------------- MODULE Collection -----------------------------
(***************************************************************************)
(* A triage collection of latent-source: a directory whose files are each  *)
(* a source, listed depth first with the entries of a directory in the     *)
(* order of their names, whatever order the system lists them in.          *)
(*                                                                         *)
(* A path is the sequence of the names that lead to it from the root, which*)
(* is the empty one.  A name is a number.                                  *)
(***************************************************************************)
EXTENDS Integers, Sequences, FiniteSets, SequencesExt, FiniteSetsExt

CONSTANT Trees   \* directory trees, functions from path to node:
                 \* [type, fails], type being "dir", "raw", "ewf", "empty" or
                 \* "other" (a link, a device), and fails the call on it that
                 \* fails: "entry" (it cannot be listed), "type", "metadata",
                 \* "list" (its own entries cannot be read) or "none"

Parent(path) == Front(path)
Name(path) == Last(path)

\* The root is nobody's entry, and what is in a tree is in a directory of it.
ASSUME CollectionAssumption ==
    \A t \in Trees :
        /\ IsFiniteSet(DOMAIN t) /\ DOMAIN t \subseteq Seq(Nat)
        /\ <<>> \in DOMAIN t /\ t[<<>>].fails \notin {"entry", "type"}
        /\ \A p \in DOMAIN t \ {<<>>} : Parent(p) \in DOMAIN t

VARIABLES
    tree,     \* the tree on disk
    walking,  \* "no", "yes", "done" or "error"
    stack,    \* the calls of walk in progress: the entries each has left
    files, skipped

collection == <<tree, walking, stack, files, skipped>>

CollectionInit ==
    /\ tree \in Trees
    /\ walking = "no" /\ stack = <<>> /\ files = <<>> /\ skipped = <<>>
-----------------------------------------------------------------------------
\* The entries a listing of dir yields; those that come as an error are dropped.
Children(dir) ==
    IF tree[dir].fails = "list" THEN {}
    ELSE {path \in DOMAIN tree \ {<<>>} :
             Parent(path) = dir /\ tree[path].fails # "entry"}

\* Mutant of Sorted: the order of the system is kept.
Unsorted(entries) == entries

\* No two entries of a directory have the same name.
Sorted(entries) ==
    CHOOSE s \in SetToSeqs(ToSet(entries)) :
        \A i, j \in DOMAIN s : i < j => Name(s[i]) < Name(s[j])

\* The walk of dir: its entries, in whatever order the system gives them, sorted.
\* A directory that cannot be read leaves nothing to do.
Walk(dir, below) ==
    \E listing \in SetToSeqs(Children(dir)) :
        stack' = <<Sorted(listing)>> \o below

OpenCollection ==
    /\ walking = "no"
    /\ IF tree[<<>>].fails = "metadata" \/ tree[<<>>].type # "dir"
       THEN walking' = "error" /\ UNCHANGED stack
       ELSE walking' = "yes" /\ Walk(<<>>, <<>>)
    /\ UNCHANGED <<tree, files, skipped>>

Entry == stack[1][1]
Node == tree[Entry]
Rest == <<Tail(stack[1])>> \o Tail(stack)

Visiting == walking = "yes" /\ stack # <<>> /\ stack[1] # <<>>

\* The entry is a directory: walked before the next entry is looked at.
Descend ==
    /\ Visiting /\ Node.fails # "type" /\ Node.type = "dir"
    /\ Walk(Entry, Rest)
    /\ UNCHANGED <<tree, walking, files, skipped>>

Keeps(node) ==
    node.fails \notin {"type", "metadata"} /\ node.type \in {"raw", "ewf"}

AddFile ==
    /\ Visiting /\ Keeps(Node)
    /\ files' = Append(files, Entry) /\ stack' = Rest
    /\ UNCHANGED <<tree, walking, skipped>>

\* No type to be had, an empty file or one without metadata, or no file at all.
Skip ==
    /\ Visiting /\ ~Keeps(Node)
    /\ Node.fails = "type" \/ Node.type # "dir"
    /\ skipped' = Append(skipped, Entry) /\ stack' = Rest
    /\ UNCHANGED <<tree, walking, files>>

ReturnFromWalk ==
    /\ walking = "yes" /\ stack # <<>> /\ stack[1] = <<>>
    /\ stack' = Tail(stack)
    /\ walking' = IF stack' = <<>> THEN "done" ELSE walking
    /\ UNCHANGED <<tree, files, skipped>>

WalkStep ==
    OpenCollection \/ Descend \/ AddFile \/ Skip \/ ReturnFromWalk
=============================================================================
