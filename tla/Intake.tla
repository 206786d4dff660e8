------------------------------- MODULE Intake -------------------------------
(***************************************************************************)
(* A triage collection taken in: its tree is walked, its files are opened  *)
(* one after the other, and threads read what was opened while the next    *)
(* ones are.  An image in the tree is opened through libewf, by its name.  *)
(***************************************************************************)
EXTENDS Collection, EwfSource

CONSTANT MaxReads   \* reads made of all the sources

ASSUME IntakeAssumption ==
    /\ MaxReads \in Nat
    /\ \A t \in Trees : {p \in DOMAIN t : t[p].type = "ewf"} \subseteq Images

VARIABLES
    next,    \* the number of files sources() has come to
    opening, \* whether the last of them is still being opened
    reads    \* the number of reads made

vars == <<collection, image, next, opening, reads>>

Init ==
    /\ CollectionInit /\ EwfInit
    /\ next = 0 /\ opening = FALSE /\ reads = 0

WalkTree == WalkStep /\ UNCHANGED <<image, next, opening, reads>>

\* The next() of sources(): open looks at the first bytes.  A file that cannot be
\* opened, and one that is a source by itself, are done with; E01 goes to libewf.
OpenNext ==
    /\ walking = "done" /\ ~opening /\ next < Len(files)
    /\ next' = next + 1
    /\ \/ UNCHANGED <<image, opening>>
       \/ /\ \E p \in Images :
                p = files[next'] /\ tree[p].type = "ewf" /\ Begin(p)
          /\ opening' = TRUE
    /\ UNCHANGED <<collection, reads>>

OpenImage ==
    /\ opening
    /\ \E p \in Images :
          /\ p = files[next] /\ OpenEwf(p)
          /\ opening' = (ewf'[p].at \notin {"failed", "live"})
    /\ UNCHANGED <<collection, next, reads>>

Read(t, p, r) ==
    /\ reads < MaxReads /\ reads' = reads + 1
    /\ StartRead(t, p, r)
    /\ UNCHANGED <<collection, next, opening>>

Proceed(t) == ReadStep(t) /\ UNCHANGED <<collection, next, opening, reads>>

LetGo(p, holder) ==
    /\ Release(p, holder) /\ UNCHANGED <<collection, next, opening, reads>>

Next ==
    \/ WalkTree \/ OpenNext \/ OpenImage
    \/ \E t \in Threads : Proceed(t)
    \/ \E t \in Threads, p \in Images, r \in Requests : Read(t, p, r)
    \/ \E p \in Images, holder \in Threads \cup {Main} : LetGo(p, holder)

\* The walk and an open go on by themselves, and so does a read that was begun: a
\* mutex held for one call at a time is free in the end.  A thread that has its
\* answer, and the opener, let go of the source some day.
Fairness ==
    /\ WF_vars(WalkTree) /\ WF_vars(OpenNext) /\ WF_vars(OpenImage)
    /\ \A t \in Threads : WF_vars(Proceed(t))
    /\ \A p \in Images, holder \in Threads \cup {Main} : WF_vars(LetGo(p, holder))

Spec == Init /\ [][Next]_vars /\ Fairness
-----------------------------------------------------------------------------
(* Properties                                                              *)

TypeOK ==
    /\ walking \in {"no", "yes", "done", "error"} /\ opening \in BOOLEAN
    /\ ToSet(files) \cup ToSet(skipped) \subseteq DOMAIN tree
    /\ next \in 0..Len(files) /\ reads \in 0..MaxReads
    /\ \A p \in Images :
          /\ ewf[p].names \in {"none", "held", "freed"}
          /\ ewf[p].handle \in {"none", "closed", "open", "freed"}
          /\ ewf[p].position \in 0..MediaSize
          /\ refs[p] # {} => ewf[p].at = "live"
    /\ \A t \in Threads : reader[t] # Idle => Len(reader[t].got) <= reader[t].want.n

\* What can be reached: every directory on the way can be listed and known.
Reached(path) ==
    \A n \in 1..Len(path) :
        /\ path \in DOMAIN tree /\ tree[SubSeq(path, 1, n)].fails # "entry"
        /\ tree[SubSeq(path, 1, n - 1)].fails \notin {"list", "type"}
        /\ tree[SubSeq(path, 1, n - 1)].type = "dir"

\* Path a comes before path b: in the first name they differ in.
Before(a, b) ==
    \E n \in 1 .. Min({Len(a), Len(b)}) :
        SubSeq(a, 1, n - 1) = SubSeq(b, 1, n - 1) /\ a[n] < b[n]

\* However the system lists the directories, the files are those that can be
\* reached, are not empty and tell so, each once and in the order of their paths;
\* of what else can be reached, each that is not a directory is reported as
\* skipped, and only what is in an unreadable directory or comes as an unreadable
\* entry is in neither list (collection.rs:59-90).
WalkExact ==
    walking = "done" =>
        LET reached == {p \in DOMAIN tree \ {<<>>} : Reached(p)}
            kept    == {p \in reached : Keeps(tree[p])}
        IN  /\ Len(files) = Cardinality(kept) /\ ToSet(files) = kept
            /\ \A i, j \in DOMAIN files : i < j => Before(files[i], files[j])
            /\ Len(skipped) = Cardinality(ToSet(skipped))
            /\ ToSet(skipped) = {p \in reached \ kept :
                                    tree[p].type # "dir" \/ tree[p].fails = "type"}

\* Every file of the collection gets its turn, every read that was begun gets an
\* answer, and in the end every image that was opened is closed.
EverythingAnswered ==
    /\ walking = "no" ~>
          walking = "error" \/ (walking = "done" /\ next = Len(files))
    /\ \A t \in Threads : reader[t].at = "begin" ~> reader[t] = Idle
    /\ \A p \in Images : ewf[p].at = "live" ~> ewf[p].at = "dropped"
=============================================================================
