------------------------------ MODULE EwfSource ------------------------------
(***************************************************************************)
(* E01 images through libewf: the calls open makes and what it frees on    *)
(* each early return, positioned reads under the handle's mutex, and the   *)
(* release of the handle by the last holder of the source.                 *)
(*                                                                         *)
(* libewf is external.  Of it the model has the life of what it allocates, *)
(* and that read_random moves the handle's position and then reads there.  *)
(* A call that its objects do not allow is recorded in misused.            *)
(***************************************************************************)
EXTENDS Integers, Sequences, FiniteSetsExt

CONSTANTS
    Images,     \* the paths that may be opened
    Threads,    \* threads that read
    Main,       \* the one that opens sources and hands them out
    MediaSize,  \* the size of every image
    Requests    \* reads to make: [offset, n] records, n > 0

ASSUME EwfAssumption ==
    /\ Main \notin Threads /\ MediaSize \in Nat
    /\ \A r \in Requests : r.offset \in Nat /\ r.n \in Nat \ {0}

VARIABLES
    ewf,      \* per image: how far it is opened, libewf's list of its segment
              \* names and its handle, and the handle's position
    lock,     \* per image: who holds the mutex, Main meaning nobody
    refs,     \* per image: the holders of the Arc
    reader,   \* per thread: its read_exact_at call
    misused   \* the images whose library objects were used against the rules

image == <<ewf, lock, refs, reader, misused>>

Idle == [at |-> "idle"]
Media(p, offset, n) == [i \in 1..n |-> <<p, offset + i - 1>>]

EwfInit ==
    /\ ewf = [p \in Images |->
                 [at |-> "new", names |-> "none", handle |-> "none", position |-> 0]]
    /\ lock = [p \in Images |-> Main] /\ refs = [p \in Images |-> {}]
    /\ reader = [t \in Threads |-> Idle]
    /\ misused = {}

\* A call on p's objects, allowed when ok, that leaves them as changed.
Call(p, ok, changed) ==
    /\ ewf' = [ewf EXCEPT ![p] = changed]
    /\ misused' = IF ok THEN misused ELSE misused \cup {p}
-----------------------------------------------------------------------------
(* open: each call succeeds or fails                                       *)

\* What is kept of a path is kept for one open: paths are opened once.
Begin(p) ==
    /\ ewf[p].at = "new"
    /\ ewf' = [ewf EXCEPT ![p].at = "begun"]
    /\ UNCHANGED <<lock, refs, reader, misused>>

Glob(p) ==
    /\ ewf[p].at = "begun"
    /\ \/ Call(p, TRUE, [ewf[p] EXCEPT !.at = "globbed", !.names = "held"])
       \/ Call(p, TRUE, [ewf[p] EXCEPT !.at = "failed"])
    /\ UNCHANGED <<lock, refs, reader>>

\* Mutant of Initialize: the names are freed before the image is opened by them.
InitializeFreesNames(p) ==
    /\ ewf[p].at = "globbed"
    /\ \/ Call(p, ewf[p].names = "held",
               [ewf[p] EXCEPT !.at = "initialized", !.names = "freed",
                              !.handle = "closed"])
       \/ Call(p, ewf[p].names = "held",
               [ewf[p] EXCEPT !.at = "failed", !.names = "freed"])
    /\ UNCHANGED <<lock, refs, reader>>

Initialize(p) ==
    /\ ewf[p].at = "globbed"
    /\ \/ Call(p, TRUE, [ewf[p] EXCEPT !.at = "initialized", !.handle = "closed"])
       \/ Call(p, ewf[p].names = "held",
               [ewf[p] EXCEPT !.at = "failed", !.names = "freed"])
    /\ UNCHANGED <<lock, refs, reader>>

\* Mutant of OpenHandle: an image that is refused keeps its handle.
OpenHandleKept(p) ==
    /\ ewf[p].at = "initialized"
    /\ LET ok == ewf[p].handle = "closed" /\ ewf[p].names = "held"
       IN  \/ Call(p, ok, [ewf[p] EXCEPT !.at = "opened", !.names = "freed",
                                         !.handle = "open"])
           \/ Call(p, ok, [ewf[p] EXCEPT !.at = "failed", !.names = "freed"])
    /\ UNCHANGED <<lock, refs, reader>>

\* The names are freed either way, the handle when it was not opened.
OpenHandle(p) ==
    /\ ewf[p].at = "initialized"
    /\ LET ok == ewf[p].handle = "closed" /\ ewf[p].names = "held"
       IN  \/ Call(p, ok, [ewf[p] EXCEPT !.at = "opened", !.names = "freed",
                                         !.handle = "open"])
           \/ Call(p, ok, [ewf[p] EXCEPT !.at = "failed", !.names = "freed",
                                         !.handle = "freed"])
    /\ UNCHANGED <<lock, refs, reader>>

GetMediaSize(p) ==
    /\ ewf[p].at = "opened"
    /\ \/ Call(p, ewf[p].handle = "open", [ewf[p] EXCEPT !.at = "sized"])
       \/ Call(p, ewf[p].handle = "open",
               [ewf[p] EXCEPT !.at = "failed", !.handle = "freed"])
    /\ UNCHANGED <<lock, refs, reader>>

\* hash_value, for MD5 and for SHA1: whether there is one changes nothing else.
GetHashes(p) ==
    /\ ewf[p].at = "sized"
    /\ Call(p, ewf[p].handle = "open", [ewf[p] EXCEPT !.at = "live"])
    /\ refs' = [refs EXCEPT ![p] = {Main}]
    /\ UNCHANGED <<lock, reader>>

OpenEwf(p) == Glob(p) \/ Initialize(p) \/ OpenHandle(p) \/ GetMediaSize(p)
              \/ GetHashes(p)
-----------------------------------------------------------------------------
(* read_exact_at, and read_at in each of its turns                         *)

Turn(t, changed) == reader' = [reader EXCEPT ![t] = changed]
Answer(t, how) == Turn(t, [reader[t] EXCEPT !.at = how])

\* A thread is given the source and asked to read.
StartRead(t, p, r) ==
    /\ reader[t] = Idle /\ Main \in refs[p]
    /\ refs' = [refs EXCEPT ![p] = @ \cup {t}]
    /\ Turn(t, [at |-> "begin", path |-> p, want |-> r, got |-> <<>>])
    /\ UNCHANGED <<ewf, lock, misused>>

Offset(t) == reader[t].want.offset + Len(reader[t].got)

\* Mutant of Left: the buffer does not get shorter with what was read.
LeftAll(t) == reader[t].want.n

Left(t) == reader[t].want.n - Len(reader[t].got)

\* n of read_at, at most what is left of the image.
Amount(t) == Min({Left(t), MediaSize - Offset(t)})

Bounds(t) ==
    /\ reader[t].at = "begin"
    /\ Answer(t, IF Left(t) = 0 THEN "ok"
                 ELSE IF Offset(t) > MediaSize \/ Amount(t) = 0 THEN "error"
                 ELSE "locking")
    /\ UNCHANGED <<ewf, lock, refs, misused>>

\* Mutant of Lock: the handle is used without its mutex.
LockNot(t) ==
    /\ reader[t].at = "locking"
    /\ Answer(t, "locked")
    /\ UNCHANGED <<ewf, lock, refs, misused>>

Lock(t) ==
    /\ reader[t].at = "locking" /\ lock[reader[t].path] = Main
    /\ lock' = [lock EXCEPT ![reader[t].path] = t]
    /\ Answer(t, "locked")
    /\ UNCHANGED <<ewf, refs, misused>>

\* libewf_handle_read_random: it goes to the offset, and reads from there.
Seek(t) ==
    /\ reader[t].at = "locked"
    /\ LET p == reader[t].path
       IN  Call(p, ewf[p].handle = "open", [ewf[p] EXCEPT !.position = Offset(t)])
    /\ Answer(t, "reading")
    /\ UNCHANGED <<lock, refs>>

\* Mutant of AfterRead: a read of nothing is tried again.
AfterReadAgain(m) == "begin"

\* Nothing read ends read_exact_at with a short read.
AfterRead(m) == IF m = 0 THEN "error" ELSE "begin"

\* m bytes are read, possibly fewer than asked for, or it fails; the mutex is
\* given back.
ReadRandom(t) ==
    /\ reader[t].at = "reading"
    /\ LET p == reader[t].path
       IN  /\ Call(p, ewf[p].handle = "open", ewf[p])
           /\ \/ Answer(t, "error")
              \/ \E m \in 0..Amount(t) :
                    Turn(t, [reader[t] EXCEPT
                                !.at = AfterRead(m),
                                !.got = @ \o Media(p, ewf[p].position, m)])
           /\ lock' = [lock EXCEPT ![p] = Main]
    /\ UNCHANGED refs

ReadStep(t) == Bounds(t) \/ Lock(t) \/ Seek(t) \/ ReadRandom(t)
-----------------------------------------------------------------------------
\* holder lets go of its Arc; the last one closes the handle and frees it, once
\* it has the mutex.
Release(p, holder) ==
    /\ holder \in refs[p]
    /\ holder # Main => reader[holder].at \in {"ok", "error"}
    /\ refs' = [refs EXCEPT ![p] = @ \ {holder}]
    /\ reader' = IF holder = Main THEN reader ELSE [reader EXCEPT ![holder] = Idle]
    /\ IF refs[p] = {holder}
       THEN /\ lock[p] = Main
            /\ Call(p, ewf[p].handle = "open",
                    [ewf[p] EXCEPT !.at = "dropped", !.handle = "freed"])
       ELSE UNCHANGED <<ewf, misused>>
    /\ UNCHANGED lock
-----------------------------------------------------------------------------
EwfNext ==
    \/ \E p \in Images : Begin(p) \/ OpenEwf(p)
    \/ \E t \in Threads : ReadStep(t)
    \/ \E t \in Threads, p \in Images, r \in Requests : StartRead(t, p, r)
    \/ \E p \in Images, holder \in Threads \cup {Main} : Release(p, holder)

EwfSpec == EwfInit /\ [][EwfNext]_image
-----------------------------------------------------------------------------
(* Properties                                                              *)

\* libewf's objects are never used before they are there or after they are freed,
\* nor freed twice, on no path through open, read_at and drop (ewf.rs:121, 270).
LibraryUsedWell == misused = {}

\* Whatever open returns, and whoever is the last to let go of a source, nothing
\* that libewf allocated for it is left (ewf.rs:121-122).
NothingLeaks ==
    \A p \in Images :
        /\ ewf[p].at \in {"new", "failed", "dropped"} =>
              ewf[p].names # "held" /\ ewf[p].handle \in {"none", "freed"}
        /\ ewf[p].at = "live" => refs[p] # {} /\ ewf[p].names # "held"

\* A read that succeeds has the bytes it asked for, of the image and the place it
\* asked for, although all threads share the handle's position
\* (docs/formats/ewf.md: "one call at a time under a mutex").
ReadsWhatWasAsked ==
    \A t \in Threads :
        reader[t].at = "ok" =>
            reader[t].got = Media(reader[t].path, reader[t].want.offset,
                                  reader[t].want.n)
=============================================================================
