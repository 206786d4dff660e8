------------------------------ MODULE AuditLog ------------------------------
(***************************************************************************)
(* The audit trail of latent-core (audit.rs): AuditWriter, its BufWriter,  *)
(* init, the lines that threads emit, and AuditLog::close, over several    *)
(* runs of the program that append to the same file.  A process may call   *)
(* init again beside the log it has: the second call opens the file with a *)
(* writer of its own and is refused only after its run_start is written.   *)
(*                                                                         *)
(* A line is [run, number, size]; in the file and in the buffer it is size *)
(* body bytes <<run, number, i>> and the newline <<run, number, 0>>.  The  *)
(* run_start of an init that is called again has number 0.  The mutex      *)
(* makes one call of AuditWriter::line one step, whatever thread makes it. *)
(***************************************************************************)
EXTENDS Integers, Sequences, SequencesExt

CONSTANTS Capacity,   \* bytes of the BufWriter, 8 KiB in the program
          Sizes,      \* the body sizes of lines
          MaxRuns,    \* bound on the runs of the program
          MaxLines,   \* bound on the lines of one run
          MaxAgain    \* bound on the calls of init beside a log, over all runs

ASSUME AuditAssumption ==
    /\ Capacity \in Nat \ {0} /\ Sizes \subseteq Nat
    /\ MaxRuns \in Nat /\ MaxLines \in Nat /\ MaxAgain \in Nat

VARIABLES
    file,     \* what is in the audit file: it survives the process
    buffer,   \* BufWriter: bytes accepted and not written to the file
    err,      \* Inner.err is set
    stray,    \* the BufWriter of a log that init built again
    alone,    \* this process did not call init again
    again,    \* how many such calls there were, in all runs
    phase,    \* where the process is: see Init and the actions
    measured, \* the length close() read, once it has
    digest,   \* the content close() hashed, once it has
    run,      \* number of the current or last run
    lines,    \* history: how many lines of this run were given to line()
    given,    \* history: their bytes, in lock order
    ended,    \* history: how many bytes that was when close() wrote run_end
    before    \* history: the file when this run began

history == <<lines, given, ended, before>>
another == <<stray, alone, again>>
vars == <<file, buffer, err, another, phase, measured, digest, run, history>>

Unknown == -1

Init ==
    /\ file = <<>> /\ buffer = <<>> /\ err = FALSE
    /\ stray = <<>> /\ alone = TRUE /\ again = 0
    /\ phase = "no process"
    /\ measured = Unknown /\ digest = <<>>
    /\ run = 0 /\ lines = 0 /\ given = <<>> /\ ended = Unknown /\ before = <<>>
-----------------------------------------------------------------------------
(* std::io::BufWriter over the file.  A write(2) may fail after a part of  *)
(* its bytes; what it did write is taken out of the buffer.                *)

Body(line) == [i \in 1..line.size |-> <<line.run, line.number, i>>]
Newline(line) == << <<line.run, line.number, 0>> >>
Bytes(line) == Body(line) \o Newline(line)

Result(f, b, ok) == [file |-> f, buffer |-> b, ok |-> ok]

\* flush_buf: the buffer goes to the file, all of it or a part and an error.
FlushBuffer(f, b) ==
    {Result(f \o b, <<>>, TRUE)} \cup
    {Result(f \o SubSeq(b, 1, k), SubSeq(b, k + 1, Len(b)), FALSE) :
        k \in 0 .. Len(b) - 1}

\* What is at least as long as the buffer goes past it, straight to the file.
WriteThrough(f, b, data) ==
    {Result(f \o data, b, TRUE)} \cup
    {Result(f \o SubSeq(data, 1, k), b, FALSE) : k \in 0 .. Len(data) - 1}

\* write_all: data that does not fit in the room left empties the buffer first.
WriteAll(f, b, data) ==
    LET flushed == IF Len(data) > Capacity - Len(b) THEN FlushBuffer(f, b)
                                                    ELSE {Result(f, b, TRUE)}
        store(r) == IF ~r.ok THEN {r}
                    ELSE IF Len(data) >= Capacity
                         THEN WriteThrough(r.file, r.buffer, data)
                         ELSE {Result(r.file, r.buffer \o data, TRUE)}
    IN  UNION {store(r) : r \in flushed}

\* The body, and the newline when the body went well.
WriteLine(f, b, line) ==
    LET newline(r) == IF r.ok THEN WriteAll(r.file, r.buffer, Newline(line))
                              ELSE {r}
    IN  UNION {newline(r) : r \in WriteAll(f, b, Body(line))}

\* Mutants of Write: a line is written although an error is pending; an error is
\* not kept.
WriteRegardless(earlier, line) ==
    /\ lines' = line.number /\ given' = earlier \o Bytes(line)
    /\ \E r \in WriteLine(file, buffer, line) :
          file' = r.file /\ buffer' = r.buffer /\ err' = (err \/ ~r.ok)

WriteForgets(earlier, line) ==
    /\ lines' = line.number /\ given' = earlier \o Bytes(line)
    /\ \E r \in WriteLine(file, buffer, line) :
          file' = r.file /\ buffer' = r.buffer /\ err' = FALSE

\* AuditWriter::line, after what was given `earlier`: nothing is written once an
\* error is pending.
Write(earlier, line) ==
    /\ lines' = line.number /\ given' = earlier \o Bytes(line)
    /\ \/ err /\ UNCHANGED <<file, buffer, err>>
       \/ /\ ~err
          /\ \E r \in WriteLine(file, buffer, line) :
                file' = r.file /\ buffer' = r.buffer /\ err' = ~r.ok

NewLine(size) == [run |-> run, number |-> lines + 1, size |-> size]
FirstLine(size) == [run |-> run + 1, number |-> 1, size |-> size]
StrayLine(size) == [run |-> run, number |-> 0, size |-> size]
-----------------------------------------------------------------------------
(* A run of the program: build and init                                    *)

\* The output directory or the file cannot be created.
OpenFails ==
    /\ phase = "no process" /\ run < MaxRuns
    /\ run' = run + 1 /\ lines' = 0 /\ given' = <<>>
    /\ before' = file /\ ended' = Unknown
    /\ UNCHANGED <<file, buffer, err, another, phase, measured, digest>>

\* Mutant of Build: the file is truncated when it is opened.
BuildTruncates(size) ==
    /\ phase = "no process" /\ run < MaxRuns
    /\ run' = run + 1 /\ before' = <<>> /\ ended' = Unknown
    /\ lines' = 1 /\ given' = Bytes(FirstLine(size))
    /\ \E r \in WriteLine(<<>>, <<>>, FirstLine(size)) :
          file' = r.file /\ buffer' = r.buffer /\ err' = ~r.ok
    /\ phase' = "built"
    /\ UNCHANGED <<another, measured, digest>>

\* The file is opened for appending and run_start is the first line.
Build(size) ==
    /\ phase = "no process" /\ run < MaxRuns
    /\ run' = run + 1 /\ before' = file /\ ended' = Unknown
    /\ Write(<<>>, FirstLine(size))
    /\ phase' = "built"
    /\ UNCHANGED <<another, measured, digest>>

Install ==
    /\ phase = "built" /\ phase' = "running"
    /\ UNCHANGED <<file, buffer, err, another, measured, digest, run, history>>

\* Mutant of AlreadyInstalled: a reference to the writer is kept somewhere.
AlreadyInstalledKeepsWriter ==
    /\ phase = "built" /\ phase' = "rejected"
    /\ UNCHANGED <<file, buffer, err, another, measured, digest, run, history>>

\* Another subscriber is installed: init fails, the last reference to the
\* writer is dropped and BufWriter's drop flushes, ignoring errors.
AlreadyInstalled ==
    /\ phase = "built" /\ phase' = "rejected"
    /\ \E r \in FlushBuffer(file, buffer) : file' = r.file
    /\ buffer' = <<>>
    /\ UNCHANGED <<err, another, measured, digest, run, history>>

\* init is called again while this process has a log: build opens the same file
\* with another writer and writes a run_start to it.
BuildAgain(size) ==
    /\ phase # "no process" /\ stray = <<>> /\ again < MaxAgain
    /\ alone' = FALSE /\ again' = again + 1
    /\ \E r \in WriteLine(file, <<>>, StrayLine(size)) :
          file' = r.file /\ stray' = r.buffer
    /\ UNCHANGED <<buffer, err, phase, measured, digest, run, history>>

\* A subscriber is installed by then, so that call fails too and its writer is
\* dropped.
RefuseAgain ==
    /\ phase \notin {"no process", "built"} /\ stray # <<>>
    /\ \E r \in FlushBuffer(file, stray) : file' = r.file
    /\ stray' = <<>>
    /\ UNCHANGED <<buffer, err, alone, again, phase, measured, digest>>
    /\ UNCHANGED <<run, history>>

\* Any thread: source_open, source_hash, phase, source_close.  The global
\* subscriber outlives the AuditLog, so lines also come during and after close.
Closing == {"ending", "flushed", "checked", "measured"}
Closed == {"closed", "close failed"}

Emit(size) ==
    /\ phase \in {"running"} \cup Closing \cup Closed
    /\ lines < MaxLines
    /\ Write(given, NewLine(size))
    /\ UNCHANGED <<another, phase, measured, digest, run, ended, before>>

\* The process is over: main returns, with or without having closed the log, or
\* is killed.  Nothing drops the writer the global subscriber holds, so what is
\* buffered is gone, and so is what a second writer still has if it is killed.
EndOfProcess ==
    /\ phase # "no process" /\ phase' = "no process"
    /\ buffer' = <<>> /\ err' = FALSE /\ measured' = Unknown /\ digest' = <<>>
    /\ stray' = <<>> /\ alone' = TRUE
    /\ UNCHANGED <<file, again, run, history>>
-----------------------------------------------------------------------------
(* AuditLog::close, call by call: the lock is free between them            *)

WriteRunEnd(size) ==
    /\ phase = "running" /\ phase' = "ending"
    /\ Write(given, NewLine(size))
    /\ ended' = Len(given')
    /\ UNCHANGED <<another, measured, digest, run, before>>

Flush ==
    /\ phase = "ending"
    /\ \E r \in FlushBuffer(file, buffer) :
          /\ file' = r.file /\ buffer' = r.buffer
          /\ phase' = IF r.ok THEN "flushed" ELSE "close failed"
    /\ UNCHANGED <<err, another, measured, digest, run, history>>

TakeErr ==
    /\ phase = "flushed" /\ err' = FALSE
    /\ phase' = IF err THEN "close failed" ELSE "checked"
    /\ UNCHANGED <<file, buffer, another, measured, digest, run, history>>

\* Mutant of Measure: the length is that of what this run has written.
MeasureThisRun ==
    /\ phase = "checked" /\ phase' = "measured"
    /\ measured' = Len(file) - Len(before)
    /\ UNCHANGED <<file, buffer, err, another, digest, run, history>>

\* The file is opened again and its length read.
Measure ==
    /\ phase = "checked" /\ phase' = "measured"
    /\ measured' = Len(file)
    /\ UNCHANGED <<file, buffer, err, another, digest, run, history>>

\* sha256_reader reads on to the end of the file as it is when it gets there.
Hash ==
    /\ phase = "measured" /\ phase' = "closed"
    /\ digest' = file
    /\ UNCHANGED <<file, buffer, err, another, measured, run, history>>

\* Opening or reading the file fails.
ReopenFails ==
    /\ phase \in {"checked", "measured"} /\ phase' = "close failed"
    /\ UNCHANGED <<file, buffer, err, another, measured, digest, run, history>>
-----------------------------------------------------------------------------
Done == phase = "no process" /\ run = MaxRuns /\ UNCHANGED vars

Next ==
    \/ OpenFails \/ Install \/ AlreadyInstalled \/ RefuseAgain \/ EndOfProcess
    \/ \E size \in Sizes :
          Build(size) \/ BuildAgain(size) \/ Emit(size) \/ WriteRunEnd(size)
    \/ Flush \/ TakeErr \/ Measure \/ Hash \/ ReopenFails
    \/ Done

Spec == Init /\ [][Next]_vars
-----------------------------------------------------------------------------
(* Properties                                                              *)

ByteType == (1..MaxRuns) \X Nat \X Nat

\* The bytes of the runs' own lines: all but those of a run_start that init wrote
\* when it was called again.
Own(bytes) ==
    FlattenSeq([i \in 1..Len(bytes) |->
                   IF bytes[i][2] = 0 THEN <<>> ELSE <<bytes[i]>>])

\* The type invariant: a buffer is never over its capacity, and there is one and
\* an error only while a process has the file open.
TypeOK ==
    /\ file \in Seq(ByteType) /\ before \in Seq(ByteType)
    /\ digest \in Seq(ByteType)
    /\ buffer \in Seq(ByteType) /\ Len(buffer) <= Capacity
    /\ stray \in Seq(ByteType) /\ Len(stray) <= Capacity
    /\ err \in BOOLEAN /\ alone \in BOOLEAN /\ again \in 0..MaxAgain
    /\ phase \in {"no process", "built", "rejected", "running"}
                   \cup Closing \cup Closed
    /\ phase \in {"no process", "rejected"} => buffer = <<>>
    /\ phase = "no process" => ~err /\ stray = <<>>
    /\ lines \in Nat /\ given \in Seq(ByteType)
    /\ run \in 0..MaxRuns /\ measured \in Nat \cup {Unknown}
    /\ ended \in Nat \cup {Unknown}

\* A run never changes what is already in the file: the trail of earlier runs,
\* and of its own earlier lines, stays as it is (audit.rs:102-105).
AppendOnly == [][IsPrefix(file, file')]_vars

\* Until close() reports, the file and the buffer together hold the lines of the
\* run in the order they were given, cut only at the end: an I/O error truncates
\* the trail, it never leaves a hole in it (audit.rs:121-130).  What an init that is
\* called again writes lands among them, in the middle of a line even, and takes
\* none of them away (audit.rs:265-274).
NoHole ==
    phase \in {"built", "running"} \cup Closing \cup {"closed"} =>
        IsPrefix(Own(file \o buffer), Own(before \o given))

\* A close() that returns a digest says that every line given before its own
\* run_end is in the hashed file, run_end too, whatever was lost or failed on
\* the way, and after the trail of the earlier runs (audit.rs:203-221).
DigestCoversTheRun ==
    phase = "closed" =>
        /\ IsPrefix(before, digest)
        /\ IsPrefix(Own(before \o SubSeq(given, 1, ended)), Own(digest))

\* When no thread emits a line after run_end and init is not called again, the
\* digest and the length returned are those of the file that the caller finds.
DigestExactWhenQuiet ==
    phase = "closed" /\ Len(given) = ended /\ alone =>
        digest = file /\ measured = Len(file)
=============================================================================
