# A TLA+ model of Latent

Latent recovers destroyed Windows event logs: it opens an evidence image
read-only, hashes it, scans it in parallel for signatures, hands each hit to an
extractor that validates the structure found there, and keeps an audit trail of
the run. This directory holds TLA+ models of that program, TLC runs that check
them on small instances, and proofs, checked by TLAPS, for every instance.

The workspace at this commit implements the layers below the command line. The
command line itself, and the template, timeline, detection and output crates,
are stubs; the parts are wired together by their tests and by the documents.

## Inventory

| Part | Source | State | Operations | What is hard |
|---|---|---|---|---|
| Scan engine | `latent-scan/src/engine.rs` | configuration, plan, the pool's buffers, per-block hits | `Scanner::new`, `scan`, `scan_block` on rayon workers | block boundaries, overlap, merge order under any schedule, memory budget, one block of many failing |
| Registry | `latent-carve/src/registry.rs` | extractors, pattern owners, atomic counters | `register`, `build`, `extract_hit` from several threads, `diagnostics` | relaxed counters read while they move, bad candidates and unreadable windows |
| EVTX extractor | `latent-carve/src/evtx/` | none | `extract`: chunk, record, file header | one damaged field at a time, truncation at the end of the source, corroboration by the next record, records of an earlier use of a chunk |
| Audit log | `latent-core/src/audit.rs` | a file, a `BufWriter`, a pending error | `build`, `init`, the emitters, `close` | partial writes, lines during `close`, a process that dies, runs that append to one file |
| Integrity | `latent-source/src/integrity.rs` | the source and its open hash | `open`, `wrap`, `finish` | evidence that changes at any moment |
| Raw source | `latent-source/src/raw.rs`, `readonly.rs` | size, map or handle | `open`, `read_at` | a file that shrinks under its map |
| Virtual disks | `latent-source/src/vdisk/` | table geometry | `open`, `locate`, `read_at` of QCOW2, VHDX, VMDK | reads across clusters, holes, tables cut short |
| Partition tables | `latent-source/src/partition.rs` | none | `read` with `read_gpt`, `read_mbr`, `read_logical`; `Partition::window` | damage in any sector, chains of extended boot records that loop |
| Window | `latent-source/src/window.rs` | a range of a source | `range`, `read_at` | clamping at both ends, short reads below |
| EWF source | `latent-source/src/ewf.rs` | a libewf handle under a mutex, with one position | `open`, `read_at`, `drop` | what to free on each error path, readers that share a position, a drop by the last holder |
| Collection | `latent-source/src/collection.rs` | lists of files and of skipped paths | `open`, `walk`, `sources` | any listing order, any one call that fails |
| Records | `latent-core/src/record.rs`, `confidence.rs` | values | constructors | nothing changes state |

How they interact: a `VerifiedSource` owns a `Source` (raw, container or window)
and everything reads through `Source::read_at` and `read_exact_at`. The registry
gives the scanner its flattened signatures; the scanner returns hits that carry
a pattern id, and the registry maps the id back to the extractor, reading the
candidate's window from the source a second time. Every part emits events that
the audit layer, reached through the global tracing subscriber, writes from
whatever thread they come.

What makes each part correct:

- scan: the hits are exactly the occurrences, once, in order, whatever the
  layout and the schedule; the buffers stay in the budget; a region that cannot
  be read is an error.
- registry: every hit is answered and counted once; pattern ids go to their owner.
- EVTX: what is as it was written is carved, at its place and whole, and nothing
  is carved where nothing was written.
- audit: earlier content never changes; what is there has no hole; a returned
  digest covers the whole run.
- integrity: what was processed is what was hashed, or the run says otherwise.
- virtual disks: a read of the container is a read of the flat disk it describes.
- partitions: an intact table is listed exactly, damage costs no more than it must,
  and the walk of the tables ends; a window delivers its partition and nothing else.
- E01: libewf's objects are used by its rules and none is left behind; a read that
  succeeds is exact, whoever else reads.
- collection: each file once, in an order that does not depend on the system.

`PROJECT.json` lists the hazards at the line where they bite, each with the
properties that watch it.

## Modules

| Module | Models | Kind |
|---|---|---|
| `Signatures` | patterns, occurrences, the order of hits | operators |
| `ScanPlan` | `Plan::resolve` and the geometry of a block | operators |
| `ScanEngine` | `Scanner::new`, `scan`, `scan_block`, the pool | state machine |
| `ScanSpec` | what a scan promises, without blocks or threads | abstract specification |
| `ScanRefinement` | `ScanEngine` implements `ScanSpec` | refinement mapping |
| `ScanEngineProofs` | theorems about `ScanPlan`, `ScanEngine` and its refinement of `ScanSpec` | proofs |
| `Registry` | builder, `extract_hit`, `diagnostics` | state machine |
| `RegistryProofs` | theorems about `Registry` and `Carving` | proofs |
| `Evtx` | validation of chunks, records, file headers; what is carved | operators |
| `EvtxImages` | images with event logs, as written and then damaged | operators, external |
| `Carving` | `Registry` with the EVTX extractor over those images | composition |
| `AuditLog` | `AuditWriter`, `build`, `init`, `close`, several runs | state machine |
| `AuditProofs` | theorems about `AuditLog` | proofs |
| `VerifiedSource` | `RawSource`, `VerifiedSource`, other processes | state machine |
| `VerifiedProofs` | theorems about `VerifiedSource` | proofs |
| `FlatDisk` | what a virtual disk source promises: the flat guest disk | abstract specification |
| `DiskImages` | how QCOW2, VMDK and VHDX containers store a disk | operators, external |
| `VirtualDisk` | `open`, `locate`, `read_at` of the three formats; implements `FlatDisk` | state machine |
| `DiskProofs` | theorems about `VirtualDisk` and its refinement of `FlatDisk` | proofs |
| `PartitionTable` | `read` and its parts, `Partition::window`, `Window` | state machine |
| `PartitionedDisks` | disks with tables, as written and then damaged, and what reading them has to find | operators, external |
| `PartitionProofs` | theorems about `PartitionTable` and `PartitionedDisks` | proofs |
| `Collection` | `Collection::open`, `walk` | state machine |
| `EwfSource` | `EwfSource::open`, `read_at`, `drop` over libewf | state machine |
| `Intake` | `Collection` and `EwfSource`: files walked, opened, read and let go | composition |
| `IntakeProofs` | theorems about `EwfSource`, carried over to `Intake`, and about the walk | proofs |
| `OperatorProofs` | lemmas about numbers, sequences, flattening, sums and sorted lists | proofs |
| `MCScan`, `MCCarving`, `MCAudit`, `MCVerified`, `MCDisk`, `MCPartition`, `MCIntake` | finite instances | model checking |

### ScanEngine

`phase` follows the caller: `new`, `built`, `scanning`, `done`. `pool` maps a
worker thread to its task: it is idle, has allocated its buffer (`Claim`), or has
filled it (`Read`); `Search` stores the block's hits in `perBlock` and frees the
buffer. Work stealing is a claim of any unclaimed block. `ReadFails` saves the
first error; rayon's collect then drops blocks nobody has claimed, or processes
some of them, so `Finish` is possible in both cases. Which of several errors the
caller gets depends on the schedule; they are one outcome here.

Arithmetic follows the release profile: every sum and difference is modulo `Word`
(2^64 in the program), those of `Plan::resolve` over the sizes a caller chose and
those of `scan_block` over the bounds of a block. A buffer or a block of zero bytes
makes `Plan::resolve` divide by zero (`NewPanics`). With an overlap near `Word` the
end of a read wraps (`ReadEnd`): a block then stops before the end of what it owns,
or the length of its read wraps too and a worker panics (`ClaimPanics`). `Start` is
exact since a block starts inside its source, and a source has fewer than 2^63 bytes
(`SourcesAssumption`), as a file does; a virtual disk that declares more is outside
the model. `OverlapFits` says that a source and an overlap add up to a u64.

The Aho-Corasick automaton is external: `MatchesAt` and `Occurrences` say what
`find_overlapping_iter` reports, every occurrence of every pattern. Patterns are
sequences of byte values, a source has in addition a set of unreadable offsets.

### Registry, Evtx, Carving

`Register` and `Build` are the builder. An `extract_hit` call is a record in
`calls`; its increments are separate steps: `Dispatch` (seen), `Reject`, or
`Accept` and `Emit`. A relaxed increment goes to `unlanded` when it is executed and
becomes visible later (`Land`), in any order: this covers what hardware may do
with relaxed atomics on different locations. `Join` needs all of them landed,
as joining a thread orders its writes. A `diagnostics` call is a sequence of
loads. Calls share no state, so one call, made at any moment, stands for all.
The hits are those `Signatures` finds in the bytes of the case, and `strays` with a
pattern nobody owns. `IgnoreUnknown` drops those without counting them; the comment
at registry.rs:113-115 has them counted like a bad candidate, and there is no
counter of whose they could be.

`Extract` is an operator constant: the registry uses an extractor only through
its answer. `Evtx` is the real one: `ValidChunk`, `ValidRecord`, `ValidFileHeader`
decide over cells, a cell being a structure's header or a word, and a checksum
being what it was computed over. `EvtxImages` writes small event logs the way
Windows does, independently of the reader, and then damages one cell, makes one
cell unreadable, or cuts the image anywhere. The body of a record is any cells but the
headers of chunks and files: any words, so that one may repeat what a damaged size
says, and headers of records. `Carving` states what has to be recovered of an image.
The reader compares the head and the tail of a record and nothing else
(format.rs:187-188), so `NoForgedRecord` has two ways out: what is carved begins and
ends where a record was written, or it is `Imitated`, which means that a body holds the
header it begins with or the word that repeats its size at its end. Damage alone
forges nothing.

A case has one thread or several. A lone thread takes the hits in order, and since
nobody reads the counters before it is joined it makes no difference when its
increments land: `Settled` lets them land at once, which keeps the many images
within reach. The cases with two threads and toy extractors leave all orders open.

### AuditLog

The file and the buffer are sequences of bytes that remember their line. The
`BufWriter` is external and modelled by what its write path does: data that
does not fit flushes the buffer first, data as long as the capacity goes
straight to the file, and a failing write(2) may have written any part of its
bytes. `Write` is one call of `AuditWriter::line` under its mutex: nothing is
written while an error is pending. `close` is five steps, since the lock is free
between its calls: `WriteRunEnd`, `Flush`, `TakeErr`, `Measure`, `Hash`. `EndOfProcess`
ends a process anywhere: the global subscriber is never dropped, so the buffered
bytes are lost whether it was killed or returned from main. The next run
appends to the same file. `AlreadyInstalled` is the failing `init`, whose writer is
dropped and so flushed. What was given to
the log so far is remembered in `given`; no action depends on it.

A process that has a log may call `init` again. `BuildAgain` is the second call as far as
`build`: it opens the same file with a writer of its own (`stray`) and writes its
`run_start`; `RefuseAgain` is the refusal of `set_global_default`, which drops that
writer. What it writes lands anywhere among the bytes of the first writer, also inside
a line, so the properties speak of the runs' `Own` bytes where strays may be in between,
and `DigestExactWhenQuiet` asks that the process was `alone`. Of two calls that overlap,
the one that builds first is taken to be the one that installs its subscriber.

### VerifiedSource

The file is a sequence of pieces and `Edit` lets other processes rewrite one,
truncate the file or extend it, at any step. `OpenFile` reads the size,
`ChooseBacking` maps the file as it is by then, or falls back to positioned reads.
A read delivers a piece, is at the end, panics (the map is shorter than the size)
or faults (the page is not backed by the file any more), and each use of a read,
the magic, the two hashes and the processing, has an action for each. A digest
stands for the content it was computed from: SHA-256 is taken to have no
collisions. `GrowthIsNoChange` is about a file that others go on appending to: a run is
told of a change, or dies, only when something within the size found at open was lost.
`seen` remembers what the processing read, `reverted` that some piece
went back to an earlier content.

### VirtualDisk

`DiskImages` lays a disk out as a container the way the programs that write these
formats do (holes, stored clusters in any host order, clusters marked as zeros,
compressed or left to a parent, encrypted images), independently of the reader.
`VirtualDisk` is the reader: `QcowRefused`, `VmdkRefused`, `VhdxRefused` are the early
returns of the three `open`, `LocateCluster`, `LocateGrain`, `LocateInBat` the three
`locate`. The three `read_at` are one loop; a turn of it is `Copy`, `FillZeros` or
`ReadFails`. Cells stand for table entries and for bytes. The container may have
lost any number of its last cells (`Cuts`), so a read of a table or of a cluster may
fail after a part of the buffer is filled. The refinement mapping gives `FlatDisk`
the bytes of the disk that was stored; a container is intact if nothing of it is
missing and it needs nothing the reader lacks, and only otherwise may a read fail.

Not covered: the bytes of the headers, the incompatible features a QCOW2 header may
declare (an external data file, extended L2 entries), which the code does not check and
reads as if they were not set, a VHDX log that was not replayed, and the
extents of a VMDK whose descriptor is a separate file, which the reader takes for
a standalone image.

### PartitionTable, PartitionedDisks

The unit is the sector, and a checksum is what it was computed over. `step` is
where `read` is: `ReadGptHeader`, `ReadGptEntries`, then, if either refuses,
`ReadMbr`, one `ReadLogical` for each turn of the loop over extended boot records,
and `Conclude`. `OpenWindow` is `Partition::window`; `ReadWindow` is `Window::read_at`: out
of range, failed by the source below, or what that source gives, which may be less than
was asked for.
`PartitionedDisks` lays out disks as partitioning tools do, and damages them:
every single sector made unreadable or rubbish, fields of headers and links
changed (also to cycles), the end cut off. What `TableExact` expects of a boot record's
own entries is what `Primaries`, the reader's operator, says of the record as it was
written; of a GPT and of the chain it is what was laid out.

### Collection, EwfSource, Intake

`Collection` is the recursive `walk` with its stack: a directory is listed in any
order and sorted, and any one call of the walk may fail. An entry that fails costs
itself alone; on Linux a failing `readdir` ends the listing, which is the case that all
entries from there on fail, and no run has it, since one call fails in each. `EwfSource` is
`EwfSource::open` with an action for each call to libewf, each of which succeeds or
fails, and a `read_exact_at` over the locked `read_at`: the handle's position is
moved, then read from, possibly short. libewf itself is external: of its objects the
model has the life, and `misused` records a use that its rules forbid. `Intake`
composes the two: files are opened one after the other while threads read what was
opened, and the last holder of an image drops it.

## Runs

| Run | Question | Result |
|---|---|---|
| `scan` | is the answer exact, ordered, independent of the schedule, in budget, and an implementation of `ScanSpec`? | passes |
| `scan_budget` | is `memory_budget` an upper bound for every accepted configuration? | violated: `block_size + overlap` wraps |
| `carve` | are hits answered and counted exactly under every interleaving, and is what survives of damaged event logs carved, and nothing else? | passes |
| `carve_stale` | is no intact record lost? | violated: the last record of a chunk before an older one |
| `registry_snapshot` | is a snapshot consistent while threads run? | violated |
| `audit` | is the trail append-only, without a hole, and its digest complete? | passes |
| `verified` | was what was processed what was hashed and expected, and does the trail tell? | passes |
| `verified_sigbus` | does truncation end in a hash mismatch? | violated: SIGBUS |
| `disk` | is reading a container reading the flat guest disk, whatever was cut? | passes |
| `disk_zeroed` | the same, with QCOW2 clusters marked as zeros that are still allocated | violated: their old content is read |
| `partition` | is the right table listed, exactly, of every damaged disk, does it end, and do windows stay in their partition? | passes |
| `intake` | is the walk exact in every listing order, are images used, read and closed right, and is everything answered? | passes |

Bounds and why they are enough:

- `scan`: sources of up to five bytes with overlapping and self-overlapping
  signatures of up to three bytes, blocks of one to four bytes, so a signature
  straddles two boundaries; one to three workers; each configuration error; the
  shrink path; every sum that wraps, with sizes up to 15 (`Word` is 16, `MinBlockSize` 2); a source with two
  unreadable bytes in different blocks. The theorems carry the result to every size.
- `carve`: two threads, three hits, up to two extractors of one and two
  signatures: hits accepted with one and with several artefacts, refused, in an
  unreadable window, cut by the end of the source, and of an unknown pattern. Chunks
  of seven cells with one to three records of two to four cells, with no, little and
  more free space, with and without a stale record; one or two chunks in a row; bodies
  with words that repeat what a damaged size may say, with a record inside, and with the
  header of one that ends elsewhere, in live and in stale records;
  every single cell damaged in each way that matters to a check, or unreadable; every
  truncation. More than one damaged place is left out: `NoForgedRecord` speaks of one.
  The theorems carry the result to chunks and images of any length, still with one
  damaged place.
- `audit`: a buffer of two bytes with bodies of one and two bytes and a newline, so a
  body fits or goes past the buffer and a line fills it or is cut in two; two runs of up
  to three lines each, and one call of `init` in all beside the first of its process.
- `verified`: two pieces, two contents, three edits, each of which may extend the file
  by a piece: a change and its reversal need
  two, a torn hash and a change after it need two more steps of the other side.
- `disk`: all disks of three clusters of holes and data, and a longer one that needs
  a third table and a second chunk of the VHDX table; clusters of two bytes, so a
  read of up to six bytes at any offset starts, ends and spans clusters; a virtual
  size that ends on and inside a cluster; cuts in the data, in the tables and in the
  header; each trait a container is refused for.
- `partition`: ten sectors, chains of up to three extended boot records, five hops at
  most (so a cycle reaches the bound), GPTs of two entries, which may be unused, absurd
  or too large to address; one damaged place per disk. Windows are read at every offset
  and length up to one past the end.
- `intake`: trees of three levels, seven nodes, one failing call each; two images, two
  threads and three reads, so a reader can be overtaken by another on the same image,
  read short, read over the end, and outlive the opener. Any number of libewf's calls
  may fail. Deadlock is not checked: everything is read and closed in the end. Nor is
  it in `partition`, where nobody is obliged to open a window.

### Findings

The five violated runs are disagreements between the code and its own comments.
`memory_budget` is called an upper bound, but a block size near the largest u64
passes the test by wrapping. `diagnostics` is called a consistent snapshot, and
loads relaxed counters one by one. A damaged chunk is said never to be discarded
whole, but its last record is refused when an older, well-formed record happens to
follow it. Truncation of mapped evidence is said to be caught by the
hashes, and ends the process before they can be compared. A QCOW2 cluster marked
as zeros is not an unwritten region for `locate`, which masks the mark away and
reads the old content.

More things a reader should know of, that are conditions of the passing runs:
`EveryOccurrenceOnce` holds when the overlap is at least the longest signature
minus one, which `ScanConfig` asks for and `Scanner::new` does not check, and when
source size and overlap add up to a u64 (`OverlapFits`), as does `NoSilentLoss`: with an
overlap near 2^64 the sum at engine.rs:245 wraps, and a scan can return hits without
having read all of its source. The test of the budget does not stop such an overlap,
since the sum it tests wraps too (run `scan_budget`);
`NoForgedRecord` excludes what the body of a record imitates;
`ProcessedWhatWasHashed` excludes changes that are undone before the close hash;
`RecordsSurvive` asks that the whole window of a record can be read; a GPT whose
checksums hold wins over the boot record, also when it is left from an earlier use of
the disk.

## Fairness

- `ScanEngine`: weak fairness of `Worker` (some worker thread runs while one can;
  reads return) and of `Finish` (`install` returns when the collect ends). No
  fairness for the caller.
- `Registry`: weak fairness of `Processing`: the threads that process hits run, and
  increments become visible. Nobody is obliged to register, build or ask for
  diagnostics.
- `VirtualDisk`: weak fairness of `Reading`: a read that was called runs to its end.
- `PartitionTable`: weak fairness of `ReadTable`: `read` runs to its end.
- `Intake`: weak fairness of the walk, of the opens, of each thread that reads, and of
  each holder letting go. Weak fairness is enough for the mutex, since it is held for
  one call at a time and reads are finite in number; that a holder lets go some day
  is an assumption about the programs above.
- `AuditLog`, `VerifiedSource`: none, they have safety properties only.

## Proofs

Each theorem holds for every value of the constants that the named assumptions allow;
most of those only say of which type a constant is. Each proof module states its
inductive invariant, has a lemma for each action or group of actions that matters,
and combines them. Each invariant was checked by TLC on the instance of its run first.

`ScanEngineProofs` proves, for every word size, minimal block size, byte alphabet,
pattern set, configuration and source (the assumptions `WordAssumption`,
`MinBlockAssumption`, `PatternSetsAssumption`, `ConfigsAssumption` and
`SourcesAssumption` say of which type they are, and that sources are shorter than half
a word):

- `BlocksPartitionTheOccurrences`: with an overlap of at least the longest
  signature minus one that fits (`OverlapFits`), the hits kept by the blocks are the occurrences in the
  source, and no hit is kept by two blocks. Every offset has an owner
  (`OwnerExists`), owned ranges are disjoint and ordered (`OwnersOrdered`), and a
  match that starts in an owned range lies in the block's buffer (`MatchInBuffer`).
- `TypeCorrect`, `ScheduleIndependence`, `NothingSilentlyLost`, `BudgetRespected`:
  `TypeOK`, `SameAsSequential`, `NoSilentLoss` and `WithinBudget` are invariants. The
  first two hold of any overlap; `NoSilentLoss` follows from `EveryBlockRead`, which does,
  and from `OverlapFits`.

The inductive invariant is `EngineInvariant`. `TypeOK` alone is not inductive, since
a plan is well typed only for a configuration that passed the checks of
`Scanner::new` (`Prepared`); the answer is that of a sequential scan only because
each filled buffer and each finished block is what the source says, and because,
while nothing has failed and no worker panicked, each block is queued, held by a worker
or finished (`Working`). It is stated with reads that wrap. Each action has its step lemma; the theorems combine them.
`WithinBudget` follows from the invariant by `PlanFitsBudget`: the number of workers
times the buffer is at most the budget, which is a fact about two integer divisions.

- `CompleteAndOrdered`, `NoneInvented`: `EveryOccurrenceOnce` and `NothingInvented` are
  invariants. The partition theorem says which hits the blocks keep; that flattening
  the sorted lists of the blocks gives the sorted list of them all is a lemma about
  ordered lists, and `Grounded` adds to the invariant that an answer belongs to
  a source and a valid configuration, and to the plan made of the two.
- `EngineImplementsContract`: under the mapping of `ScanRefinement` the initial states
  are initial states of `ScanSpec`, and every step is a step of it or a stutter. That
  an answer comes is the liveness part of `ScanSpec` and stays with run `scan`.

`AuditProofs` proves of `AuditLog`, for every capacity, line size, number of runs and
number of second calls of `init`, all its properties: `TypeCorrect`, `TrailHasNoHole`, `DigestCoversEverything`,
`DigestIsExact`, `TrailOnlyGrows`. None is inductive by itself, as a line is in the
buffer before it is in the file. `AuditInvariant` says that, while no error is
pending, the own bytes of the file and the buffer together are those that were there
before the run followed by what was given since (`Whole`), and that after an error the file is a beginning
of that; the earlier runs and this one up to `run_end`
(`Covered`) are in the file once the flush of `close` succeeded, and stay its prefix. `TrailOnlyGrows` is an action
property: no step shortens or changes the file.

`VerifiedProofs` proves of `VerifiedSource`, for files of any length, any set of
contents and any number of edits: `TypeCorrect`, `WhatWasProcessedWasHashed`,
`WhatWasProcessedWasExpected`, `TrailIsTheVerdict`, `GrowthIsHarmless`. `EvidenceInvariant` follows each
piece: what a hash or the processing read is there still or is in the piece's past
(`Held`), so that two hashes that agree vouch for what was read between them unless a
change was undone (`Vouched`, `Consistent`). It needs that no content equals the mark
for a missing piece, an assumption of `EvidenceAssumption`. `TrailInvariant` says
which events the trail holds at each phase. `GrowthInvariant` says that as long
as nothing within the size found at open was lost (`Kept`), the file and its map cover
that size, what was hashed is what is there, and the run did not end in one of `Alarms`.

`PartitionProofs` proves of `PartitionTable`, for disks of any number of sectors and
chains of any length: `TypeCorrect`, `WindowExact`, `TableRead`, `LinkContained`.
`TypeInv` bounds the walk (`Progress`) and keeps a window in its source
(`WindowInside`). `TableInv` is what `TableExact` needs to be inductive: while the chain
is walked, `ebr` is the next record that was written (`OnTheChain`), and what is
listed so far is what the records before it list (`Begun`, `Ended`). `DisksAssumption`
says what a disk is: what partitioning tools write, laid out as they do
(`ChainWritten`, `GptWritten`), with damage that turns no sector into a well-formed
other table (`OnlyDamaged`). No assumption is made of where a damaged link leads, so
it may lead in a circle.

`DiskProofs` proves of `VirtualDisk`, for any cluster size, table size and number of
clusters, and any cut: `TypeCorrect`, `LossContained` (`SurvivorsReadable`) and
`ReadsImplementFlatDisk`, which is that the initial states and the steps map to those of
`FlatDisk`; that a read is answered is the liveness part, and stays with run `disk`.
`TypeInv` has the progress of the loop and `ReadInv` says that what is in the buffer is
what the flat disk holds there. Under them are, for each format, lemmas of where
its tables lie in a container and that `locate` comes to the cluster that holds an
offset. The last two theorems have the hypothesis `NoneZeroed`, that no disk has a
cluster marked as zeros that is still allocated. Of such disks they are false, as run
`disk_zeroed` shows; all the disks of run `disk` satisfy it.

`IntakeProofs` proves `LibraryIsUsedWell`, `NothingIsLeaked` and `ReadsAreExact` for any
number of images and threads and any requests. `EwfInvariant` says that what libewf
holds for an image follows from how far it is opened (`Accounted`), that an image is
live exactly when somebody holds it, and that only the thread with the mutex moves
the position it reads from (`Sound`). It is proved of `EwfSource` by itself
(`EwfCorrect`); `IntakeUsesEwf` shows that every behaviour of `Intake` is one of
`EwfSource`, and carries the theorems over. `TypeCorrect` adds bounds for positions
and buffers (`EwfBounds`, `IntakeBounds`).

`WalkIsExact` is `WalkExact` for every finite tree. `WalkInvariant` describes a walk in the
middle: the entries left on the stack (`Waiting`) can be reached and are in the order of
their paths (`InSequence`); a path that can be reached is at or below one of them, or
the walk is past it (`Past`); the two lists are exactly what the walk is past and keeps
or skips (`Skips`), in order and before all that is left (`Listed`). `CollectionAssumption` asks that a tree is
finite and has the parent of each path, and that the root can be stat'ed.

`RegistryProofs` proves, for any extractors, hits and number of threads and any order
in which increments become visible: `CountersNeverAhead`, `DiagnosticsExact`,
`TypeCorrect`, `CountersExact`. `RegistryInvariant` weighs, per extractor, the visible
counter, the increments not visible yet and what the calls in progress may still
add against the hits that were taken (`SeenBalanced`, `JudgedBalanced`,
`AcceptedBalanced`), which is enough for an upper bound. What diagnostics report after
the join needs equality: `ExactInvariant` says that each counter is the sum of the
increments that have landed (`Tallied`), each of a call that was answered as its
extractor answers it (`Answers`), and `Read` that what a reader loaded after the
join is what the counters are. `RegistryAssumption` says that kinds, bytes and
signatures are sequences, and that an extractor that accepts answers with one.

Of `Carving` it proves `NoRecordForged`, `IntactRecordsSurvive` and
`ChunksCarvedExactly`, for chunks of any size, any number of records and chunks, and
any one damaged or unreadable cell or missing end. `CarvingInvariant` adds to the two
invariants that the hits are those of the bytes (`Scanned`), so that what is carved
depends on the image alone and not on the schedule: there is an artefact for each
structure `ExtractEvtx` accepts in the window at an offset of a signature, and for
nothing else (`ArtefactsAre`).
The rest is about images (`ImageFacts`). Each cell tells where something was written
(`Tells`): a record's header with a possible size, and a word that could be a
record's trailer, belong to a record that was written there with that size or to the
body of one, and a chunk's header to a chunk. Damage makes no header of what was none,
and the header of a chunk that was altered disagrees with its checksum (`DamageShows`).
A carved record has both a header and a trailer that agree, one of which is undamaged:
so it was written, or a body holds one of them. A carved chunk has the records its
checksum was computed over.

Two assumptions say what an image is. `LayoutsAssumption`: a chunk has at least one
record of a size that records can have (`RecordSizes`), a body of any words and record
headers for each, and room for its records and the stale one, as Windows writes them;
what lies before the chunks has headers by chance but no record of a possible size, since such a record would be one that was
written. `CarvingAssumption`: a source is an image of event logs read with the EVTX
extractor, or one where no event log was written and whose extractors carve neither
chunks nor records, which is what the cases with toy extractors are.

`OperatorProofs` has the lemmas these proofs share. The induction theorems of the
proof system's library cannot be instantiated by the provers, so induction is done
over sets: `LeastNumber` gives the least of a set of numbers, `Induction` and
`FiniteInduction` follow, and facts about folds, `FlattenSeq`, sums over a set and
lists sorted by a key are proved from them by naming the set of the numbers, or
subsets, for which the fact holds.

Only model-checked is liveness: `EveryHitAnswered`, `TableEndsUp`,
`EverythingAnswered`, and the fairness of `ScanSpec` and `FlatDisk`. The prover has no
rules for fairness or ENABLED. Every invariant that a passing run checks is stated by a
theorem.

## Not modelled, and why

- Record and confidence types are values; the command line and four crates are stubs;
  the build scripts have no run-time behaviour.
- The wording of audit lines and diagnostics, names of partitions, the kind of a
  rejection and the platform variants of opening a file change nothing the properties
  speak of.
- `open` of a virtual disk is modelled over the container's cells, not over a raw
  source that changes; a window is modelled over a source that may fail.
- The whole pipeline, verified source to registry, is wired together by no code at
  this commit, so there is nothing to compose faithfully beyond `Carving` and `Intake`.
- Checksums and digests have no collisions, as the code assumes of them.
