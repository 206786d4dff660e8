----------------------------- MODULE ScanEngine -----------------------------
(***************************************************************************)
(* The scan engine of latent-scan: Scanner::new, Scanner::scan and the     *)
(* rayon worker pool that runs scan_block over the blocks of a source.     *)
(*                                                                         *)
(* A source is a record of its bytes and of the offsets a read fails on    *)
(* (a damaged chunk of an image).  It has fewer than 2^63 bytes, as files  *)
(* do; no such bound is put on the sizes of a configuration.               *)
(***************************************************************************)
EXTENDS Signatures, ScanPlan, SequencesExt

CONSTANTS Byte,         \* the byte values that occur
          PatternSets,  \* the pattern sets a scanner may be built with
          Configs,      \* the configurations it may be built with
          Sources,      \* the sources it may be asked to scan
          Nothing       \* no scanner yet, no source yet

ASSUME PatternSetsAssumption == PatternSets \subseteq Seq(Seq(Byte))
ASSUME ConfigsAssumption == Configs \subseteq Config
ASSUME SourcesAssumption ==
    /\ \A s \in Sources : /\ s.bytes \in Seq(Byte) /\ s.bad \subseteq Nat
                          /\ 2 * Len(s.bytes) < Word
    /\ Nothing \notin Sources

VARIABLES
    phase,      \* "new", "built", "scanning" or "done"
    patterns,   \* the pattern set of the automaton
    config,     \* Scanner.config
    source,     \* the source being scanned
    plan,       \* the resolved Plan
    pool,       \* what each worker thread is doing: Idle or a task
    queue,      \* the blocks no worker has claimed
    perBlock,   \* the hits of each block whose scan_block returned Ok
    failed,     \* the block whose error the collect saved, if any: a set
    panicked,   \* a worker panicked over a block
    outcome     \* what the caller got: see Outcome

vars == <<phase, patterns, config, source, plan, pool, queue, perBlock,
          failed, panicked, outcome>>

\* A worker thread between two blocks: it holds no buffer.
Idle == [step |-> "idle", block |-> 0, len |-> 0, buf |-> <<>>]

Pending == [kind |-> "pending"]
Answer(hits) == [kind |-> "hits", hits |-> hits]
Failure(kind) == [kind |-> kind]

Init ==
    /\ phase = "new"
    /\ patterns = <<>> /\ config = Nothing /\ source = Nothing
    /\ plan = Nothing /\ pool = <<>> /\ queue = {} /\ perBlock = <<>>
    /\ failed = {} /\ panicked = FALSE /\ outcome = Pending
-----------------------------------------------------------------------------
(* Scanner::new                                                            *)

Construct(ps, c) ==
    /\ phase = "new"
    /\ patterns' = ps /\ config' = c
    /\ UNCHANGED <<source, plan, pool, queue, perBlock, failed, panicked>>

Refuse(kind) == phase' = "done" /\ outcome' = Failure(kind)

NewWithoutPatterns(c) ==
    /\ Construct(<<>>, c)
    /\ <<>> \in PatternSets
    /\ Refuse("no patterns")

NewRejected(ps, c) ==
    /\ Construct(ps, c)
    /\ ps # <<>> /\ InvalidConfig(c)
    /\ Refuse("invalid config")

\* Plan::resolve divides the budget by a buffer size that wrapped to zero.
NewPanics(ps, c) ==
    /\ Construct(ps, c)
    /\ ps # <<>> /\ ~InvalidConfig(c) /\ DividesByZero(c)
    /\ Refuse("panic")

\* The Aho-Corasick builder refuses the patterns: too many, or too long.
AutomatonFails(ps, c) ==
    /\ Construct(ps, c)
    /\ ps # <<>> /\ ~InvalidConfig(c) /\ ~DividesByZero(c)
    /\ Refuse("invalid config")

New(ps, c) ==
    /\ Construct(ps, c)
    /\ ps # <<>> /\ ~InvalidConfig(c) /\ ~DividesByZero(c)
    /\ phase' = "built"
    /\ UNCHANGED outcome
-----------------------------------------------------------------------------
(* Scanner::scan.  Its own call of Plan::resolve cannot fail: the config   *)
(* is immutable and only block_count depends on the source.                *)

ScanEmpty(src) ==
    /\ phase = "built" /\ Len(src.bytes) = 0
    /\ phase' = "done" /\ outcome' = Answer(<<>>)
    /\ source' = src
    /\ plan' = Resolve(config, 0)
    /\ UNCHANGED <<patterns, config, pool, queue, perBlock, failed, panicked>>

\* The operating system refuses the worker threads.
PoolFails(src) ==
    /\ phase = "built" /\ Len(src.bytes) > 0
    /\ phase' = "done" /\ outcome' = Failure("thread pool")
    /\ source' = src
    /\ plan' = Resolve(config, Len(src.bytes))
    /\ UNCHANGED <<patterns, config, pool, queue, perBlock, failed, panicked>>

Scan(src) ==
    /\ phase = "built" /\ Len(src.bytes) > 0
    /\ phase' = "scanning"
    /\ source' = src
    /\ plan' = Resolve(config, Len(src.bytes))
    /\ pool' = [w \in 1..plan'.worker_threads |-> Idle]
    /\ queue' = Blocks(plan')
    /\ UNCHANGED <<patterns, config, perBlock, failed, panicked, outcome>>
-----------------------------------------------------------------------------
(* scan_block, run by a worker thread of the pool.                         *)

\* What read_exact_at delivers of a source, and whether it fails.
ReadAt(src, start, len) == SubSeq(src.bytes, start + 1, start + len)
Unreadable(src, start, len) == src.bad \cap (start .. start + len - 1) # {}

\* The hits of a buffer that scan_block keeps: the match starts in the owned
\* part, so a signature that begins in the overlap tail is the next block's.
KeptHits(p, b, buf) ==
    {h \in Hits(patterns, Owned(p, b)) :
        MatchesAt(patterns, buf, h.offset - Start(p, b), h.pattern)}

\* A worker takes a block no other has taken and allocates its buffer.  Work
\* stealing may hand the blocks out in any order.
Claim(w, b) ==
    /\ phase = "scanning"
    /\ pool[w].step = "idle" /\ b \in queue
    /\ ~TooLong(ReadLen(plan, b))
    /\ queue' = queue \ {b}
    /\ pool' = [pool EXCEPT ![w] =
                   [step |-> "allocated", block |-> b,
                    len |-> ReadLen(plan, b), buf |-> <<>>]]
    /\ UNCHANGED <<phase, patterns, config, source, plan, perBlock, failed,
                   panicked, outcome>>

\* The read of the block ends before it starts: the length wraps, vec! panics and
\* the worker is free again.  rayon keeps the panic for the caller.
ClaimPanics(w, b) ==
    /\ phase = "scanning"
    /\ pool[w].step = "idle" /\ b \in queue
    /\ TooLong(ReadLen(plan, b))
    /\ queue' = queue \ {b}
    /\ panicked' = TRUE
    /\ UNCHANGED <<phase, patterns, config, source, plan, pool, perBlock,
                   failed, outcome>>

\* Mutant of ReadFails: a block that cannot be read counts as one without hits.
ReadFailsQuietly(w) ==
    /\ phase = "scanning"
    /\ pool[w].step = "allocated"
    /\ Unreadable(source, Start(plan, pool[w].block), pool[w].len)
    /\ perBlock' = [c \in DOMAIN perBlock \cup {pool[w].block} |->
                       IF c = pool[w].block THEN <<>> ELSE perBlock[c]]
    /\ pool' = [pool EXCEPT ![w] = Idle]
    /\ UNCHANGED <<phase, patterns, config, source, plan, queue, failed,
                   panicked, outcome>>

ReadFails(w) ==
    /\ phase = "scanning"
    /\ pool[w].step = "allocated"
    /\ Unreadable(source, Start(plan, pool[w].block), pool[w].len)
    /\ failed' = IF failed = {} THEN {pool[w].block} ELSE failed
    /\ pool' = [pool EXCEPT ![w] = Idle]
    /\ UNCHANGED <<phase, patterns, config, source, plan, queue, perBlock,
                   panicked, outcome>>

\* Mutant of Read: one short read is taken for the whole block.
ReadOnce(w) ==
    /\ phase = "scanning"
    /\ pool[w].step = "allocated"
    /\ ~Unreadable(source, Start(plan, pool[w].block), pool[w].len)
    /\ pool' = [pool EXCEPT
                   ![w].step = "filled",
                   ![w].buf = ReadAt(source, Start(plan, pool[w].block),
                                     pool[w].len - 1)]
    /\ UNCHANGED <<phase, patterns, config, source, plan, queue, perBlock,
                   failed, panicked, outcome>>

Read(w) ==
    /\ phase = "scanning"
    /\ pool[w].step = "allocated"
    /\ ~Unreadable(source, Start(plan, pool[w].block), pool[w].len)
    /\ pool' = [pool EXCEPT
                   ![w].step = "filled",
                   ![w].buf = ReadAt(source, Start(plan, pool[w].block),
                                     pool[w].len)]
    /\ UNCHANGED <<phase, patterns, config, source, plan, queue, perBlock,
                   failed, panicked, outcome>>

\* Mutant of Search: the hits go to the next free slot, in completion order.
SearchPushes(w) ==
    /\ phase = "scanning"
    /\ pool[w].step = "filled"
    /\ LET b == Cardinality(DOMAIN perBlock)
           hits == InOrder(KeptHits(plan, pool[w].block, pool[w].buf))
       IN  perBlock' = [c \in DOMAIN perBlock \cup {b} |->
                           IF c = b THEN hits ELSE perBlock[c]]
    /\ pool' = [pool EXCEPT ![w] = Idle]
    /\ UNCHANGED <<phase, patterns, config, source, plan, queue, failed,
                   panicked, outcome>>

\* Searches the buffer, sorts the hits, frees the buffer.
Search(w) ==
    /\ phase = "scanning"
    /\ pool[w].step = "filled"
    /\ LET b == pool[w].block
           hits == InOrder(KeptHits(plan, b, pool[w].buf))
       IN  perBlock' = [c \in DOMAIN perBlock \cup {b} |->
                           IF c = b THEN hits ELSE perBlock[c]]
    /\ pool' = [pool EXCEPT ![w] = Idle]
    /\ UNCHANGED <<phase, patterns, config, source, plan, queue, failed,
                   panicked, outcome>>

\* The parallel collect ends: every block is done, or an error was saved or a
\* worker panicked and the blocks nobody had claimed are dropped.  Which of
\* several failing blocks is reported depends on the schedule.
Collected ==
    /\ phase = "scanning"
    /\ \A w \in DOMAIN pool : pool[w].step = "idle"
    /\ queue = {} \/ failed # {} \/ panicked

\* Mutant of Merge: the last block comes first.
MergeLastFirst(p, found) ==
    FlattenSeq([i \in 1..p.block_count |-> found[p.block_count - i]])

Merge(p, found) == FlattenSeq([i \in 1..p.block_count |-> found[i - 1]])

Finish ==
    /\ Collected
    /\ outcome' = IF panicked THEN Failure("panic")
                  ELSE IF failed # {} THEN Failure("source error")
                                      ELSE Answer(Merge(plan, perBlock))
    /\ phase' = "done"
    /\ UNCHANGED <<patterns, config, source, plan, pool, queue, perBlock,
                   failed, panicked>>
-----------------------------------------------------------------------------
Caller ==
    \/ \E c \in Configs : NewWithoutPatterns(c)
    \/ \E ps \in PatternSets, c \in Configs :
           \/ NewRejected(ps, c) \/ NewPanics(ps, c)
           \/ AutomatonFails(ps, c) \/ New(ps, c)
    \/ \E src \in Sources : ScanEmpty(src) \/ PoolFails(src) \/ Scan(src)

Worker ==
    \E w \in DOMAIN pool :
        \/ \E b \in queue : Claim(w, b) \/ ClaimPanics(w, b)
        \/ ReadFails(w) \/ Read(w) \/ Search(w)

Done == phase = "done" /\ UNCHANGED vars

Next == Caller \/ Worker \/ Finish \/ Done

\* Some worker thread runs while any can, and install returns when they end.
Fairness == WF_vars(Worker) /\ WF_vars(Finish)

Spec == Init /\ [][Next]_vars /\ Fairness
-----------------------------------------------------------------------------
(* Properties                                                              *)

Task == [step : {"idle", "allocated", "filled"}, block : Nat, len : Nat,
         buf : Seq(Byte)]

\* The type invariant: a plan exists once a source is being scanned, and then
\* it is one the pool and the block queue can be built from.
TypeOK ==
    /\ phase \in {"new", "built", "scanning", "done"}
    /\ patterns \in Seq(Seq(Byte))
    /\ phase # "new" => config \in Configs
    /\ phase = "scanning" => plan \in Plan /\ source \in Sources
    /\ phase = "scanning" =>
          /\ pool \in [1..plan.worker_threads -> Task]
          /\ queue \subseteq Blocks(plan)
          /\ DOMAIN perBlock \subseteq Blocks(plan)
          /\ failed \subseteq Blocks(plan)
    /\ panicked \in BOOLEAN

\* The caller's side of the contract (engine.rs:52-54): the overlap is at
\* least the longest signature minus one.
OverlapCovers(ps, c) == \A p \in DOMAIN ps : Len(ps[p]) - 1 <= c.overlap

\* The end of every read, overlap included, is a u64 (engine.rs:245).  Without
\* it a block may stop before the end of what it owns.
OverlapFits(src, c) == Len(src.bytes) + c.overlap < Word

\* A scan that returns hits returns every occurrence of every signature exactly
\* once, in (offset, pattern_id) order, whatever the block layout, the number
\* of threads and the schedule (engine.rs:187-191, 233-235).
EveryOccurrenceOnce ==
    outcome.kind = "hits" /\ OverlapCovers(patterns, config)
                          /\ OverlapFits(source, config) =>
        outcome.hits = InOrder(Occurrences(patterns, source.bytes))

\* Whatever the overlap, nothing is reported twice and nothing that is not
\* there is reported.
NothingInvented ==
    outcome.kind = "hits" =>
        /\ ToSet(outcome.hits) \subseteq Occurrences(patterns, source.bytes)
        /\ IsInjective(outcome.hits)

\* The answer is the one a single thread would give that scans the blocks in
\* source order: no schedule of the pool shows in it (engine.rs:190-191).
ScanBlock(b) ==
    InOrder(KeptHits(plan, b, ReadAt(source, Start(plan, b), ReadLen(plan, b))))

SameAsSequential ==
    outcome.kind = "hits" =>
        outcome.hits = Merge(plan, [b \in Blocks(plan) |-> ScanBlock(b)])

\* The buffers held at one instant fit in the memory budget (engine.rs:59-60):
\* no buffer is longer than block_size + overlap, and as many of those as there
\* are busy workers fit, together.
Busy == {w \in DOMAIN pool : pool[w].step # "idle"}

WithinBudget ==
    phase = "scanning" /\ NoWrap(config) =>
        /\ \A w \in Busy : pool[w].len <= plan.block_size + plan.overlap
        /\ Cardinality(Busy) * (plan.block_size + plan.overlap)
              <= config.memory_budget

\* engine.rs:59-60: "Upper bound on the total bytes held in block buffers at any
\* instant", said of memory_budget, whatever the configuration.
BytesHeld == SumFunction([w \in DOMAIN pool |-> pool[w].len])

BudgetIsAnUpperBound ==
    phase = "scanning" => BytesHeld <= config.memory_budget

\* Hits are only returned when every byte of the source was read: a region that
\* cannot be read makes the scan fail, it never shows as a region without hits
\* (engine.rs:245-249, for an overlap whose read ends are u64).
NoSilentLoss ==
    outcome.kind = "hits" /\ OverlapFits(source, config) =>
        source.bad \cap (0 .. Len(source.bytes) - 1) = {}

(***************************************************************************)
(* The inductive invariant behind them.                                    *)
(***************************************************************************)

\* A scanner that exists has a usable configuration, and no scan answers before
\* it ends.
Prepared ==
    /\ phase \in {"built", "scanning"} =>
          ~InvalidConfig(config) /\ ~DividesByZero(config)
    /\ phase \in {"new", "built"} =>
          perBlock = <<>> /\ failed = {} /\ ~panicked
    /\ phase # "done" => outcome = Pending

\* Block b was allocated and its read went well.
BlockIsRead(b) ==
    /\ ~TooLong(ReadLen(plan, b))
    /\ ~Unreadable(source, Start(plan, b), ReadLen(plan, b))

\* Hits are answered once every block was read.
EveryBlockRead ==
    outcome.kind = "hits" => \A b \in Blocks(plan) : BlockIsRead(b)

\* While a scan runs and nothing has failed, every block is queued, in the hands
\* of a worker or done; and what is done, or held, is what the source says,
\* whichever worker took it.
Working ==
    phase = "scanning" =>
        /\ plan = Resolve(config, Len(source.bytes))
        /\ \A w \in Busy :
              /\ pool[w].block \in Blocks(plan)
              /\ pool[w].len = ReadLen(plan, pool[w].block)
              /\ ~TooLong(pool[w].len)
              /\ pool[w].step = "filled" =>
                    /\ pool[w].buf = ReadAt(source, Start(plan, pool[w].block),
                                            pool[w].len)
                    /\ ~Unreadable(source, Start(plan, pool[w].block),
                                   pool[w].len)
        /\ \A b \in DOMAIN perBlock :
              /\ perBlock[b] = ScanBlock(b)
              /\ BlockIsRead(b)
        /\ failed = {} /\ ~panicked =>
              Blocks(plan) \subseteq queue \cup DOMAIN perBlock
                                          \cup {pool[w].block : w \in Busy}

EngineInvariant ==
    TypeOK /\ Prepared /\ Working /\ SameAsSequential /\ EveryBlockRead
=============================================================================
