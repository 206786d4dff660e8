------------------------------ MODULE ScanPlan ------------------------------
(***************************************************************************)
(* The block layout of a scan: Plan::resolve and the geometry that         *)
(* scan_block derives from it (latent-scan/src/engine.rs).                 *)
(*                                                                         *)
(* Word is the number of values of a u64.  The release profile does not    *)
(* check overflow, so every sum and difference of the code wraps: those of *)
(* Plan::resolve over the sizes a caller chose, and those of scan_block    *)
(* over the bounds of a block.                                             *)
(***************************************************************************)
EXTENDS Integers

CONSTANTS Word,         \* 2^64 in the program
          MinBlockSize  \* MIN_BLOCK_SIZE, 4096 in the program

ASSUME WordAssumption == Word \in Nat \ {0}
ASSUME MinBlockAssumption == MinBlockSize \in Nat \ {0}

\* A ScanConfig as a caller may write it: every field is public.
Config == [block_size : 0 .. Word - 1, overlap : 0 .. Word - 1,
           threads : Nat, memory_budget : 0 .. Word - 1]

\* Bytes of one block buffer, in u64 arithmetic.
BufferBytes(block, overlap) == (block + overlap) % Word

\* The smallest buffer a budget must have room for.
SmallestBuffer(c) == (MinBlockSize + c.overlap) % Word

\* The two sums above are exact for this configuration.
NoWrap(c) ==
    /\ c.block_size + c.overlap < Word
    /\ MinBlockSize + c.overlap < Word

\* The requested block does not fit in the budget and has to shrink.
MustShrink(c) == BufferBytes(c.block_size, c.overlap) > c.memory_budget

\* Mutant of InvalidConfig: an overlap of zero is let through.
InvalidConfigButOverlap(c) ==
    \/ c.block_size = 0
    \/ c.threads = 0
    \/ MustShrink(c) /\ c.memory_budget < SmallestBuffer(c)

InvalidConfig(c) ==
    \/ c.overlap = 0
    \/ c.block_size = 0
    \/ c.threads = 0
    \/ MustShrink(c) /\ c.memory_budget < SmallestBuffer(c)

EffectiveBlock(c) ==
    IF MustShrink(c) THEN (c.memory_budget - c.overlap) % Word
                     ELSE c.block_size

\* memory_budget / buffer with a buffer of zero bytes, or source_size.div_ceil
\* with a block of zero bytes.
DividesByZero(c) ==
    \/ BufferBytes(EffectiveBlock(c), c.overlap) = 0
    \/ EffectiveBlock(c) = 0

AtLeastOne(n) == IF n > 1 THEN n ELSE 1

\* Mutant of WorkerThreads: the budget does not cap the number of threads.
WorkerThreadsUncapped(c) == AtLeastOne(c.threads)

WorkerThreads(c) ==
    LET byBudget == AtLeastOne(c.memory_budget
                                 \div BufferBytes(EffectiveBlock(c), c.overlap))
    IN  AtLeastOne(IF c.threads < byBudget THEN c.threads ELSE byBudget)

\* u64::div_ceil
BlockCount(size, block) == (size + block - 1) \div block

Resolve(c, size) ==
    [block_size     |-> EffectiveBlock(c),
     overlap        |-> c.overlap,
     worker_threads |-> WorkerThreads(c),
     block_count    |-> BlockCount(size, EffectiveBlock(c)),
     source_size    |-> size]

Plan == [block_size : 1 .. Word - 1, overlap : 1 .. Word - 1,
         worker_threads : Nat \ {0}, block_count : Nat, source_size : Nat]
-----------------------------------------------------------------------------
(* The region of one block: it owns [Start, OwnedEnd) and reads on to      *)
(* ReadEnd, the overlap tail included.  With an overlap near Word the last *)
(* sum wraps: the block stops before the end of what it owns, or even      *)
(* before its start.  A block starts inside the source, so Start is exact. *)

AtMost(limit, n) == IF n < limit THEN n ELSE limit

Blocks(p) == 0 .. p.block_count - 1

Start(p, b) == b * p.block_size
OwnedEnd(p, b) == AtMost(p.source_size, (Start(p, b) + p.block_size) % Word)

\* Mutant of ReadEnd: a block does not read its overlap tail.
ReadEndWithoutTail(p, b) == OwnedEnd(p, b)

ReadEnd(p, b) == AtMost(p.source_size, (OwnedEnd(p, b) + p.overlap) % Word)

\* Mutant of Owned: hits in the overlap tail are not left to the next block.
OwnedWithTail(p, b) == Start(p, b) .. ReadEnd(p, b) - 1

\* The offsets whose hits block b reports, and those it reads.
Owned(p, b) == Start(p, b) .. OwnedEnd(p, b) - 1
ReadLen(p, b) == (ReadEnd(p, b) - Start(p, b)) % Word

\* A Vec never holds more than isize::MAX bytes: "capacity overflow".
TooLong(len) == 2 * len >= Word
=============================================================================
