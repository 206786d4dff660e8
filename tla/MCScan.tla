------------------------------- MODULE MCScan -------------------------------
(* Finite instances of the scan engine.                                    *)
EXTENDS ScanRefinement

MCBytes == {"m", "x"}

\* Signatures that overlap themselves, that are prefixes of one another, and
\* one of three bytes that can straddle two block boundaries at once.
MCPatternSets ==
    { <<>>,
      << <<"m", "m">>, <<"m">> >>,
      << <<"m", "x", "m">>, <<"x">> >> }

MCSources ==
    { [bytes |-> <<>>, bad |-> {}],
      [bytes |-> <<"m", "m", "m", "x", "m">>, bad |-> {}],
      [bytes |-> <<"m", "x", "m", "x", "m">>, bad |-> {}],
      [bytes |-> <<"m", "x", "m", "m", "m">>, bad |-> {1, 4}] }

Cfg(b, o, t, m) ==
    [block_size |-> b, overlap |-> o, threads |-> t, memory_budget |-> m]

MCConfigs ==
    { Cfg(2, 0, 1, 8), Cfg(0, 1, 1, 8), Cfg(2, 1, 0, 8),  \* a zero field
      Cfg(2, 2, 1, 3),     \* no room for a minimal block and its overlap
      Cfg(2, 1, 2, 6),     \* two workers, blocks of two bytes
      Cfg(1, 2, 3, 7),     \* three threads wanted, two fit in the budget
      Cfg(2, 2, 3, 15),    \* three workers
      Cfg(4, 1, 2, 3),     \* the block shrinks from four bytes to two
      Cfg(3, 1, 1, 4),     \* one worker
      Cfg(15, 1, 1, 8),    \* block_size + overlap wraps to zero
      Cfg(15, 2, 2, 3),    \* it wraps to one
      Cfg(1, 14, 1, 14),   \* the block shrinks to zero
      Cfg(1, 14, 1, 13),   \* it shrinks below zero, to fifteen
      Cfg(15, 14, 1, 14),  \* the read ends inside what the block owns
      Cfg(4, 15, 2, 3),    \* so it does, or where the block starts
      Cfg(2, 13, 1, 15),   \* the read of all blocks but one ends before them
      Cfg(4, 13, 2, 3) }   \* the same with two workers
=============================================================================
