--------------------------- MODULE ScanRefinement ---------------------------
(***************************************************************************)
(* The engine implements the one-shot contract of ScanSpec.                *)
(***************************************************************************)
EXTENDS ScanEngine

RequestOf(ps, src, covered, fits) ==
    [patterns |-> ps, bytes |-> src.bytes,
     readable |-> src.bad \cap (0 .. Len(src.bytes) - 1) = {},
     covered  |-> covered, fits |-> fits]

AbstractRequests ==
    {RequestOf(ps, src, covered, fits) :
        ps \in PatternSets, src \in Sources,
        covered \in BOOLEAN, fits \in BOOLEAN}

AbstractRequest ==
    IF source = Nothing THEN {}
    ELSE {RequestOf(patterns, source, OverlapCovers(patterns, config),
                    OverlapFits(source, config))}

AbstractAnswer ==
    CASE outcome.kind = "pending" -> <<"none">>
      [] outcome.kind = "hits"    -> <<"hits", outcome.hits>>
      [] OTHER                    -> <<"failure">>

Contract == INSTANCE ScanSpec WITH Requests <- AbstractRequests,
                                   request <- AbstractRequest,
                                   answer <- AbstractAnswer

\* Every behaviour of the worker pool is one of the contract: whatever the
\* schedule, a request gets exactly one answer, the answer is the exact ordered
\* hit list or a failure, and it does come (engine.rs:187-193).
ImplementsContract == Contract!Spec
=============================================================================
