------------------------------ MODULE ScanSpec ------------------------------
(***************************************************************************)
(* What Scanner::scan promises, with no block, no buffer and no thread:    *)
(* one answer to a request, either a failure or the list of hits.  The     *)
(* contract has two preconditions: covered says that the caller's overlap  *)
(* is at least the longest signature minus one, fits that the size of the  *)
(* source plus the overlap is a u64.  Without them the list holds          *)
(* occurrences only, but maybe not all of them.                            *)
(***************************************************************************)
EXTENDS Signatures

CONSTANTS Requests   \* [patterns, bytes, readable, covered, fits]

VARIABLES request,   \* the set of the one request made, or {}
          answer     \* "none", "failure" or the sequence of hits

NoAnswer == <<"none">>
Failed == <<"failure">>
HitList(hits) == <<"hits", hits>>

\* The hit lists the contract allows for request r.
Allowed(r) ==
    LET all == Occurrences(r.patterns, r.bytes)
    IN  {S \in SUBSET all :
            r.fits => r.readable /\ (r.covered => S = all)}

Init == request = {} /\ answer = NoAnswer

Ask(r) ==
    /\ request = {} /\ answer = NoAnswer
    /\ request' = {r} /\ UNCHANGED answer

\* A scanner that cannot be built answers before any request.
Refuse == request = {} /\ answer = NoAnswer
          /\ answer' = Failed /\ UNCHANGED request

Fail == request # {} /\ answer = NoAnswer
        /\ answer' = Failed /\ UNCHANGED request

\* An empty source and a refused thread pool are answered as they are asked.
AskAndAnswer(r) ==
    /\ request = {} /\ answer = NoAnswer
    /\ request' = {r}
    /\ \/ answer' = Failed
       \/ r.bytes = <<>> /\ answer' = HitList(<<>>)

Reply ==
    /\ answer = NoAnswer
    /\ \E r \in request : \E S \in Allowed(r) : answer' = HitList(InOrder(S))
    /\ UNCHANGED request

Next == \/ \E r \in Requests : Ask(r) \/ AskAndAnswer(r)
        \/ Refuse \/ Fail \/ Reply

\* A request is answered.
Spec == Init /\ [][Next]_<<request, answer>>
             /\ WF_<<request, answer>>(Fail \/ Reply)
=============================================================================
