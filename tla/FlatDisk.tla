------------------------------ MODULE FlatDisk ------------------------------
(***************************************************************************)
(* What a virtual disk source promises: reads of the flat guest address    *)
(* space.  A disk that is not intact (its container is cut short, or needs *)
(* what the reader does not support) may refuse a read, or all of them; it *)
(* never answers one with other bytes.                                     *)
(***************************************************************************)
EXTENDS Integers, Sequences

VARIABLES disk,      \* the disk, [bytes, intact]; it never changes
          request,   \* the set of the one read in progress, or {}
          answer     \* the answer to the last one

vars == <<disk, request, answer>>

None == <<"none">>
Error == <<"error">>
Data(bytes) == <<"data", bytes>>

\* The bytes from offset on, at most len of them and none past the end.
Slice(bytes, offset, len) ==
    SubSeq(bytes, offset + 1,
           IF offset + len <= Len(bytes) THEN offset + len ELSE Len(bytes))

Init ==
    /\ disk.bytes \in Seq(Int) /\ disk.intact \in BOOLEAN
    /\ request = {} /\ answer = None

Refuse == ~disk.intact /\ request = {}
          /\ answer' = Error /\ UNCHANGED <<disk, request>>

Ask ==
    /\ request = {}
    /\ \E r \in request' : request' = {r} /\ r \in [offset : Nat, len : Nat]
    /\ UNCHANGED <<disk, answer>>

Reply ==
    /\ \E r \in request :
          answer' = IF r.offset > Len(disk.bytes) THEN Error
                    ELSE Data(Slice(disk.bytes, r.offset, r.len))
    /\ request' = {} /\ UNCHANGED disk

Fail ==
    /\ request # {} /\ ~disk.intact
    /\ answer' = Error /\ request' = {} /\ UNCHANGED disk

Next == Refuse \/ Ask \/ Reply \/ Fail

Spec == Init /\ [][Next]_vars /\ WF_vars(Reply \/ Fail)
=============================================================================
