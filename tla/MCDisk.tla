------------------------------- MODULE MCDisk -------------------------------
(* Finite instances of the virtual disks.                                  *)
EXTENDS VirtualDisk

\* Every byte of a disk is different.
Cluster(k, kind) ==
    [kind |-> kind, bytes |-> [i \in 1..ClusterSize |-> 10 * k + i]]
DiskOf(kinds) == [k \in DOMAIN kinds |-> Cluster(k, kinds[k])]

\* All disks of three clusters of holes and data; a longer one, for a second chunk
\* and a third table; compressed and backed clusters among them.
MCClusterSeqs ==
    {DiskOf(kinds) : kinds \in [1..3 -> {"hole", "data"}]}
    \cup {DiskOf(kinds) : kinds \in {
             <<"data", "hole", "data", "data", "data">>,
             <<"data", "packed", "hole">>, <<"hole", "backed", "data">> }}

\* One with a cluster that is marked as zeros and still allocated.
MCZeroedSeqs == {DiskOf(<<"data", "zeroed", "hole">>)}

MCTails == {0, 1}
MCCuts == {0, 1, 3, 6, 8, 10, 12, 13}
MCTraits == UNION {TraitsOf(f) : f \in Formats}
MCLengths == {0, 1, 3, 6}
=============================================================================
