---------------------------- MODULE MCPartition ----------------------------
(* Small disks with every kind of table, each with one sector damaged.       *)
EXTENDS PartitionedDisks

Small == Entry("fat", 1, 2)
AtEnd == Entry("ntfs", 9, 1)
Container == Entry("extended", 3, 6)
Protective == Entry("protective", 1, 9)

MCMbrLayouts ==
    { [slots |-> <<Small, AtEnd>>, chain |-> <<>>],
      [slots |-> <<Container>>, chain |-> <<TRUE, TRUE>>],
      [slots |-> <<Small, Container, Entry("fat", 9, 0)>>, chain |-> <<TRUE, FALSE, TRUE>>],
      [slots |-> <<Container, AtEnd>>, chain |-> <<FALSE, TRUE>>],
      [slots |-> <<Container>>, chain |-> <<TRUE, FALSE, FALSE>>],
      [slots |-> <<Small, Unused, AtEnd, Container>>, chain |-> <<TRUE, TRUE, TRUE>>] }

GptEntry(type, first, last) == [type |-> type, first |-> first, last |-> last]

MCGptLayouts ==
    { [slots |-> <<Protective>>, entries |-> e] :
        e \in { <<GptEntry("data", 4, 5), GptEntry("swap", 6, 9)>>,
                <<GptEntry("unused", 0, 0), GptEntry("swap", 6, 8)>>,
                <<GptEntry("data", MaxSector + 1, MaxSector + 2),
                  GptEntry("swap", 6, 8)>>,
                <<GptEntry("data", 6, 4), GptEntry("unused", 0, 0)>> } }
    \cup { [slots |-> slots,
            entries |-> <<GptEntry("data", 4, 5), GptEntry("swap", 6, 9)>>] :
              slots \in { <<Protective, Entry("fat", 4, 2)>>, <<Entry("fat", 4, 2)>> } }
=============================================================================
