CONSTANTS
    MaxHops = 5
    MaxSector = 20
    MaxEntry = 2
    MaxEntries = 4
    MbrLayouts <- MCMbrLayouts
    GptLayouts <- MCGptLayouts
    Disks <- AllDisks
SPECIFICATION Spec
INVARIANTS
    TypeOK
    TableExact
    LinkCostsOnlyTheRest
    WindowReadsItsPartition
PROPERTY TableEndsUp
CHECK_DEADLOCK FALSE
