CONSTANTS
    Formats = {"qcow2", "vmdk", "vhdx"}
    ClusterSize = 2
    TableEntries = 2
    ChunkRatio = 2
    ClusterSeqs <- MCClusterSeqs
    Tails <- MCTails
    Cuts <- MCCuts
    Traits <- MCTraits
    Lengths <- MCLengths
SPECIFICATION Spec
INVARIANTS
    TypeOK
    SurvivorsReadable
PROPERTY ReadsTheGuestDisk
