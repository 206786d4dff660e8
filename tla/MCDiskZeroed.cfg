CONSTANTS
    Formats = {"qcow2"}
    ClusterSize = 2
    TableEntries = 2
    ChunkRatio = 2
    ClusterSeqs <- MCZeroedSeqs
    Tails <- MCTails
    Cuts <- MCCuts
    Traits <- MCTraits
    Lengths <- MCLengths
SPECIFICATION Spec
PROPERTY ReadsTheGuestDisk
