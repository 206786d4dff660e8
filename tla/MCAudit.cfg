CONSTANTS
    Capacity = 2
    Sizes <- MCSizes
    MaxRuns = 2
    MaxLines = 3
    MaxAgain = 1
SPECIFICATION Spec
INVARIANTS
    TypeOK
    NoHole
    DigestCoversTheRun
    DigestExactWhenQuiet
PROPERTY AppendOnly
