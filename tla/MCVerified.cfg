CONSTANTS
    Contents <- MCContents
    MaxPieces = 2
    MaxEdits = 3
SPECIFICATION Spec
INVARIANTS
    TypeOK
    ProcessedWhatWasHashed
    ProcessedWhatWasExpected
    TrailTellsTheVerdict
    GrowthIsNoChange
