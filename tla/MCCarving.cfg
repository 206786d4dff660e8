CONSTANTS
    ChunkSize = 7
    MinRecord = 2
    MaxRecord = 6
    Align = 2
    MinTime = 1
    MaxTime = 3
    StaleId = 3
    GoodTime = 2
    Layouts <- MCLayouts
    Extract <- MCExtract
    Cases <- MCCases
SPECIFICATION Spec
INVARIANTS
    TypeOK
    DiagnosticsAfterJoinExact
    NeverOvercounts
    ChunksExact
    RecordsSurvive
    
PROPERTY EveryHitAnswered
