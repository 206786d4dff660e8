CONSTANTS
    Word = 16
    MinBlockSize = 2
    Byte <- MCBytes
    PatternSets <- MCPatternSets
    Sources <- MCSources
    Configs <- MCConfigs
    Nothing = Nothing
SPECIFICATION Spec
INVARIANTS
    TypeOK
    EveryOccurrenceOnce
    NothingInvented
    WithinBudget
    NoSilentLoss
    SameAsSequential
    EngineInvariant
PROPERTY ImplementsContract
