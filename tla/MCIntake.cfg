CONSTANTS
    Trees <- MCTrees
    Images <- MCImages
    Threads = {t1, t2}
    Main = main
    MediaSize = 3
    Requests <- MCRequests
    MaxReads = 3
SPECIFICATION Spec
INVARIANTS
    TypeOK
    WalkExact
    LibraryUsedWell
    NothingLeaks
    ReadsWhatWasAsked
PROPERTY EverythingAnswered
CHECK_DEADLOCK FALSE
