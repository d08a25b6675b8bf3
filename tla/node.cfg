\* One slot for a fill of two chunks and one of an empty artifact, and one failure.
SPECIFICATION FairSpec
CONSTANTS
    f1 = f1
    f2 = f2
    Fill = {f1, f2}
    MaxConcurrent = 1
    Chunks <- Lengths
    MaxFaults = 1
\* The process ends.
CHECK_DEADLOCK FALSE
INVARIANTS
    TypeOK
    SlotsBalanced
    PublishedIsWhole
    EndAfterCommit
    EndIsRecorded
    StreamedIsStored
    DoneIsSettled
    NobodyWaitsInVain
    BusyMoves
    ClientsBracketService
    GracefulStop
PROPERTIES
    EveryMoveCounts
    ComesToRest
