\* Streams of up to Cap + 1 parts, which the channel and the uploader can hold.
SPECIFICATION FairSpec
CONSTANTS
    Cap = 3
    PartSize = 2
    WriteSizes <- SmallWrites
    MaxBytes = 8
    MaxFaults = 2
\* The writer ends when it has been closed, and a caller may never close it.
CHECK_DEADLOCK FALSE
INVARIANTS
    TypeOK
    ObjectIsWhole
    SmallStreamsNeverBlock
    OnlyMutualWait
PROPERTIES
    ImplementsBlob
    EveryStepCounts
    EveryCallReturns
    UploaderEnds
