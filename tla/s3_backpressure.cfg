\* One part more than the channel and the uploader can hold, and no failure.
SPECIFICATION FairSpec
CONSTANTS
    Cap = 2
    PartSize = 2
    WriteSizes <- SmallWrites
    MaxBytes = 8
    MaxFaults = 0
\* The writer ends when it has been closed, and a caller may never close it.
CHECK_DEADLOCK FALSE
PROPERTY
    EveryCallReturns
