\* Two calls of WaitForReady, two fills, and one failing Valkey command.
\* No symmetry: it is unsound for liveness.
SPECIFICATION FairSpec
CONSTANTS
    w1 = w1
    w2 = w2
    Waiter = {w1, w2}
    MaxFills = 2
    MaxFaults = 1
\* The fills are bounded, and a call may wait for a signal that was lost.
CHECK_DEADLOCK FALSE
INVARIANTS
    TypeOK
    SignalIsNotMissed
PROPERTIES
    ImplementsLatch
    SignalUnblocks
    GoroutinesEnd
