\* One failure, upstream or of the store; every request keeps running.
\* No symmetry: it is unsound for liveness.
SPECIFICATION FairSpec
CONSTANTS
    n1 = n1
    n2 = n2
    r1 = r1
    r2 = r2
    r3 = r3
    Node = {n1, n2}
    Req = {r1, r2, r3}
    NoNode = NoNode
    Providers = {"s3"}
    FaultKinds <- DataFaults
    MaxFaults = 1
    LocksOutliveFills = TRUE
INVARIANTS
    ReadyIsBacked
    QuietIsSettled
    WaitersAreServed
PROPERTIES
    FirstPullReturns
