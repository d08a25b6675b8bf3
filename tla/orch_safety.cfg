\* Every failure the environment can inject, two of them in a behaviour.
SPECIFICATION Spec
CONSTANTS
    n1 = n1
    n2 = n2
    r1 = r1
    r2 = r2
    r3 = r3
    Node = {n1, n2}
    Req = {r1, r2, r3}
    NoNode = NoNode
    Providers = {"s3", "gcs"}
    FaultKinds <- ServerFaults
    MaxFaults = 2
    LocksOutliveFills = TRUE
SYMMETRY Symmetry
\* All slots can be left waiting for a signal that was lost: the slots, not the
\* system, have come to an end.
CHECK_DEADLOCK FALSE
INVARIANTS
    TypeOK
    SingleFlight
    ReadySizeIsFinal
    FailuresNeverAddUp
PROPERTIES
    ImplementsEntry
    ImplementsLatch
