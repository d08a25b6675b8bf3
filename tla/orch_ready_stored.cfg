\* No failure at all: READY is written before the upload is committed.
SPECIFICATION Spec
CONSTANTS
    n1 = n1
    n2 = n2
    r1 = r1
    r2 = r2
    r3 = r3
    Node = {n1, n2}
    Req = {r1, r2, r3}
    NoNode = NoNode
    Providers = {"s3"}
    FaultKinds <- NoFaults
    MaxFaults = 0
    LocksOutliveFills = TRUE
SYMMETRY Symmetry
INVARIANTS
    ReadyIsStored
