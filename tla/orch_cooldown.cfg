\* One failed fetch, and a request that looked the record up before it.
SPECIFICATION Spec
CONSTANTS
    n1 = n1
    n2 = n2
    r1 = r1
    r2 = r2
    r3 = r3
    Node = {n1, n2}
    Req = {r1, r2, r3}
    NoNode = NoNode
    Providers = {"s3"}
    FaultKinds <- FetchFaults
    MaxFaults = 1
    LocksOutliveFills = TRUE
SYMMETRY Symmetry
PROPERTIES
    RetriesAfterCooldown
