\* A second fill of the key, and no failure.
SPECIFICATION Spec
CONSTANTS
    w1 = w1
    w2 = w2
    Waiter = {w1, w2}
    MaxFills = 2
    MaxFaults = 0
CHECK_DEADLOCK FALSE
INVARIANTS
    FillIsOver
