\* Safety of resuming.
CONSTANTS
    b1 = b1
    b2 = b2
    Procs = {p1, p2}
    Branches = {b1, b2}
    NodeOf <- Apart
    Decisions = {x, y}
    NoBranch = NoBranch
    MaxEscalations = 2
    MaxCompiles = 1
    MaxStops = 1
SYMMETRY Symmetry
SPECIFICATION Spec
INVARIANTS
    LedgerAgreesWithRecord
    AnsweredForItself
    NoSilentDecision
CHECK_DEADLOCK FALSE
