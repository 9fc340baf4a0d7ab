\* Two resumes of one branch against the record they append to.
CONSTANTS
    b1 = b1
    b2 = b2
    Procs = {p1, p2}
    Branches = {b1}
    NodeOf <- Single
    Decisions = {x, y}
    NoBranch = NoBranch
    MaxEscalations = 1
    MaxCompiles = 0
    MaxStops = 0
SPECIFICATION Spec
PROPERTY DecisionsKept
CHECK_DEADLOCK FALSE
