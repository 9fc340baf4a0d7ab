CONSTANTS
    u1 = u1
    u2 = u2
    r1 = r1
    e1 = e1
    w1 = w1
    w2 = w2
    Documents <- MCDocuments
    Units = {u1, u2}
    Requirements = {r1}
    Examples = {e1}
    Works = {w1, w2}
    WholeWorks = {w1, w2}
    NoAnswer = NoAnswer
SPECIFICATION Spec
INVARIANT ValidWorkKept
CHECK_DEADLOCK FALSE
