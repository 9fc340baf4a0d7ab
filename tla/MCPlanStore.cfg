CONSTANTS
    c1 = c1
    c2 = c2
    c3 = c3
    u1 = u1
    u2 = u2
    h1 = h1
    h2 = h2
    p1 = p1
    p2 = p2
    Procs = {p1, p2}
    Contents = {c1, c2, c3}
    Plan <- MCPlan
    Units = {u1, u2}
    Hashes = {h1, h2}
    NoEvidence = NoEvidence
    NoContent = NoContent
    MaxCalls = 4
    MaxStops = 1
SYMMETRY Symmetry
SPECIFICATION Spec
INVARIANTS
    EvidenceFits
    AnswersAgree
    UndisturbedInserts
    FilesMatchRows
    NewestIsCurrent
CHECK_DEADLOCK FALSE
