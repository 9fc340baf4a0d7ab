CONSTANTS
    c1 = c1
    c2 = c2
    c3 = c3
    c4 = c4
    c5 = c5
    u1 = u1
    u2 = u2
    a1 = a1
    m1 = m1
    p1 = p1
    p2 = p2
    Procs = {p1, p2}
    Contents = {c1, c2, c3, c4, c5}
    Plan <- MCPlan
    Units = {u1, u2}
    Managers = {"M1", "M-DEFAULT"}
    Models = {m1, "local"}
    Placeholders = {"local"}
    Evidences = {"llm_stats", "operator"}
    None = None
    NoGraph = NoGraph
    Torn = Torn
    MaxCalls = 4
    MaxStops = 1
SYMMETRY Symmetry
SPECIFICATION Spec
INVARIANTS
    CompileHeals
    NothingElseSet
    EvidenceOfItsModel
    BundleStands
CHECK_DEADLOCK FALSE
