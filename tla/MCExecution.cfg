\* Safety and liveness of the execution contract.
CONSTANTS
    a = a
    b = b
    c = c
    d = d
    m = m
    Nodes <- MCNodes
    Atomic <- MCAtomic
    DependsOn <- MCDependsOn
    Overlap <- MCOverlap
SPECIFICATION FairSpec
INVARIANTS
    OnlyReviewsUnlock
    FrontiersAgree
    WritersSeparate
PROPERTIES
    ImplementsGate
    IndependentBranchesFinish
CHECK_DEADLOCK FALSE
