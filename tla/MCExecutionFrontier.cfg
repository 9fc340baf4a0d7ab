\* The docstring of recovery.ready_frontier against the query.
CONSTANTS
    a = a
    b = b
    c = c
    d = d
    m = m
    Nodes <- MCNodes
    Atomic <- MCAtomic
    DependsOn <- MCDependsOn
    Overlap <- MCOverlap
SPECIFICATION Spec
INVARIANT NothingDownstreamOffered
CHECK_DEADLOCK FALSE
