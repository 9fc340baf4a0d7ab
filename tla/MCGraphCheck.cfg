CONSTANTS
    N = 3
    Given <- MCGiven
    Scopes = {file, dir, other}
    Overlapping <- MCOverlapping
    Kinds = {kind}
    Merges = {strategy}
    NoMerge = NoMerge
    MaxDepths = {2, 3}
    kind = kind
    file = file
    dir = dir
    other = other
    strategy = strategy
SPECIFICATION Spec
INVARIANTS
    AcceptedFits
    RejectedRightly
    DepthIsLongest
    UnitsFollowDependencies
PROPERTY Terminates
CHECK_DEADLOCK FALSE
