CONSTANTS
    Procs = {p1, p2}
    Units = {unit}
    Requests = {r1, r2}
    UnitOf <- MCUnitOf
    Limits = {1, 2}
    Nothing = Nothing
    MaxTime = 3
SYMMETRY Symmetry
SPECIFICATION Spec
INVARIANTS
    RoutedOnFresh
    RoutesKnown
PROPERTY EvidenceMovesOn
CHECK_DEADLOCK FALSE
