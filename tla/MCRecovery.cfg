\* Safety and liveness of recovery.
CONSTANTS
    Procs = {p1, p2}
    Attempts = {a1}
    Units = {u}
    MaxStarts = 2
    MaxWrites = 2
    MaxStops = 1
SPECIFICATION Spec
INVARIANTS
    MarkedExactlyOnce
    SilentOnlyAfterStop
    ProjectionIsLastWord
    ReportedIsInLedger
PROPERTIES
    FinishedStands
    RecoveredAtLast
CHECK_DEADLOCK FALSE
