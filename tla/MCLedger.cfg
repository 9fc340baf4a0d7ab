\* Safety, refinement and liveness of the ledger.
CONSTANTS
    Procs = {p1, p2}
    Keys = {k}
    EmptyKey = EmptyKey
    NoKey = NoKey
    Payloads = {x, y}
    Pending = Pending
    Nobody = Nobody
    MaxCalls = 3
SPECIFICATION FairSpec
INVARIANTS
    ChainVerifies
    KeysUnique
    TamperingShows
PROPERTIES
    ImplementsLog
    LockIsReleased
CHECK_DEADLOCK FALSE
