CONSTANTS
    Routes = {1, 2, 3}
    Requirements = {"tools"}
    NoClass = NoClass
    Registry <- MCRegistry
    Given <- MCGiven
    Tasks <- MCTasks
    QualityUnit = 4
    ReliabilityUnit = 2
    RetainWithinBest = 1
SPECIFICATION RouterSpec
INVARIANTS
    OnlyFitRoutes
    RefusedRightly
    OwnedFirst
    NoneBetter
CHECK_DEADLOCK FALSE
