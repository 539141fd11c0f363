CONSTANTS
    Delays = 7
    Patience = 3
SPECIFICATION FairSpec
INVARIANTS TypeOK ShownIsTrue NothingLeft
PROPERTIES BackoffClimbs LinkReturns UnloadEnds
CHECK_DEADLOCK FALSE
