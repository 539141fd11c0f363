SPECIFICATION Spec
CONSTANTS
    Clients = {c1, c2}
    M = 5
    Gap = 2
    Numbers = 3
    MaxCalls = 3
    None = none
INVARIANTS TypeOK InStep
PROPERTIES Continuous
CHECK_DEADLOCK FALSE
