CONSTANTS
    Conns = {c1}
    Ids = {i1}
    NoConn = none
    NoId = noid
    MaxLinks = 1
    MaxInbox = 1
SPECIFICATION Spec
INVARIANTS EveryRingEnds
CHECK_DEADLOCK FALSE
