SPECIFICATION FairSpec
CONSTANTS
    Conns = {c1, c2}
    Ids = {i1}
    NoConn = none
    NoId = noid
    MaxLinks = 2
    MaxInbox = 1
INVARIANTS TypeOK EndsOnce NoOrphanWaiter EndedIsUnrouted
PROPERTIES LostOnlyInTeardown LedgerSpec RingEnds TeardownEnds
CHECK_DEADLOCK FALSE
