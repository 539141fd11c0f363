SPECIFICATION FairSpec
CONSTANTS
    Remotes = {r1}
    NoHandle = none
    QueueSize = 2
    Interrupts = TRUE
INVARIANTS TypeOK NothingForgotten ClosedIsDeaf ReleaseIsLast
PROPERTIES StreamEnds Returns
CHECK_DEADLOCK FALSE
