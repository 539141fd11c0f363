SPECIFICATION FairSpec
CONSTANTS
    Remotes = {r1}
    NoHandle = none
    QueueSize = 2
    Interrupts = FALSE
PROPERTIES CloseEndsTasks
CHECK_DEADLOCK FALSE
