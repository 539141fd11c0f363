SPECIFICATION FairSpec
CONSTANTS
    Clients = {c1, c2}
    Remote = {c1}
    Captures = {}
    Targets = {t1}
    Episodes = {e1, e2}
    MaxRemote = 1
    LinkFails = FALSE
    None = none
PROPERTIES LastViewerEnds
CHECK_DEADLOCK FALSE
