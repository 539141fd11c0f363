SPECIFICATION FairSpec
CONSTANTS
    Clients = {c1, c2}
    Remote = {c1}
    Captures = {s1}
    Targets = {t1}
    Episodes = {e1, e2}
    MaxRemote = 1
    LinkFails = TRUE
    None = none
INVARIANTS TypeOK OneCall Accounted
PROPERTIES RequestsAnswered CallEnds
CHECK_DEADLOCK FALSE
