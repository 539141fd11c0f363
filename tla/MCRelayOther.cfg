SPECIFICATION Spec
CONSTANTS
    Clients = {c1, c2}
    Remote = {c1}
    Captures = {}
    Targets = {t1, t2}
    Episodes = {e1, e2}
    MaxRemote = 1
    LinkFails = FALSE
    None = none
INVARIANTS SeesItsOwn
CHECK_DEADLOCK FALSE
