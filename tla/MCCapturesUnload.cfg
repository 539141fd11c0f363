SPECIFICATION Spec
CONSTANTS
    Calls = {c1, c2}
    Lines = {l1}
    NoLine = noLine
    Tagged = {}
    Floor = {c2}
    InBook = {c1, c2}
    Tasks = {t1, t2}
    NoCall = noCall
    NoTask = noTask
CHECK_DEADLOCK FALSE
INVARIANT UnloadStopsAll
