SPECIFICATION FairSpec
CONSTANTS
    Calls = {c1, c2}
    Lines = {l1}
    NoLine = noLine
    Tagged = {}
    Floor = {c2}
    InBook = {c1, c2}
    Tasks = {t1, t2}
    NoCall = noCall
    NoTask = noTask
INVARIANTS TypeOK OwedIsRinging OncePerRing Reaped NoneMissed
PROPERTIES FfmpegEnds UnloadEnds
CHECK_DEADLOCK FALSE
