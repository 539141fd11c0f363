SPECIFICATION FairSpec
CONSTANTS
    Requesters = {u1}
    Callers = {u2}
    W = 3
    First = 1
    Named = {2}
    Cuts = 1
INVARIANTS TypeOK HandlesApart NothingLeaks DownIsDeaf
PROPERTIES UsersReturn
CHECK_DEADLOCK FALSE
