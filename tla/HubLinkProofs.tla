---------------------------- MODULE HubLinkProofs ----------------------------
(***************************************************************************)
(* That the entities show the link's real state, that an unloaded entry    *)
(* has no socket, that the backoff shrinks only after a stable connection  *)
(* and that the supervisor sleeps through no loss, for any length of       *)
(* RECONNECT_BACKOFF and any number of refusals.  Everything rests on      *)
(* where the task that builds connections is when a socket exists, and on  *)
(* whose age _connected_at is by then.                                     *)
(***************************************************************************)
EXTENDS HubLink, TLAPS

\* The type invariant in parts: the flags of the session and of the hub, where
\* no leaf has arithmetic, and the rest.
LinkFlags ==
    /\ old \in BOOLEAN /\ registered \in BOOLEAN /\ ctpp \in BOOLEAN
    /\ due \in BOOLEAN /\ failing \in BOOLEAN /\ overlap \in BOOLEAN

HubFlags ==
    /\ immediate \in BOOLEAN /\ replacing \in BOOLEAN /\ changed \in BOOLEAN
    /\ shown \in BOOLEAN /\ stillborn \in BOOLEAN

Flags == LinkFlags /\ HubFlags

Rest ==
    /\ at \in Places
    /\ why \in {"none", "auth", "viper", "crash", "cancel"}
    /\ link \in {"none", "up", "lost", "mute"}
    /\ attempt \in 0..Delays /\ delay \in 0..Delays
    /\ refusals \in 0..Patience
    /\ born \in Ages /\ lasted \in Ages
    /\ owner \in {"setup", "running", "unloading", "unloaded"}
    /\ panel \in {"good", "bad"}

\* A supervisor that goes on was refused fewer times than it takes to stop.
Patient == owner = "running" /\ at # "ended" => refusals < Patience

\* An unload cancels the task, which closes what it was building or is over.
Leaving ==
    owner \in {"unloading", "unloaded"} =>
        at \in {"undo", "shut", "ended"} /\ (at = "undo" => why = "cancel")

\* Where the task is when it has no connection to watch, and when it has one.
Raising == Handshake \cup {"connect", "discover", "abandon", "sleep", "undo", "ended"}
Watching == {"waiting", "refresh", "renewed", "probe"}

\* The task closes, waits and connects with no socket, and closes only when
\* the reader does not.
Sockets ==
    /\ old /\ ~overlap => link = "none"
    /\ at \in Closing => ~old
    /\ at \in Closing \cup {"connect", "abandon", "sleep"} => link = "none"
    /\ owner = "unloaded" => at = "ended" /\ (overlap \/ link = "none")

\* While a connection is raised, only one that is replaced is shown as
\* available; while it is watched, what is shown is true.
Shows ==
    owner = "running" /\ ~old /\ ~overlap =>
        /\ at \in Raising => (shown => replacing)
        /\ at \in Watching => shown = Available
        /\ at \in {"refresh", "renewed"} => registered \/ link = "none"

\* _connected_at is no older than a socket since the last delay was chosen,
\* and _attempt is what that delay made it until such a socket was stable.
Climbing ==
    owner \in {"setup", "running"} /\ ~stillborn =>
        /\ lasted = "none" => born = "none"
        /\ lasted = "young" => born \in {"none", "young"}
        /\ lasted = "stable" => born # "old"
        /\ lasted \notin {"stable", "old"} => attempt = delay /\ ~immediate
        /\ at \in Handshake \cup {"discover", "giveup"} => lasted # "none"
        /\ ~old /\ (at \in Raising \/ (~Connected /\ at \notin Closing)) => born = "none"
        /\ at = "recycle" => born = "old"

\* The inductive invariant.
IInv == TypeOK /\ Patient /\ Leaving /\ Sockets /\ Shows /\ Climbing

-----------------------------------------------------------------------------
(* Each part is kept by every step.                                         *)

\* Every variable that is a flag stays one: those of the session,
LEMMA LinkFlagsHold ==
    ASSUME LinkFlags, [Next]_vars
    PROVE  LinkFlags'
<1> USE DEF vars, sessionVars
<1>1. CASE ConnectReturns
  BY <1>1 DEF ConnectReturns, LinkFlags
<1>2. CASE Authenticated \/ StageFails \/ StageCrashes
  <2>1. UNCHANGED <<old, due, overlap>> /\ failing' \in BOOLEAN
    BY <1>2 DEF Authenticated, StageFails, StageCrashes, LinkFlags
  <2>2. CASE UNCHANGED sessionVars
    BY <2>1, <2>2 DEF LinkFlags
  <2>3. CASE \E w \in {"auth", "viper", "crash"} : Undo(w)
    <3>1. registered' \in BOOLEAN /\ ctpp' \in BOOLEAN
      BY <2>3 DEF Undo, Close, LinkFlags
    <3> QED BY <2>1, <3>1 DEF LinkFlags
  <2> QED BY <1>2, <2>2, <2>3 DEF Authenticated, StageFails, StageCrashes
<1>3. CASE \E s, t \in Handshake : Goes(s, t)
  BY <1>3 DEF Goes, LinkFlags
<1>4. CASE Registered \/ Discovered
  <2>1. UNCHANGED <<old, failing, overlap>> /\ due' \in BOOLEAN
    BY <1>4 DEF Registered, Discovered, LinkFlags
  <2>2. registered' \in BOOLEAN /\ ctpp' \in BOOLEAN
    BY <1>4 DEF Registered, Discovered, Finish, Close, LinkFlags
  <2> QED BY <2>1, <2>2 DEF LinkFlags
<1>5. CASE Undone \/ GivenUp \/ DropEnds \/ RecycleEnds \/ Shut
  BY <1>5 DEF Undone, GivenUp, DropEnds, RecycleEnds, Shut, Closed, LinkFlags
<1>6. CASE Abandoned \/ Slept
  BY <1>6 DEF Abandoned, Slept, Connects, LinkFlags
<1>7. CASE WatchdogPass \/ Refreshed \/ RefreshFails \/ Probed \/ PassCrashes
  <2>1. UNCHANGED <<old, overlap>> /\ due' \in BOOLEAN
    BY <1>7 DEF WatchdogPass, Refreshed, RefreshFails, Probed, PassCrashes, LinkFlags
  <2>2. failing' \in BOOLEAN
    BY <1>7 DEF WatchdogPass, Refreshed, RefreshFails, Probed, PassCrashes, Probe, LinkFlags
  <2>3. registered' \in BOOLEAN /\ ctpp' \in BOOLEAN
    BY <1>7 DEF WatchdogPass, Refreshed, RefreshFails, Probed, PassCrashes, Probe, Recycle,
           Drop, Close, LinkFlags
  <2> QED BY <2>1, <2>2, <2>3 DEF LinkFlags
<1>8. CASE FinalClose \/ Unload
  BY <1>8 DEF FinalClose, Unload, CloseCut, Close, LinkFlags
<1>9. CASE RefreshAnswered \/ PeerGone \/ ReaderStops \/ OldEnds
  BY <1>9 DEF RefreshAnswered, PeerGone, ReaderStops, OldEnds, LinkFlags
<1>10. CASE Ageing \/ StampAges \/ LeaseAges \/ PanelTurns \/ UNCHANGED vars
  BY <1>10 DEF Ageing, StampAges, LeaseAges, PanelTurns, LinkFlags
<1> QED BY <1>1, <1>2, <1>3, <1>4, <1>5, <1>6, <1>7, <1>8, <1>9, <1>10
       DEF Next, TaskStep, Handshake

\* those of the hub. The supervisor's turn,
LEMMA TurnFlags ==
    ASSUME NEW a, NEW i \in BOOLEAN, NEW c \in BOOLEAN, Turn(a, i, c)
    PROVE  immediate' \in BOOLEAN /\ changed' \in BOOLEAN
BY DEF Turn

\* the loss of a connection,
LEMMA LowersFlags ==
    ASSUME HubFlags, NEW quiet \in BOOLEAN, Lowers(quiet)
    PROVE  replacing' \in BOOLEAN /\ shown' \in BOOLEAN /\ stillborn' \in BOOLEAN
BY DEF Lowers, HubFlags, Available

\* and the end of an attempt set theirs to flags,
LEMMA FailedFlags ==
    ASSUME HubFlags, NEW w, Failed(w)
    PROVE  HubFlags'
<1>1. CASE UNCHANGED hubVars
  BY <1>1 DEF hubVars, HubFlags
<1>2. CASE ~UNCHANGED hubVars
  <2>1. replacing' \in BOOLEAN /\ shown' \in BOOLEAN /\ stillborn' \in BOOLEAN
    BY <1>2 DEF Failed, HubFlags, Available
  <2>2. UNCHANGED <<immediate, changed>> \/ Turn(attempt, immediate, changed)
    BY <1>2 DEF Failed
  <2> QED BY <2>1, <2>2, TurnFlags DEF HubFlags
<1> QED BY <1>1, <1>2

LEMMA GaveUpFlags ==
    ASSUME HubFlags, GaveUp
    PROVE  HubFlags'
BY TurnFlags DEF GaveUp, HubFlags, Available

\* and so does every step.
LEMMA HubFlagsHold ==
    ASSUME HubFlags, [Next]_vars
    PROVE  HubFlags'
<1>1. CASE UNCHANGED hubVars
  BY <1>1 DEF HubFlags, hubVars
<1>2. CASE UNCHANGED <<replacing, shown, stillborn, immediate, changed>>
  BY <1>2 DEF HubFlags
<1>3. CASE \E w : Failed(w)
  BY <1>3, FailedFlags
<1>4. CASE GaveUp
  BY <1>4, GaveUpFlags
<1>5. CASE UNCHANGED <<replacing, shown, stillborn>> /\ Turn(attempt, immediate, changed)
  BY <1>5, TurnFlags DEF HubFlags
<1>6. CASE Dropped \/ Recycled
  BY <1>6, TurnFlags, LowersFlags DEF HubFlags, Dropped, Recycled
<1>7. CASE ConnectReturns \/ Authenticated \/ StageFails \/ StageCrashes \/ Undone
  BY <1>1, <1>2, <1>3, <1>7 DEF ConnectReturns, Authenticated, StageFails, StageCrashes, Undone,
         Undo, Close, Closed, sessionVars
<1>8. CASE Registered \/ Discovered
  <2>1. CASE \E r \in {TRUE, registered} : Finish(r)
    <3>1. PICK r \in {TRUE, registered} : Finish(r)
      BY <2>1
    <3>2. CASE /\ replacing' = FALSE
               /\ stillborn' = (stillborn \/ ~(Connected /\ r))
               /\ shown' = Available'
               /\ Turn(attempt, immediate, changed)
      BY <3>2, TurnFlags DEF HubFlags, Available
    <3>3. CASE /\ replacing' = FALSE /\ shown' = Available'
               /\ UNCHANGED <<immediate, changed, stillborn>>
      BY <3>3 DEF HubFlags, Available
    <3> QED BY <1>4, <3>1, <3>2, <3>3 DEF Finish, Close
  <2> QED BY <1>1, <1>8, <2>1 DEF Registered, Discovered
<1>9. CASE GivenUp \/ DropEnds \/ RecycleEnds
  BY <1>4, <1>6, <1>9 DEF GivenUp, DropEnds, RecycleEnds, Closed
<1>10. CASE WatchdogPass \/ Refreshed \/ RefreshFails \/ Probed \/ PassCrashes
  BY <1>1, <1>5, <1>6, <1>10 DEF WatchdogPass, Refreshed, RefreshFails, Probed, PassCrashes,
         Probe, Recycle, Drop, Close
<1>11. CASE OldEnds
  <2>1. CASE Lowers(FALSE) /\ immediate' = FALSE /\ changed' = TRUE
    BY <2>1, LowersFlags DEF HubFlags
  <2> QED BY <1>1, <1>11, <2>1 DEF OldEnds
<1>12. CASE FinalClose \/ Shut \/ Unload
  BY <1>1, <1>12 DEF FinalClose, Shut, Unload, CloseCut, Close, Closed
<1>13. CASE \/ Abandoned \/ Slept \/ RefreshAnswered \/ PeerGone \/ ReaderStops
            \/ LeaseAges \/ PanelTurns \/ \E s, t \in Handshake : Goes(s, t)
  BY <1>1, <1>13 DEF Abandoned, Slept, RefreshAnswered, PeerGone, ReaderStops, LeaseAges,
         PanelTurns, Goes
<1>14. CASE Ageing \/ StampAges \/ UNCHANGED vars
  BY <1>1, <1>2, <1>14 DEF Ageing, StampAges, vars
<1> QED BY <1>7, <1>8, <1>9, <1>10, <1>11, <1>12, <1>13, <1>14 DEF Next, TaskStep, Handshake

LEMMA FlagsHold ==
    ASSUME Flags, [Next]_vars
    PROVE  Flags'
BY LinkFlagsHold, HubFlagsHold DEF Flags

\* A connection that failed leaves the supervisor waiting, raising the next one,
\* or at its end for too many refusals.
LEMMA FailedKeeps ==
    ASSUME Rest, Patient, HubConstants, NEW w, Failed(w), at # "ended",
           owner \in {"setup", "running"} \/ w = "cancel",
           why' \in {"none", "auth", "viper", "crash", "cancel"}, panel' = panel,
           link' \in {"none", "up", "lost", "mute"}
    PROVE  Rest' /\ Patient' /\ Leaving'
<1>1. CASE owner = "setup"
  BY <1>1 DEF Failed, Rest, Patient, Leaving, Places, hubVars
<1>2. CASE owner # "setup" /\ w = "cancel"
  BY <1>2 DEF Failed, Rest, Patient, Leaving, Places, hubVars
<1>3. CASE owner # "setup" /\ w = "auth"
  <2>1. refusals' = refusals + 1 /\ born' = born /\ owner' = owner
    BY <1>3 DEF Failed
  <2>2. \/ at' = "ended" /\ UNCHANGED <<attempt, delay, lasted>>
        \/ refusals' < Patience /\ Turn(attempt, immediate, changed)
    BY <1>3, <2>1 DEF Failed, Rest, HubConstants
  <2>3. owner = "running"
    BY <1>3
  <2> QED BY <2>1, <2>2, <2>3 DEF Turn, Rest, Patient, Leaving, Places, Lesser, Ages,
  HubConstants
<1>4. CASE owner # "setup" /\ w \notin {"auth", "cancel"}
  <2>1. /\ UNCHANGED <<refusals, born, owner>> /\ Turn(attempt, immediate, changed)
    BY <1>4 DEF Failed
  <2>2. owner = "running"
    BY <1>4
  <2> QED BY <2>1, <2>2 DEF Turn, Rest, Patient, Leaving, Places, Lesser, Ages, HubConstants
<1> QED BY <1>1, <1>2, <1>3, <1>4

\* So do the other variables stay in their sets, the refusals within patience,
\* and the task of an entry that is unloaded where it cleans up.
LEMMA RestHolds ==
    ASSUME Rest, Patient, Leaving, HubConstants, [Next]_vars
    PROVE  Rest' /\ Patient' /\ Leaving'
<1> USE DEF vars, sessionVars, hubVars
<1>1. CASE ConnectReturns
  BY <1>1 DEF ConnectReturns, Failed, Turn, Rest, Patient, Leaving, HubConstants, Places,
         Handshake, Closing, Ages, Kept, Lesser, Connected
<1>2. CASE Authenticated
  <2>1. CASE at' = "config" /\ UNCHANGED <<why, sessionVars, hubVars, owner>>
    BY <1>2, <2>1 DEF Authenticated, Rest, Patient, Leaving, Leaving, Places, Handshake
  <2>2. CASE Undo("auth")
    <3>1. /\ why' = "auth" /\ link' \in {"none", "up", "lost", "mute"}
          /\ panel' = panel /\ at = "auth"
      BY <1>2, <2>2 DEF Authenticated, Undo, Close, Failed, Rest
    <3>2. CASE at' = "undo" /\ UNCHANGED <<hubVars, owner>>
      BY <3>1, <3>2 DEF Rest, Patient, Leaving, Places, Closing
    <3>3. CASE Failed("auth")
      BY <3>1, <3>3, FailedKeeps DEF Rest, Leaving
    <3> QED BY <2>2, <3>2, <3>3 DEF Undo, Close
  <2> QED BY <1>2, <2>1, <2>2 DEF Authenticated
<1>3. CASE Goes("config", "ctpp")
  BY <1>3 DEF Goes, Rest, Patient, Leaving, HubConstants, Places, Handshake, Closing, Ages,
         Kept, Lesser, Connected
<1>4. CASE Goes("ctpp", "register")
  BY <1>4 DEF Goes, Rest, Patient, Leaving, HubConstants, Places, Handshake, Closing, Ages,
         Kept, Lesser, Connected
<1>5. CASE Goes("register", "fin")
  BY <1>5 DEF Goes, Rest, Patient, Leaving, HubConstants, Places, Handshake, Closing, Ages,
         Kept, Lesser, Connected
<1>6. CASE StageFails
  BY <1>6 DEF StageFails, Undo, Close, Failed, Turn, Rest, Patient, Leaving, HubConstants,
         Places, Handshake, Closing, Ages, Kept, Lesser, Connected
<1>7. CASE StageCrashes
  BY <1>7 DEF StageCrashes, Undo, Close, Failed, Turn, Rest, Patient, Leaving, HubConstants,
         Places, Handshake, Closing, Ages, Kept, Lesser, Connected
<1>8. CASE Registered
  BY <1>8 DEF Registered, Finish, GaveUp, Close, Turn, Rest, Patient, Leaving, HubConstants,
         Places, Handshake, Closing, Ages, Kept, Lesser, Connected
<1>9. CASE Discovered
  BY <1>9 DEF Discovered, Finish, GaveUp, Close, Turn, Rest, Patient, Leaving, HubConstants,
         Places, Handshake, Closing, Ages, Kept, Lesser, Connected
<1>10. CASE Undone
  <2>1. at = "undo" /\ UNCHANGED <<why, link, panel>> /\ Failed(why)
    BY <1>10 DEF Undone, Closed
  <2> QED BY <2>1, FailedKeeps DEF Rest, Leaving
<1>11. CASE GivenUp
  BY <1>11 DEF GivenUp, Closed, GaveUp, Turn, Rest, Patient, Leaving, HubConstants, Places,
         Handshake, Closing, Ages, Kept, Lesser, Connected
<1>12. CASE Abandoned
  BY <1>12 DEF Abandoned, Connects, Rest, Patient, Leaving, HubConstants, Places, Handshake,
         Closing, Ages, Kept, Lesser, Connected
<1>13. CASE Slept
  BY <1>13 DEF Slept, Connects, Rest, Patient, Leaving, HubConstants, Places, Handshake,
         Closing, Ages, Kept, Lesser, Connected
<1>14. CASE WatchdogPass
  BY <1>14 DEF WatchdogPass, Drop, Dropped, Close, Lowers, Probe, Recycle, Recycled, Turn,
         Lapsed, Rest, Patient, Leaving, HubConstants, Places, Handshake, Closing, Ages,
         Kept, Lesser, Connected
<1>15. CASE RefreshAnswered
  BY <1>15 DEF RefreshAnswered, Rest, Patient, Leaving, HubConstants, Places, Handshake,
         Closing, Ages, Kept, Lesser, Connected
<1>16. CASE Refreshed
  BY <1>16 DEF Refreshed, Probe, Recycle, Recycled, Close, Lowers, Turn, Rest, Patient,
         Leaving, HubConstants, Places, Handshake, Closing, Ages, Kept, Lesser, Connected
<1>17. CASE RefreshFails
  BY <1>17 DEF RefreshFails, Drop, Dropped, Close, Lowers, Turn, Rest, Patient, Leaving,
         HubConstants, Places, Handshake, Closing, Ages, Kept, Lesser, Connected
<1>18. CASE Probed
  BY <1>18 DEF Probed, Recycle, Recycled, Drop, Dropped, Close, Lowers, Turn, Rest, Patient,
         Leaving, HubConstants, Places, Handshake, Closing, Ages, Kept, Lesser, Connected
<1>19. CASE PassCrashes
  BY <1>19 DEF PassCrashes, Turn, Rest, Patient, Leaving, HubConstants, Places, Handshake,
         Closing, Ages, Kept, Lesser, Connected
<1>20. CASE DropEnds
  BY <1>20 DEF DropEnds, Closed, Dropped, Lowers, Turn, Rest, Patient, Leaving,
         HubConstants, Places, Handshake, Closing, Ages, Kept, Lesser, Connected
<1>21. CASE RecycleEnds
  BY <1>21 DEF RecycleEnds, Closed, Recycled, Lowers, Turn, Rest, Patient, Leaving,
         HubConstants, Places, Handshake, Closing, Ages, Kept, Lesser, Connected
<1>22. CASE FinalClose
  BY <1>22 DEF FinalClose, Close, Rest, Patient, Leaving, HubConstants, Places, Handshake,
         Closing, Ages, Kept, Lesser, Connected
<1>23. CASE Shut
  BY <1>23 DEF Shut, Closed, Rest, Patient, Leaving, HubConstants, Places, Handshake,
         Closing, Ages, Kept, Lesser, Connected
<1>24. CASE PeerGone
  BY <1>24 DEF PeerGone, Rest, Patient, Leaving, HubConstants, Places, Handshake, Closing,
         Ages, Kept, Lesser, Connected
<1>25. CASE ReaderStops
  BY <1>25 DEF ReaderStops, Rest, Patient, Leaving, HubConstants, Places, Handshake,
         Closing, Ages, Kept, Lesser, Connected
<1>26. CASE OldEnds
  BY <1>26 DEF OldEnds, Lowers, Rest, Patient, Leaving, HubConstants, Places, Handshake,
         Closing, Ages, Kept, Lesser, Connected
<1>27. CASE Ageing
  BY <1>27 DEF Ageing, Older, Rest, Patient, Leaving, HubConstants, Places, Handshake,
         Closing, Ages, Kept, Lesser, Connected
<1>28. CASE StampAges
  BY <1>28 DEF StampAges, Older, Rest, Patient, Leaving, HubConstants, Places, Handshake,
         Closing, Ages, Kept, Lesser, Connected
<1>29. CASE LeaseAges
  BY <1>29 DEF LeaseAges, Rest, Patient, Leaving, HubConstants, Places, Handshake, Closing,
         Ages, Kept, Lesser, Connected
<1>30. CASE PanelTurns
  BY <1>30 DEF PanelTurns, Rest, Patient, Leaving, HubConstants, Places, Handshake, Closing,
         Ages, Kept, Lesser, Connected
<1>31. CASE Unload
  BY <1>31 DEF Unload, CloseCut, Close, Rest, Patient, Leaving, HubConstants, Places,
         Handshake, Closing, Ages, Kept, Lesser, Connected
<1>32. CASE UNCHANGED vars
  BY <1>32 DEF Rest, Patient, Leaving, HubConstants, Places, Handshake, Closing, Ages, Kept,
         Lesser, Connected
<1> QED BY <1>1, <1>2, <1>3, <1>4, <1>5, <1>6, <1>7, <1>8, <1>9, <1>10, <1>11, <1>12, <1>13,
       <1>14, <1>15, <1>16, <1>17, <1>18, <1>19, <1>20, <1>21, <1>22, <1>23, <1>24, <1>25,
       <1>26, <1>27, <1>28, <1>29, <1>30, <1>31, <1>32 DEF Next, TaskStep

\* A socket is opened only at the one place, and closed before the next delay.
LEMMA SocketsHold ==
    ASSUME TypeOK, Leaving, Sockets, [Next]_vars
    PROVE  Sockets'
<1> USE DEF vars, sessionVars, hubVars
<1>1. CASE ConnectReturns
  BY <1>1 DEF ConnectReturns, Failed, Turn, Sockets, TypeOK, Leaving, Places, Handshake,
         Closing, Connected
<1>2. CASE Authenticated
  BY <1>2 DEF Authenticated, Undo, Close, Failed, Turn, Sockets, TypeOK, Leaving, Places,
         Handshake, Closing, Connected
<1>3. CASE Goes("config", "ctpp")
  BY <1>3 DEF Goes, Sockets, TypeOK, Leaving, Places, Handshake, Closing, Connected
<1>4. CASE Goes("ctpp", "register")
  BY <1>4 DEF Goes, Sockets, TypeOK, Leaving, Places, Handshake, Closing, Connected
<1>5. CASE Goes("register", "fin")
  BY <1>5 DEF Goes, Sockets, TypeOK, Leaving, Places, Handshake, Closing, Connected
<1>6. CASE StageFails
  BY <1>6 DEF StageFails, Undo, Close, Failed, Turn, Sockets, TypeOK, Leaving, Places,
         Handshake, Closing, Connected
<1>7. CASE StageCrashes
  BY <1>7 DEF StageCrashes, Undo, Close, Failed, Turn, Sockets, TypeOK, Leaving, Places,
         Handshake, Closing, Connected
<1>8. CASE Registered
  BY <1>8 DEF Registered, Finish, GaveUp, Close, Turn, Sockets, TypeOK, Leaving, Places,
         Handshake, Closing, Connected
<1>9. CASE Discovered
  BY <1>9 DEF Discovered, Finish, GaveUp, Close, Turn, Sockets, TypeOK, Leaving, Places,
         Handshake, Closing, Connected
<1>10. CASE Undone
  BY <1>10 DEF Undone, Closed, Failed, Turn, Sockets, TypeOK, Leaving, Places, Handshake,
         Closing, Connected
<1>11. CASE GivenUp
  BY <1>11 DEF GivenUp, Closed, GaveUp, Turn, Sockets, TypeOK, Leaving, Places, Handshake,
         Closing, Connected
<1>12. CASE Abandoned
  BY <1>12 DEF Abandoned, Connects, Sockets, TypeOK, Leaving, Places, Handshake, Closing,
         Connected
<1>13. CASE Slept
  BY <1>13 DEF Slept, Connects, Sockets, TypeOK, Leaving, Places, Handshake, Closing,
         Connected
<1>14. CASE WatchdogPass
  BY <1>14 DEF WatchdogPass, Drop, Dropped, Close, Lowers, Probe, Recycle, Recycled, Turn,
         Lapsed, Sockets, TypeOK, Leaving, Places, Handshake, Closing, Connected
<1>15. CASE RefreshAnswered
  BY <1>15 DEF RefreshAnswered, Sockets, TypeOK, Leaving, Places, Handshake, Closing,
         Connected
<1>16. CASE Refreshed
  BY <1>16 DEF Refreshed, Probe, Recycle, Recycled, Close, Lowers, Turn, Sockets, TypeOK,
         Leaving, Places, Handshake, Closing, Connected
<1>17. CASE RefreshFails
  BY <1>17 DEF RefreshFails, Drop, Dropped, Close, Lowers, Turn, Sockets, TypeOK, Leaving,
         Places, Handshake, Closing, Connected
<1>18. CASE Probed
  BY <1>18 DEF Probed, Recycle, Recycled, Drop, Dropped, Close, Lowers, Turn, Sockets,
         TypeOK, Leaving, Places, Handshake, Closing, Connected
<1>19. CASE PassCrashes
  BY <1>19 DEF PassCrashes, Turn, Sockets, TypeOK, Leaving, Places, Handshake, Closing,
         Connected
<1>20. CASE DropEnds
  BY <1>20 DEF DropEnds, Closed, Dropped, Lowers, Turn, Sockets, TypeOK, Leaving, Places,
         Handshake, Closing, Connected
<1>21. CASE RecycleEnds
  BY <1>21 DEF RecycleEnds, Closed, Recycled, Lowers, Turn, Sockets, TypeOK, Leaving,
         Places, Handshake, Closing, Connected
<1>22. CASE FinalClose
  BY <1>22 DEF FinalClose, Close, Sockets, TypeOK, Leaving, Places, Handshake, Closing,
         Connected
<1>23. CASE Shut
  BY <1>23 DEF Shut, Closed, Sockets, TypeOK, Leaving, Places, Handshake, Closing, Connected
<1>24. CASE PeerGone
  BY <1>24 DEF PeerGone, Sockets, TypeOK, Leaving, Places, Handshake, Closing, Connected
<1>25. CASE ReaderStops
  BY <1>25 DEF ReaderStops, Sockets, TypeOK, Leaving, Places, Handshake, Closing, Connected
<1>26. CASE OldEnds
  BY <1>26 DEF OldEnds, Lowers, Sockets, TypeOK, Leaving, Places, Handshake, Closing,
         Connected
<1>27. CASE Ageing
  BY <1>27 DEF Ageing, Older, Sockets, TypeOK, Leaving, Places, Handshake, Closing,
         Connected
<1>28. CASE StampAges
  BY <1>28 DEF StampAges, Older, Sockets, TypeOK, Leaving, Places, Handshake, Closing,
         Connected
<1>29. CASE LeaseAges
  BY <1>29 DEF LeaseAges, Sockets, TypeOK, Leaving, Places, Handshake, Closing, Connected
<1>30. CASE PanelTurns
  BY <1>30 DEF PanelTurns, Sockets, TypeOK, Leaving, Places, Handshake, Closing, Connected
<1>31. CASE Unload
  BY <1>31 DEF Unload, CloseCut, Close, Sockets, TypeOK, Leaving, Places, Handshake,
         Closing, Connected
<1>32. CASE UNCHANGED vars
  BY <1>32 DEF Sockets, TypeOK, Leaving, Places, Handshake, Closing, Connected
<1> QED BY <1>1, <1>2, <1>3, <1>4, <1>5, <1>6, <1>7, <1>8, <1>9, <1>10, <1>11, <1>12, <1>13,
       <1>14, <1>15, <1>16, <1>17, <1>18, <1>19, <1>20, <1>21, <1>22, <1>23, <1>24, <1>25,
       <1>26, <1>27, <1>28, <1>29, <1>30, <1>31, <1>32 DEF Next, TaskStep

\* Every step that changes what is true notifies the entities, unless a teardown
\* is under way that will.
LEMMA ShowsHold ==
    ASSUME TypeOK, Sockets, Shows, [Next]_vars
    PROVE  Shows'
<1> USE DEF vars, sessionVars, hubVars
<1>1. CASE ConnectReturns
  BY <1>1 DEF ConnectReturns, Failed, Turn, Sockets, Shows, TypeOK, Places, Handshake,
         Closing, Raising, Watching, Connected, Available
<1>2. CASE Authenticated
  BY <1>2 DEF Authenticated, Undo, Close, Failed, Turn, Sockets, Shows, TypeOK, Places,
         Handshake, Closing, Raising, Watching, Connected, Available
<1>3. CASE Goes("config", "ctpp")
  BY <1>3 DEF Goes, Sockets, Shows, TypeOK, Places, Handshake, Closing, Raising, Watching,
         Connected, Available
<1>4. CASE Goes("ctpp", "register")
  BY <1>4 DEF Goes, Sockets, Shows, TypeOK, Places, Handshake, Closing, Raising, Watching,
         Connected, Available
<1>5. CASE Goes("register", "fin")
  BY <1>5 DEF Goes, Sockets, Shows, TypeOK, Places, Handshake, Closing, Raising, Watching,
         Connected, Available
<1>6. CASE StageFails
  BY <1>6 DEF StageFails, Undo, Close, Failed, Turn, Sockets, Shows, TypeOK, Places,
         Handshake, Closing, Raising, Watching, Connected, Available
<1>7. CASE StageCrashes
  BY <1>7 DEF StageCrashes, Undo, Close, Failed, Turn, Sockets, Shows, TypeOK, Places,
         Handshake, Closing, Raising, Watching, Connected, Available
<1>8. CASE Registered
  BY <1>8 DEF Registered, Finish, GaveUp, Close, Turn, Sockets, Shows, TypeOK, Places,
         Handshake, Closing, Raising, Watching, Connected, Available
<1>9. CASE Discovered
  BY <1>9 DEF Discovered, Finish, GaveUp, Close, Turn, Sockets, Shows, TypeOK, Places,
         Handshake, Closing, Raising, Watching, Connected, Available
<1>10. CASE Undone
  BY <1>10 DEF Undone, Closed, Failed, Turn, Sockets, Shows, TypeOK, Places, Handshake,
         Closing, Raising, Watching, Connected, Available
<1>11. CASE GivenUp
  BY <1>11 DEF GivenUp, Closed, GaveUp, Turn, Sockets, Shows, TypeOK, Places, Handshake,
         Closing, Raising, Watching, Connected, Available
<1>12. CASE Abandoned
  BY <1>12 DEF Abandoned, Connects, Sockets, Shows, TypeOK, Places, Handshake, Closing,
         Raising, Watching, Connected, Available
<1>13. CASE Slept
  BY <1>13 DEF Slept, Connects, Sockets, Shows, TypeOK, Places, Handshake, Closing, Raising,
         Watching, Connected, Available
<1>14. CASE WatchdogPass
  BY <1>14 DEF WatchdogPass, Drop, Dropped, Close, Lowers, Probe, Recycle, Recycled, Turn,
         Lapsed, Sockets, Shows, TypeOK, Places, Handshake, Closing, Raising, Watching,
         Connected, Available
<1>15. CASE RefreshAnswered
  BY <1>15 DEF RefreshAnswered, Sockets, Shows, TypeOK, Places, Handshake, Closing, Raising,
         Watching, Connected, Available
<1>16. CASE Refreshed
  <2>1. CASE Recycle(TRUE) /\ UNCHANGED failing
    <3>1. UNCHANGED <<old, owner, overlap>> /\ at = "renewed"
      BY <1>16 DEF Refreshed
    <3>2. CASE ~old /\ ~overlap /\ owner = "running"
      <4>1. shown = Available /\ (registered \/ ~Connected)
        BY <3>1, <3>2 DEF Shows, Watching, Connected
      <4>2. CASE /\ registered' = TRUE /\ UNCHANGED <<link, ctpp>>
                 /\ Turn(attempt, immediate, changed)
                 /\ UNCHANGED <<replacing, shown, born, stillborn, refusals>>
        <5>1. shown' = Available'
          BY <4>1, <4>2 DEF Available, Connected
        <5>2. at' = "waiting" \/ (at' = "abandon" /\ ~Connected')
          BY <4>2 DEF Turn
        <5> QED BY <3>1, <4>2, <5>1, <5>2 DEF Shows, Raising, Watching, Handshake, Available
      <4>3. CASE Close("recycle", TRUE, UNCHANGED hubVars, Recycled)
        BY <3>1, <3>2, <4>1, <4>3 DEF Recycled, Close, Lowers, Turn, Shows, Handshake, Raising,
           Watching, Connected, Available
      <4> QED BY <2>1, <4>2, <4>3 DEF Recycle
    <3>3. CASE ~(~old /\ ~overlap /\ owner = "running")
      BY <3>1, <3>3 DEF Shows
    <3> QED BY <3>2, <3>3
  <2>2. CASE at' = "probe" /\ registered' = TRUE /\ UNCHANGED <<link, ctpp, hubVars>>
    <3>1. UNCHANGED <<old, owner, overlap>>
      BY <1>16 DEF Refreshed
    <3>2. ~old /\ ~overlap /\ owner = "running" => shown' = Available'
      BY <1>16, <2>2 DEF Refreshed, Shows, Watching, Connected, Available
    <3> QED BY <2>2, <3>1, <3>2 DEF Shows, Raising, Watching, Handshake
  <2> QED BY <1>16, <2>1, <2>2 DEF Refreshed, Probe
<1>17. CASE RefreshFails
  BY <1>17 DEF RefreshFails, Drop, Dropped, Close, Lowers, Turn, Sockets, Shows, TypeOK,
         Places, Handshake, Closing, Raising, Watching, Connected, Available
<1>18. CASE Probed
  BY <1>18 DEF Probed, Recycle, Recycled, Drop, Dropped, Close, Lowers, Turn, Sockets,
         Shows, TypeOK, Places, Handshake, Closing, Raising, Watching, Connected, Available
<1>19. CASE PassCrashes
  BY <1>19 DEF PassCrashes, Turn, Sockets, Shows, TypeOK, Places, Handshake, Closing,
         Raising, Watching, Connected, Available
<1>20. CASE DropEnds
  BY <1>20 DEF DropEnds, Closed, Dropped, Lowers, Turn, Sockets, Shows, TypeOK, Places,
         Handshake, Closing, Raising, Watching, Connected, Available
<1>21. CASE RecycleEnds
  BY <1>21 DEF RecycleEnds, Closed, Recycled, Lowers, Turn, Sockets, Shows, TypeOK, Places,
         Handshake, Closing, Raising, Watching, Connected, Available
<1>22. CASE FinalClose
  BY <1>22 DEF FinalClose, Close, Sockets, Shows, TypeOK, Places, Handshake, Closing,
         Raising, Watching, Connected, Available
<1>23. CASE Shut
  BY <1>23 DEF Shut, Closed, Sockets, Shows, TypeOK, Places, Handshake, Closing, Raising,
         Watching, Connected, Available
<1>24. CASE PeerGone
  BY <1>24 DEF PeerGone, Sockets, Shows, TypeOK, Places, Handshake, Closing, Raising,
         Watching, Connected, Available
<1>25. CASE ReaderStops
  BY <1>25 DEF ReaderStops, Sockets, Shows, TypeOK, Places, Handshake, Closing, Raising,
         Watching, Connected, Available
<1>26. CASE OldEnds
  BY <1>26 DEF OldEnds, Lowers, Sockets, Shows, TypeOK, Places, Handshake, Closing, Raising,
         Watching, Connected, Available
<1>27. CASE Ageing
  BY <1>27 DEF Ageing, Older, Sockets, Shows, TypeOK, Places, Handshake, Closing, Raising,
         Watching, Connected, Available
<1>28. CASE StampAges
  BY <1>28 DEF StampAges, Older, Sockets, Shows, TypeOK, Places, Handshake, Closing,
         Raising, Watching, Connected, Available
<1>29. CASE LeaseAges
  BY <1>29 DEF LeaseAges, Sockets, Shows, TypeOK, Places, Handshake, Closing, Raising,
         Watching, Connected, Available
<1>30. CASE PanelTurns
  BY <1>30 DEF PanelTurns, Sockets, Shows, TypeOK, Places, Handshake, Closing, Raising,
         Watching, Connected, Available
<1>31. CASE Unload
  BY <1>31 DEF Unload, CloseCut, Close, Sockets, Shows, TypeOK, Places, Handshake, Closing,
         Raising, Watching, Connected, Available
<1>32. CASE UNCHANGED vars
  BY <1>32 DEF Sockets, Shows, TypeOK, Places, Handshake, Closing, Raising, Watching,
         Connected, Available
<1> QED BY <1>1, <1>2, <1>3, <1>4, <1>5, <1>6, <1>7, <1>8, <1>9, <1>10, <1>11, <1>12, <1>13,
       <1>14, <1>15, <1>16, <1>17, <1>18, <1>19, <1>20, <1>21, <1>22, <1>23, <1>24, <1>25,
       <1>26, <1>27, <1>28, <1>29, <1>30, <1>31, <1>32 DEF Next, TaskStep

\* The stamp that resets the backoff belongs to a socket that has lasted.
LEMMA ClimbingHolds ==
    ASSUME TypeOK, HubConstants, Leaving, Sockets, Climbing, [Next]_vars
    PROVE  Climbing'
<1> USE DEF vars, sessionVars, hubVars
<1>1. CASE ConnectReturns
  BY <1>1 DEF ConnectReturns, Failed, Turn, Sockets, Climbing, TypeOK, HubConstants, Places,
         Handshake, Closing, Raising, Ages, Connected, Kept, Lesser
<1>2. CASE Authenticated
  BY <1>2 DEF Authenticated, Undo, Close, Failed, Turn, Sockets, Climbing, TypeOK,
         HubConstants, Places, Handshake, Closing, Raising, Ages, Connected, Kept, Lesser
<1>3. CASE Goes("config", "ctpp")
  BY <1>3 DEF Goes, Sockets, Climbing, TypeOK, HubConstants, Places, Handshake, Closing,
         Raising, Ages, Connected, Kept, Lesser
<1>4. CASE Goes("ctpp", "register")
  BY <1>4 DEF Goes, Sockets, Climbing, TypeOK, HubConstants, Places, Handshake, Closing,
         Raising, Ages, Connected, Kept, Lesser
<1>5. CASE Goes("register", "fin")
  BY <1>5 DEF Goes, Sockets, Climbing, TypeOK, HubConstants, Places, Handshake, Closing,
         Raising, Ages, Connected, Kept, Lesser
<1>6. CASE StageFails
  BY <1>6 DEF StageFails, Undo, Close, Failed, Turn, Sockets, Climbing, TypeOK,
         HubConstants, Places, Handshake, Closing, Raising, Ages, Connected, Kept, Lesser
<1>7. CASE StageCrashes
  BY <1>7 DEF StageCrashes, Undo, Close, Failed, Turn, Sockets, Climbing, TypeOK,
         HubConstants, Places, Handshake, Closing, Raising, Ages, Connected, Kept, Lesser
<1>8. CASE Registered
  <2>1. CASE Finish(TRUE)
    <3>1. CASE (Connected /\ TRUE) \/ owner = "setup"
      <4>1. CASE Connected /\ TRUE
        <5>1. owner \in {"setup", "running"} /\ at \in Handshake \cup {"discover"}
          BY <1>8 DEF Registered, Leaving, TypeOK, Handshake
        <5>2. ~stillborn' => ~stillborn
          BY <2>1, <3>1 DEF Finish
        <5>3. /\ link' # "none" /\ born' = "young" /\ at' = "waiting"
              /\ UNCHANGED <<lasted, attempt, delay, immediate>>
          BY <2>1, <3>1, <4>1 DEF Finish, Turn, Connected
        <5> QED BY <5>1, <5>2, <5>3 DEF Climbing, TypeOK, Ages, Handshake, Raising, Connected
      <4>2. CASE ~(Connected /\ TRUE)
        <5>1. stillborn'
          BY <2>1, <3>1, <4>2 DEF Finish
        <5> QED BY <5>1 DEF Climbing
      <4> QED BY <4>1, <4>2
    <3>2. CASE ~((Connected /\ TRUE) \/ owner = "setup")
      BY <1>8, <2>1, <3>2 DEF Registered, Finish, Close, GaveUp, Turn, Sockets, Climbing,
         TypeOK, HubConstants, Places, Handshake, Closing, Raising, Ages, Connected, Lesser
    <3> QED BY <3>1, <3>2
  <2>2. CASE at' = "discover" /\ UNCHANGED <<link, ctpp, hubVars, owner>>
    BY <1>8, <2>2 DEF Registered, Climbing, Handshake, Closing, Raising, Connected
  <2> QED BY <1>8, <2>1, <2>2 DEF Registered
<1>9. CASE Discovered
  <2>1. CASE Finish(registered)
    <3>1. CASE (Connected /\ registered) \/ owner = "setup"
      <4>1. CASE Connected /\ registered
        <5>1. owner \in {"setup", "running"} /\ at \in Handshake \cup {"discover"}
          BY <1>9 DEF Discovered, Leaving, TypeOK, Handshake
        <5>2. ~stillborn' => ~stillborn
          BY <2>1, <3>1 DEF Finish
        <5>3. /\ link' # "none" /\ born' = "young" /\ at' = "waiting"
              /\ UNCHANGED <<lasted, attempt, delay, immediate>>
          BY <2>1, <3>1, <4>1 DEF Finish, Turn, Connected
        <5> QED BY <5>1, <5>2, <5>3 DEF Climbing, TypeOK, Ages, Handshake, Raising, Connected
      <4>2. CASE ~(Connected /\ registered)
        <5>1. stillborn'
          BY <2>1, <3>1, <4>2 DEF Finish
        <5> QED BY <5>1 DEF Climbing
      <4> QED BY <4>1, <4>2
    <3>2. CASE ~((Connected /\ registered) \/ owner = "setup")
      BY <1>9, <2>1, <3>2 DEF Discovered, Finish, Close, GaveUp, Turn, Sockets, Climbing,
         TypeOK, HubConstants, Places, Handshake, Closing, Raising, Ages, Connected, Lesser
    <3> QED BY <3>1, <3>2
  <2> QED BY <1>9, <2>1 DEF Discovered
<1>10. CASE Undone
  BY <1>10 DEF Undone, Closed, Failed, Turn, Sockets, Climbing, TypeOK, HubConstants,
         Places, Handshake, Closing, Raising, Ages, Connected, Kept, Lesser
<1>11. CASE GivenUp
  BY <1>11 DEF GivenUp, Closed, GaveUp, Turn, Sockets, Climbing, TypeOK, HubConstants,
         Places, Handshake, Closing, Raising, Ages, Connected, Kept, Lesser
<1>12. CASE Abandoned
  BY <1>12 DEF Abandoned, Connects, Sockets, Climbing, TypeOK, HubConstants, Places,
         Handshake, Closing, Raising, Ages, Connected, Kept, Lesser
<1>13. CASE Slept
  BY <1>13 DEF Slept, Connects, Sockets, Climbing, TypeOK, HubConstants, Places, Handshake,
         Closing, Raising, Ages, Connected, Kept, Lesser
<1>14. CASE WatchdogPass
  BY <1>14 DEF WatchdogPass, Drop, Dropped, Close, Lowers, Probe, Recycle, Recycled, Turn,
         Lapsed, Sockets, Climbing, TypeOK, HubConstants, Places, Handshake, Closing,
         Raising, Ages, Connected, Kept, Lesser
<1>15. CASE RefreshAnswered
  BY <1>15 DEF RefreshAnswered, Sockets, Climbing, TypeOK, HubConstants, Places, Handshake,
         Closing, Raising, Ages, Connected, Kept, Lesser
<1>16. CASE Refreshed
  BY <1>16 DEF Refreshed, Probe, Recycle, Recycled, Close, Lowers, Turn, Sockets, Climbing,
         TypeOK, HubConstants, Places, Handshake, Closing, Raising, Ages, Connected, Kept,
         Lesser
<1>17. CASE RefreshFails
  BY <1>17 DEF RefreshFails, Drop, Dropped, Close, Lowers, Turn, Sockets, Climbing, TypeOK,
         HubConstants, Places, Handshake, Closing, Raising, Ages, Connected, Kept, Lesser
<1>18. CASE Probed
  BY <1>18 DEF Probed, Recycle, Recycled, Drop, Dropped, Close, Lowers, Turn, Sockets,
         Climbing, TypeOK, HubConstants, Places, Handshake, Closing, Raising, Ages,
         Connected, Kept, Lesser
<1>19. CASE PassCrashes
  BY <1>19 DEF PassCrashes, Turn, Sockets, Climbing, TypeOK, HubConstants, Places,
         Handshake, Closing, Raising, Ages, Connected, Kept, Lesser
<1>20. CASE DropEnds
  BY <1>20 DEF DropEnds, Closed, Dropped, Lowers, Turn, Sockets, Climbing, TypeOK,
         HubConstants, Places, Handshake, Closing, Raising, Ages, Connected, Kept, Lesser
<1>21. CASE RecycleEnds
  BY <1>21 DEF RecycleEnds, Closed, Recycled, Lowers, Turn, Sockets, Climbing, TypeOK,
         HubConstants, Places, Handshake, Closing, Raising, Ages, Connected, Kept, Lesser
<1>22. CASE FinalClose
  BY <1>22 DEF FinalClose, Close, Sockets, Climbing, TypeOK, HubConstants, Places,
         Handshake, Closing, Raising, Ages, Connected, Kept, Lesser
<1>23. CASE Shut
  BY <1>23 DEF Shut, Closed, Sockets, Climbing, TypeOK, HubConstants, Places, Handshake,
         Closing, Raising, Ages, Connected, Kept, Lesser
<1>24. CASE PeerGone
  BY <1>24 DEF PeerGone, Sockets, Climbing, TypeOK, HubConstants, Places, Handshake,
         Closing, Raising, Ages, Connected, Kept, Lesser
<1>25. CASE ReaderStops
  BY <1>25 DEF ReaderStops, Sockets, Climbing, TypeOK, HubConstants, Places, Handshake,
         Closing, Raising, Ages, Connected, Kept, Lesser
<1>26. CASE OldEnds
  BY <1>26 DEF OldEnds, Lowers, Sockets, Climbing, TypeOK, HubConstants, Places, Handshake,
         Closing, Raising, Ages, Connected, Kept, Lesser
<1>27. CASE Ageing
  BY <1>27 DEF Ageing, Older, Sockets, Climbing, TypeOK, HubConstants, Places, Handshake,
         Closing, Raising, Ages, Connected, Kept, Lesser
<1>28. CASE StampAges
  BY <1>28 DEF StampAges, Older, Sockets, Climbing, TypeOK, HubConstants, Places, Handshake,
         Closing, Raising, Ages, Connected, Kept, Lesser
<1>29. CASE LeaseAges
  BY <1>29 DEF LeaseAges, Sockets, Climbing, TypeOK, HubConstants, Places, Handshake,
         Closing, Raising, Ages, Connected, Kept, Lesser
<1>30. CASE PanelTurns
  BY <1>30 DEF PanelTurns, Sockets, Climbing, TypeOK, HubConstants, Places, Handshake,
         Closing, Raising, Ages, Connected, Kept, Lesser
<1>31. CASE Unload
  BY <1>31 DEF Unload, CloseCut, Close, Sockets, Climbing, TypeOK, HubConstants, Places,
         Handshake, Closing, Raising, Ages, Connected, Kept, Lesser
<1>32. CASE UNCHANGED vars
  BY <1>32 DEF Sockets, Climbing, TypeOK, HubConstants, Places, Handshake, Closing, Raising,
         Ages, Connected, Kept, Lesser
<1> QED BY <1>1, <1>2, <1>3, <1>4, <1>5, <1>6, <1>7, <1>8, <1>9, <1>10, <1>11, <1>12, <1>13,
       <1>14, <1>15, <1>16, <1>17, <1>18, <1>19, <1>20, <1>21, <1>22, <1>23, <1>24, <1>25,
       <1>26, <1>27, <1>28, <1>29, <1>30, <1>31, <1>32 DEF Next, TaskStep

\* Step by step: no delay is shorter than the last, but after a stable connection.
LEMMA OnlyClimbs ==
    ASSUME TypeOK, HubConstants, Leaving, Sockets, Climbing, lasted \notin {"stable", "old"},
    ~stillborn, [Next]_vars
    PROVE  ~Shorter
<1> USE DEF vars, sessionVars, hubVars
<1>1. CASE ConnectReturns
  BY <1>1 DEF ConnectReturns, Failed, Turn, Shorter, Sockets, Climbing, Leaving, TypeOK,
         HubConstants, Places, Handshake, Closing, Raising, Ages, Connected, Kept, Lesser
<1>2. CASE Authenticated
  BY <1>2 DEF Authenticated, Undo, Close, Failed, Turn, Shorter, Sockets, Climbing, Leaving,
         TypeOK, HubConstants, Places, Handshake, Closing, Raising, Ages, Connected, Kept,
         Lesser
<1>3. CASE Goes("config", "ctpp")
  BY <1>3 DEF Goes, Shorter
<1>4. CASE Goes("ctpp", "register")
  BY <1>4 DEF Goes, Shorter
<1>5. CASE Goes("register", "fin")
  BY <1>5 DEF Goes, Shorter
<1>6. CASE StageFails
  BY <1>6 DEF StageFails, Undo, Close, Failed, Turn, Shorter, Sockets, Climbing, Leaving,
         TypeOK, HubConstants, Places, Handshake, Closing, Raising, Ages, Connected, Kept,
         Lesser
<1>7. CASE StageCrashes
  BY <1>7 DEF StageCrashes, Undo, Close, Failed, Turn, Shorter, Sockets, Climbing, Leaving,
         TypeOK, HubConstants, Places, Handshake, Closing, Raising, Ages, Connected, Kept,
         Lesser
<1>8. CASE Registered
  BY <1>8 DEF Registered, Finish, GaveUp, Close, Turn, Shorter, Sockets, Climbing, Leaving,
         TypeOK, HubConstants, Places, Handshake, Closing, Raising, Ages, Connected, Kept,
         Lesser
<1>9. CASE Discovered
  BY <1>9 DEF Discovered, Finish, GaveUp, Close, Turn, Shorter, Sockets, Climbing, Leaving,
         TypeOK, HubConstants, Places, Handshake, Closing, Raising, Ages, Connected, Kept,
         Lesser
<1>10. CASE Undone
  BY <1>10 DEF Undone, Closed, Failed, Turn, Shorter, Sockets, Climbing, Leaving, TypeOK,
         HubConstants, Places, Handshake, Closing, Raising, Ages, Connected, Kept, Lesser
<1>11. CASE GivenUp
  BY <1>11 DEF GivenUp, Closed, GaveUp, Turn, Shorter, Sockets, Climbing, Leaving, TypeOK,
         HubConstants, Places, Handshake, Closing, Raising, Ages, Connected, Kept, Lesser
<1>12. CASE Abandoned
  BY <1>12 DEF Abandoned, Connects, Shorter
<1>13. CASE Slept
  BY <1>13 DEF Slept, Connects, Shorter
<1>14. CASE WatchdogPass
  BY <1>14 DEF WatchdogPass, Drop, Dropped, Close, Lowers, Probe, Recycle, Recycled, Turn,
         Lapsed, Shorter, Sockets, Climbing, Leaving, TypeOK, HubConstants, Places,
         Handshake, Closing, Raising, Ages, Connected, Kept, Lesser
<1>15. CASE RefreshAnswered
  BY <1>15 DEF RefreshAnswered, Shorter
<1>16. CASE Refreshed
  BY <1>16 DEF Refreshed, Probe, Recycle, Recycled, Close, Lowers, Turn, Shorter, Sockets,
         Climbing, Leaving, TypeOK, HubConstants, Places, Handshake, Closing, Raising, Ages,
         Connected, Kept, Lesser
<1>17. CASE RefreshFails
  BY <1>17 DEF RefreshFails, Drop, Dropped, Close, Lowers, Turn, Shorter, Sockets, Climbing,
         Leaving, TypeOK, HubConstants, Places, Handshake, Closing, Raising, Ages,
         Connected, Kept, Lesser
<1>18. CASE Probed
  BY <1>18 DEF Probed, Recycle, Recycled, Drop, Dropped, Close, Lowers, Turn, Shorter,
         Sockets, Climbing, Leaving, TypeOK, HubConstants, Places, Handshake, Closing,
         Raising, Ages, Connected, Kept, Lesser
<1>19. CASE PassCrashes
  BY <1>19 DEF PassCrashes, Turn, Shorter, Sockets, Climbing, Leaving, TypeOK, HubConstants,
         Places, Handshake, Closing, Raising, Ages, Connected, Kept, Lesser
<1>20. CASE DropEnds
  BY <1>20 DEF DropEnds, Closed, Dropped, Lowers, Turn, Shorter, Sockets, Climbing, Leaving,
         TypeOK, HubConstants, Places, Handshake, Closing, Raising, Ages, Connected, Kept,
         Lesser
<1>21. CASE RecycleEnds
  BY <1>21 DEF RecycleEnds, Closed, Recycled, Lowers, Turn, Shorter, Sockets, Climbing,
         Leaving, TypeOK, HubConstants, Places, Handshake, Closing, Raising, Ages,
         Connected, Kept, Lesser
<1>22. CASE FinalClose
  BY <1>22 DEF FinalClose, Close, Shorter
<1>23. CASE Shut
  BY <1>23 DEF Shut, Closed, Shorter
<1>24. CASE PeerGone
  BY <1>24 DEF PeerGone, Shorter
<1>25. CASE ReaderStops
  BY <1>25 DEF ReaderStops, Shorter
<1>26. CASE OldEnds
  BY <1>26 DEF OldEnds, Lowers, Shorter
<1>27. CASE Ageing
  BY <1>27 DEF Ageing, Older, Shorter
<1>28. CASE StampAges
  BY <1>28 DEF StampAges, Older, Shorter
<1>29. CASE LeaseAges
  BY <1>29 DEF LeaseAges, Shorter
<1>30. CASE PanelTurns
  BY <1>30 DEF PanelTurns, Shorter, Sockets, Climbing, Leaving, TypeOK, HubConstants,
         Places, Handshake, Closing, Raising, Ages, Connected, Kept, Lesser
<1>31. CASE Unload
  BY <1>31 DEF Unload, CloseCut, Close, Shorter
<1>32. CASE UNCHANGED vars
  BY <1>32 DEF Shorter
<1> QED BY <1>1, <1>2, <1>3, <1>4, <1>5, <1>6, <1>7, <1>8, <1>9, <1>10, <1>11, <1>12, <1>13,
       <1>14, <1>15, <1>16, <1>17, <1>18, <1>19, <1>20, <1>21, <1>22, <1>23, <1>24, <1>25,
       <1>26, <1>27, <1>28, <1>29, <1>30, <1>31, <1>32 DEF Next, TaskStep

\* A supervisor that waits for a connection that is gone is woken: the event is
\* set already, or the reader that tore the connection down will set it.
Woken == at = "waiting" /\ ~Connected => old \/ changed

\* The supervisor begins to wait only for a connection that is up, and nobody
\* clears the event while it waits.
LEMMA WokenHolds ==
    ASSUME TypeOK, Leaving, Woken, [Next]_vars
    PROVE  Woken'
<1> USE DEF Woken, Connected
<1>1. CASE at' # "waiting" \/ link' # "none"
  BY <1>1
<1>2. CASE UNCHANGED <<at, link, old, changed>>
  BY <1>2
<1>3. ASSUME NEW a, NEW i, NEW c, Turn(a, i, c) PROVE at' # "waiting" \/ link' # "none"
  BY <1>3 DEF Turn
<1>4. ASSUME NEW w, Failed(w), UNCHANGED link, at # "waiting"
      PROVE  at' # "waiting" \/ link' # "none"
  BY <1>3, <1>4 DEF Failed, hubVars
<1>5. CASE ConnectReturns \/ Authenticated \/ StageFails \/ StageCrashes \/ Undone
  <2>1. at # "waiting"
    BY <1>5 DEF ConnectReturns, Authenticated, StageFails, StageCrashes, Undone, Closed, Handshake
  <2> QED BY <1>1, <1>4, <1>5, <2>1 DEF ConnectReturns, Authenticated, StageFails, StageCrashes,
         Undone, Undo, Close, Closed, sessionVars
<1>6. CASE Registered \/ Discovered \/ GivenUp
  BY <1>1, <1>3, <1>6 DEF Registered, Discovered, GivenUp, Finish, GaveUp, Close, Closed
<1>7. CASE WatchdogPass \/ Refreshed \/ RefreshFails \/ Probed \/ PassCrashes
  BY <1>1, <1>3, <1>7 DEF WatchdogPass, Refreshed, RefreshFails, Probed, PassCrashes, Probe,
         Recycle, Recycled, Drop, Dropped, Close
<1>8. CASE DropEnds \/ RecycleEnds
  BY <1>1, <1>3, <1>8 DEF DropEnds, RecycleEnds, Closed, Dropped, Recycled
<1>9. CASE \E s, t \in Handshake : Goes(s, t)
  BY <1>1, <1>9 DEF Goes, Handshake
<1>10. CASE Abandoned \/ Slept \/ RefreshAnswered \/ FinalClose \/ Shut \/ Unload
  BY <1>1, <1>2, <1>10 DEF Abandoned, Slept, RefreshAnswered, FinalClose, Shut, Unload, Connects,
         CloseCut, Close, Closed, sessionVars, hubVars
<1>11. CASE ReaderStops
  BY <1>11 DEF ReaderStops, hubVars
<1>12. CASE OldEnds
  BY <1>12 DEF OldEnds, Leaving, TypeOK
<1>13. CASE PeerGone \/ Ageing \/ StampAges \/ LeaseAges \/ PanelTurns \/ UNCHANGED vars
  BY <1>2, <1>13 DEF PeerGone, Ageing, StampAges, LeaseAges, PanelTurns, vars, sessionVars, hubVars
<1> QED BY <1>5, <1>6, <1>7, <1>8, <1>9, <1>10, <1>11, <1>12, <1>13 DEF Next, TaskStep, Handshake

-----------------------------------------------------------------------------
(* The theorems.                                                            *)

\* The two parts are the type invariant.
LEMMA TypeParts == TypeOK <=> Flags /\ Rest
BY DEF TypeOK, Flags, LinkFlags, HubFlags, Rest

\* The link keeps its inductive invariant.
THEOREM Invariance == Spec => []IInv
<1> USE HubConstants
<1>1. Init => IInv
  <2> SUFFICES ASSUME Init PROVE IInv
    OBVIOUS
  <2>1. Flags
    BY DEF Init, Flags, LinkFlags, HubFlags
  <2>2. Rest
    BY DEF Init, Rest, Places, Ages, HubConstants
  <2>3. Patient /\ Leaving
    BY DEF Init, Patient, Leaving
  <2>4. Sockets /\ Shows /\ Climbing
    BY DEF Init, Sockets, Shows, Climbing, Closing, Handshake, Raising
  <2> QED BY <2>1, <2>2, <2>3, <2>4, TypeParts DEF IInv
<1>2. IInv /\ [Next]_vars => IInv'
  <2> SUFFICES ASSUME IInv, [Next]_vars PROVE IInv'
    OBVIOUS
  <2>1. Flags' /\ Rest' /\ Patient' /\ Leaving'
    BY FlagsHold, RestHolds, TypeParts DEF IInv
  <2>2. TypeOK'
    BY <2>1 DEF TypeOK, Flags, LinkFlags, HubFlags, Rest
  <2> QED BY <2>1, <2>2, SocketsHold, ShowsHold, ClimbingHolds DEF IInv
<1> QED BY <1>1, <1>2, PTL DEF Spec

\* Every reachable state of the hub's link is well typed; the backoff's index
\* and the count of refusals stay in their range.
THEOREM TypeCorrect == Spec => []TypeOK
<1>1. IInv => TypeOK
  BY DEF IInv
<1> QED BY <1>1, Invariance, PTL

\* async_shutdown, wherever it cancels the supervisor, leaves no socket.
THEOREM NothingLeftHolds == Spec => []NothingLeft
<1>1. IInv => NothingLeft
  BY DEF IInv, Sockets, NothingLeft
<1> QED BY <1>1, Invariance, PTL

\* What the entities show is what the hub would answer, whatever the order in
\* which a loss is noticed by the reader, the watchdog and the supervisor.
THEOREM ShownIsTrueHolds == Spec => []ShownIsTrue
<1>1. IInv => ShownIsTrue
  <2> SUFFICES ASSUME IInv, owner = "running", ~old, ~overlap, at \notin Closing
               PROVE  (shown => Available) /\ (at = "waiting" => shown = Available)
    BY DEF ShownIsTrue
  <2>1. at \in Raising \/ at \in Watching
    BY DEF IInv, TypeOK, Places, Raising, Watching, Closing
  <2> QED BY <2>1 DEF IInv, Shows, Watching, Available
<1> QED BY <1>1, Invariance, PTL

\* No step chooses a shorter delay than the last one, but after a connection
\* that was stable.
THEOREM BackoffClimbsHolds == Spec => BackoffClimbs
<1>1. IInv /\ [Next]_vars => [Shorter => lasted \in {"stable", "old"} \/ stillborn]_vars
  <2> SUFFICES ASSUME IInv, [Next]_vars, lasted \notin {"stable", "old"}, ~stillborn
               PROVE  ~Shorter
    OBVIOUS
  <2> QED BY OnlyClimbs, HubConstants DEF IInv
<1> QED BY <1>1, Invariance, PTL DEF Spec, BackoffClimbs

\* A supervisor that goes on has been refused fewer times in a row than
\* AUTH_FAILURES_BEFORE_REAUTH: no way _connect ends passes the limit by.
THEOREM PatientHolds == Spec => []Patient
<1>1. IInv => Patient
  BY DEF IInv
<1> QED BY <1>1, Invariance, PTL

\* The supervisor never sleeps through the loss of its connection: whenever it
\* waits and there is no socket, _changed is set, or the teardown whose end
\* calls _on_disconnect is still to end.  It clears the event at the top of its
\* loop, between an earlier teardown and the wait: _supervise, _lower_link.
THEOREM NoLostWakeup == Spec => []Woken
<1>1. Init => Woken
  BY DEF Init, Woken
<1>2. IInv /\ Woken /\ [Next]_vars => Woken'
  <2> SUFFICES ASSUME IInv, Woken, [Next]_vars PROVE Woken'
    OBVIOUS
  <2> QED BY WokenHolds DEF IInv
<1> QED BY <1>1, <1>2, Invariance, PTL DEF Spec

=============================================================================
