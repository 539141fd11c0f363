------------------------------ MODULE HubLink ------------------------------
(***************************************************************************)
(* ComelitVipHub's link to the panel (hub.py): the first connection made   *)
(* by async_setup, the supervisor that alone rebuilds it with a growing    *)
(* backoff, the watchdog that renews, probes and recycles it, the callback *)
(* of a connection that died on its own, and the unload that stops it all. *)
(*                                                                         *)
(* The session is seen as the hub sees it: a socket, a registration, the   *)
(* CTPP channel, and a teardown of a dead connection that the reader may   *)
(* still be running while the supervisor goes on (ViperSession has the     *)
(* detail).  An action is a task's run from one await to the next.         *)
(***************************************************************************)
EXTENDS Integers

CONSTANTS Delays,    \* len(RECONNECT_BACKOFF)
          Patience   \* AUTH_FAILURES_BEFORE_REAUTH

ASSUME HubConstants == Delays \in Nat \ {0} /\ Patience \in Nat \ {0}

VARIABLES
    at,          \* where the task that builds connections is suspended
    why,         \* the exception that a failed _connect is closing for
    link,        \* the session's socket
    old,         \* the reader is still tearing a dead connection down
    registered,  \* session.registered
    ctpp,        \* the session knows its CTPP channel
    due,         \* the registration is older than REGISTRATION_REFRESH
    failing,     \* the waiter of the request in progress has been failed
    attempt,     \* _attempt, as an index into RECONNECT_BACKOFF
    delay,       \* the last delay: 0 for none, k for RECONNECT_BACKOFF[k - 1]
    immediate,   \* _immediate
    replacing,   \* _replacing
    refusals,    \* _auth_failures
    born,        \* _connected_at, as the age of the connection
    changed,     \* the event _changed
    shown,       \* what the entities last wrote: hub.available at a notification
    owner,       \* the config entry: set up, running, unloaded
    panel,       \* "good": the panel accepts and answers; "bad": anything
    lasted,      \* history: the age reached by a socket since the last delay was
                 \* chosen with no teardown running
    overlap,     \* history: a socket was opened during an older teardown
    stillborn    \* history: the first connection died while async_setup was at it

sessionVars == <<link, registered, ctpp>>
hubVars == <<attempt, delay, immediate, replacing, refusals, born, changed, shown, lasted,
             stillborn>>
vars == <<at, why, sessionVars, old, due, failing, hubVars, owner, panel, overlap>>

Ages == {"none", "young", "stable", "old"}
Handshake == {"auth", "config", "ctpp", "register", "fin"}
Closing == {"undo", "drop", "recycle", "giveup", "shut"}
Places == {"connect", "discover", "waiting", "refresh", "renewed", "probe", "abandon",
           "sleep", "ended"} \cup Handshake \cup Closing

TypeOK ==
    /\ at \in Places
    /\ why \in {"none", "auth", "viper", "crash", "cancel"}
    /\ link \in {"none", "up", "lost", "mute"}
    /\ old \in BOOLEAN /\ registered \in BOOLEAN /\ ctpp \in BOOLEAN
    /\ due \in BOOLEAN /\ failing \in BOOLEAN
    /\ attempt \in 0..Delays /\ delay \in 0..Delays
    /\ immediate \in BOOLEAN /\ replacing \in BOOLEAN /\ changed \in BOOLEAN
    /\ refusals \in 0..Patience
    /\ born \in Ages /\ lasted \in Ages
    /\ shown \in BOOLEAN
    /\ owner \in {"setup", "running", "unloading", "unloaded"}
    /\ panel \in {"good", "bad"}
    /\ overlap \in BOOLEAN /\ stillborn \in BOOLEAN

\* async_setup is in its _connect; nothing is connected.
Init ==
    /\ at = "connect" /\ why = "none"
    /\ link = "none" /\ old = FALSE /\ registered = FALSE /\ ctpp = FALSE
    /\ due = FALSE /\ failing = FALSE
    /\ attempt = 0 /\ delay = 0 /\ immediate = FALSE /\ replacing = FALSE
    /\ refusals = 0 /\ born = "none" /\ changed = FALSE /\ shown = FALSE
    /\ owner = "setup" /\ panel \in {"good", "bad"}
    /\ lasted = "none" /\ overlap = FALSE /\ stillborn = FALSE

-----------------------------------------------------------------------------

\* Mutant: the last entry of RECONNECT_BACKOFF is run past.
LesserFirst(m, n) == m

Lesser(m, n) == IF m < n THEN m ELSE n

\* session.connected: a socket whose reader has stopped without a teardown of
\* its own ("mute") counts, and so does one whose peer is gone unnoticed.
Connected == link # "none"

Available == (Connected /\ registered) \/ replacing

\* The top of _supervise: the supervisor waits on the link that is up, or
\* takes the delay it owes and starts to raise one; a is _attempt, i
\* _immediate and c the event by now.
Turn(a, i, c) ==
    IF Connected'
    THEN /\ at' = "waiting" /\ changed' = FALSE
         /\ attempt' = a /\ immediate' = i
         /\ UNCHANGED <<delay, lasted>>
    ELSE /\ at' = "abandon" /\ changed' = c
         /\ delay' = IF i THEN 0 ELSE Lesser(a + 1, Delays)
         /\ attempt' = IF i THEN 0 ELSE Lesser(a + 1, Delays)
         /\ immediate' = FALSE
         /\ lasted' = IF old THEN lasted ELSE "none"

\* Mutant: any connection that came up resets the backoff.
KeptNever == 0

\* What _attempt is after the loss of a connection of this age.
Kept == IF born \in {"stable", "old"} THEN 0 ELSE attempt

\* Mutant: a connection that is lost is not reported.
LowersSilently(quiet) ==
    /\ replacing' = quiet
    /\ born' = "none"
    /\ UNCHANGED <<refusals, shown, stillborn>>

\* _lower_link, up to the wake-up of the supervisor.
Lowers(quiet) ==
    /\ replacing' = quiet
    /\ shown' = IF quiet THEN shown ELSE Available'
    /\ born' = "none"
    /\ UNCHANGED <<refusals, stillborn>>

\* session.close() by the task, with registered = r by now.  It returns at
\* once when another teardown is running, or when there is no socket; else it
\* waits for the socket to close, and has stopped the reader.
Close(site, r, Meanwhile, Then) ==
    \/ /\ old \/ ~Connected
       /\ registered' = (r /\ old) /\ ctpp' = (ctpp /\ old)
       /\ UNCHANGED link
       /\ Then
    \/ /\ ~old /\ Connected
       /\ link' = "none" /\ registered' = r
       /\ UNCHANGED ctpp
       /\ at' = site
       /\ Meanwhile

Closed(site, Then) ==
    /\ at = site
    /\ registered' = FALSE /\ ctpp' = FALSE
    /\ UNCHANGED link
    /\ Then

-----------------------------------------------------------------------------
(* _connect and _raise_link.                                                *)

\* session.connect() clears what a teardown would, unless one is running.
Connects ==
    /\ at' = "connect"
    /\ registered' = (registered /\ old) /\ ctpp' = (ctpp /\ old)
    /\ UNCHANGED link

\* relay.abandon_call() is over: the delay is next, if one is owed.
Abandoned ==
    /\ at = "abandon"
    /\ IF delay = 0 THEN Connects ELSE at' = "sleep" /\ UNCHANGED sessionVars
    /\ UNCHANGED <<why, old, due, failing, hubVars, owner, panel, overlap>>

Slept ==
    /\ at = "sleep"
    /\ Connects
    /\ UNCHANGED <<why, old, due, failing, hubVars, owner, panel, overlap>>

\* _connect has failed and is cleaned up.  A replacement that failed is
\* reported, but not when the failure is no ViperError or OSError: the
\* supervisor logs that and goes on.
Failed(w) ==
    IF owner = "setup"
    THEN /\ at' = "ended"
         /\ owner' = IF w = "viper" THEN "unloading" ELSE "unloaded"
         /\ UNCHANGED hubVars
    ELSE /\ UNCHANGED owner
         /\ IF w = "cancel" THEN at' = "ended" /\ UNCHANGED hubVars
            ELSE LET count == IF w = "auth" THEN refusals + 1 ELSE refusals
                     reauth == w = "auth" /\ count >= Patience
                     down == replacing /\ w # "crash"
                 IN /\ refusals' = count
                    /\ replacing' = (replacing /\ ~down)
                    /\ shown' = IF down THEN Available' ELSE shown
                    /\ UNCHANGED <<born, stillborn>>
                    /\ IF reauth
                       THEN /\ at' = "ended"
                            /\ UNCHANGED <<attempt, delay, immediate, changed, lasted>>
                       ELSE Turn(attempt, immediate, changed)

\* A stage after session.connect() fails: the session is closed first.
Undo(w) ==
    /\ why' = w
    /\ Close("undo", registered /\ at # "register", UNCHANGED <<hubVars, owner>>, Failed(w))

Undone ==
    /\ Closed("undo", Failed(why))
    /\ UNCHANGED <<why, old, due, failing, panel, overlap>>

\* open_connection answers or fails.
ConnectReturns ==
    /\ at = "connect"
    /\ \/ /\ at' = "auth" /\ link' = "up" /\ failing' = FALSE
          /\ lasted' = IF lasted = "none" THEN "young" ELSE lasted
          /\ overlap' = (overlap \/ old)
          /\ UNCHANGED <<registered, ctpp, owner, attempt, delay, immediate, replacing,
                         refusals, born, changed, shown, stillborn>>
       \/ /\ panel = "bad"
          /\ UNCHANGED <<sessionVars, failing, overlap>>
          /\ Failed("viper")
    /\ UNCHANGED <<why, old, due, panel>>

\* Whether the request in progress can be answered, and can fail.
Answered == ~failing /\ link \in {"up", "lost"}
Breaks == failing \/ link # "up" \/ panel = "bad"

Authenticated ==
    /\ at = "auth"
    /\ \/ /\ Answered
          /\ at' = "config" /\ failing' = FALSE
          /\ UNCHANGED <<why, sessionVars, hubVars, owner>>
       \/ /\ Answered /\ panel = "bad"
          /\ Undo("auth")
          /\ UNCHANGED failing
    /\ UNCHANGED <<old, due, panel, overlap>>

\* The configuration, then the CTPP channel, whose handle the session keeps,
\* then the registration's answer.
Goes(from, to) ==
    /\ at = from /\ Answered
    /\ at' = to /\ failing' = FALSE
    /\ ctpp' = (ctpp \/ from = "ctpp")
    /\ UNCHANGED <<why, link, registered, old, due, hubVars, owner, panel, overlap>>

StageFails ==
    /\ at \in Handshake \ {"fin"} /\ Breaks
    /\ Undo("viper")
    /\ UNCHANGED <<old, due, failing, panel, overlap>>

\* A send that waited for the write lock finds no writer.
StageCrashes ==
    /\ at \in {"register", "fin"} /\ ~Connected
    /\ Undo("crash")
    /\ UNCHANGED <<old, due, failing, panel, overlap>>

\* The close of a connection that did not survive being set up.
GaveUp ==
    /\ born' = "none" /\ replacing' = FALSE /\ refusals' = 0
    /\ shown' = Available'
    /\ Turn(attempt, immediate, changed)
    /\ UNCHANGED <<owner, stillborn>>

\* The end of _connect, and what _raise_link or async_setup does with it: a
\* connection that died meanwhile is closed again.
Finish(r) ==
    IF (Connected /\ r) \/ owner = "setup"
    THEN /\ registered' = r /\ UNCHANGED <<link, ctpp>>
         /\ refusals' = 0 /\ replacing' = FALSE /\ born' = "young"
         /\ stillborn' = (stillborn \/ ~(Connected /\ r))
         /\ shown' = Available'
         /\ owner' = "running"
         /\ Turn(attempt, immediate, changed)
    ELSE Close("giveup", r,
               /\ refusals' = 0 /\ replacing' = FALSE /\ born' = "young"
               /\ shown' = Available'
               /\ UNCHANGED <<owner, attempt, delay, immediate, changed, lasted, stillborn>>,
               GaveUp)

\* The registration's FIN is sent, or not: the registration counts.  The
\* panel's device information is awaited when it is not known yet.
Registered ==
    /\ at = "fin"
    /\ due' = FALSE
    /\ \/ Finish(TRUE)
       \/ /\ at' = "discover" /\ registered' = TRUE
          /\ UNCHANGED <<link, ctpp, hubVars, owner>>
    /\ UNCHANGED <<why, old, failing, panel, overlap>>

Discovered ==
    /\ at = "discover"
    /\ Finish(registered)
    /\ UNCHANGED <<why, old, due, failing, panel, overlap>>

GivenUp ==
    /\ Closed("giveup", GaveUp)
    /\ UNCHANGED <<why, old, due, failing, panel, overlap>>

-----------------------------------------------------------------------------
(* The watchdog pass.                                                       *)

\* _drop_connection and _recycle_if_stale after their close.
Dropped == Lowers(FALSE) /\ Turn(Kept, FALSE, TRUE)
Recycled == Lowers(TRUE) /\ Turn(Kept, TRUE, TRUE)

Drop(r) == Close("drop", r, UNCHANGED hubVars, Dropped)

\* The rest of a pass with registered = r: the pass ends, or replaces a
\* connection that is old, when no call is up.
Recycle(r) ==
    \/ /\ registered' = r /\ UNCHANGED <<link, ctpp>>
       /\ Turn(attempt, immediate, changed)
       /\ UNCHANGED <<replacing, shown, born, stillborn, refusals>>
    \/ /\ born = "old"
       /\ Close("recycle", r, UNCHANGED hubVars, Recycled)

\* A panel that has been silent for long is asked something.
Probe(r) ==
    \/ Recycle(r) /\ UNCHANGED failing
    \/ /\ at' = "probe" /\ registered' = r /\ failing' = FALSE
       /\ UNCHANGED <<link, ctpp, hubVars>>

\* Mutant: a connection nobody is registered on is kept.
LapsedDue == due /\ ~ctpp

\* The connection is not registered, or its registration is to be renewed and
\* there is no channel to do it on.
Lapsed == ~registered \/ (due /\ ~ctpp)

\* WATCHDOG_INTERVAL is over, or the event is set.
WatchdogPass ==
    /\ at = "waiting"
    /\ \/ /\ ~Connected
          /\ UNCHANGED <<sessionVars, replacing, shown, born, stillborn, refusals, failing>>
          /\ Turn(attempt, immediate, changed)
       \/ /\ Connected /\ Lapsed
          /\ Drop(registered)
          /\ UNCHANGED failing
       \/ /\ Connected /\ ~Lapsed /\ due
          /\ at' = "refresh" /\ failing' = FALSE
          /\ UNCHANGED <<sessionVars, hubVars>>
       \/ /\ Connected /\ ~Lapsed /\ ~due
          /\ Probe(registered)
    /\ UNCHANGED <<why, old, due, owner, panel, overlap>>

\* refresh_registration gets its answer, sends its FIN, and counts even if
\* the connection is gone by then.
RefreshAnswered ==
    /\ at = "refresh" /\ Answered
    /\ at' = "renewed"
    /\ UNCHANGED <<why, sessionVars, old, due, failing, hubVars, owner, panel, overlap>>

Refreshed ==
    /\ at = "renewed"
    /\ due' = FALSE
    /\ Probe(TRUE)
    /\ UNCHANGED <<why, old, owner, panel, overlap>>

RefreshFails ==
    /\ at = "refresh" /\ Breaks
    /\ Drop(FALSE)
    /\ UNCHANGED <<why, old, due, failing, owner, panel, overlap>>

Probed ==
    /\ at = "probe"
    /\ \/ Answered /\ Recycle(registered)
       \/ Breaks /\ Drop(registered)
    /\ UNCHANGED <<why, old, due, failing, owner, panel, overlap>>

\* A send that waited for the write lock finds no writer.
PassCrashes ==
    /\ at \in {"refresh", "renewed", "probe"} /\ ~Connected
    /\ registered' = (registered /\ at # "refresh")
    /\ UNCHANGED <<why, link, ctpp, old, due, failing, replacing, shown, born, stillborn,
                   refusals, owner, panel, overlap>>
    /\ Turn(attempt, immediate, changed)

DropEnds ==
    /\ Closed("drop", Dropped)
    /\ UNCHANGED <<why, old, due, failing, owner, panel, overlap>>

RecycleEnds ==
    /\ Closed("recycle", Recycled)
    /\ UNCHANGED <<why, old, due, failing, owner, panel, overlap>>

-----------------------------------------------------------------------------
(* The session on its own.                                                  *)

PeerGone ==
    /\ link = "up" /\ panel = "bad"
    /\ link' = "lost"
    /\ UNCHANGED <<at, why, registered, ctpp, old, due, failing, hubVars, owner, panel, overlap>>

\* The reader stops, and tears the session down unless a teardown is running.
ReaderStops ==
    /\ link = "lost"
    /\ IF old THEN link' = "mute" /\ UNCHANGED old ELSE link' = "none" /\ old' = TRUE
    /\ UNCHANGED <<at, why, registered, ctpp, due, failing, hubVars, owner, panel, overlap>>

\* The reader's teardown ends: whatever session there is by now loses its
\* registration, its channel and its waiters, and _on_disconnect is called.
OldEnds ==
    /\ old
    /\ old' = FALSE
    /\ registered' = FALSE /\ ctpp' = FALSE /\ failing' = TRUE
    /\ UNCHANGED link
    /\ IF owner \in {"setup", "running"}
       THEN /\ Lowers(FALSE)
            /\ attempt' = Kept /\ immediate' = FALSE /\ changed' = TRUE
            /\ UNCHANGED <<delay, lasted>>
       ELSE UNCHANGED hubVars
    /\ UNCHANGED <<at, why, due, owner, panel, overlap>>

Older(age) ==
    CASE age = "young" -> "stable" [] age = "stable" -> "old" [] OTHER -> age

\* Time passes: a connection ages, and with it _connected_at.
Ageing ==
    /\ Connected /\ lasted # "old"
    /\ lasted' = Older(lasted) /\ born' = Older(born)
    /\ UNCHANGED <<at, why, sessionVars, old, due, failing, attempt, delay, immediate, replacing,
                   refusals, changed, shown, stillborn, owner, panel, overlap>>

\* So does _connected_at alone, when it was set late or its connection is
\* gone; a teardown takes no time.
StampAges ==
    /\ (Connected /\ lasted = "old") \/ (~Connected /\ ~old /\ at \notin Closing)
    /\ born \notin {"none", "old"}
    /\ born' = Older(born)
    /\ UNCHANGED <<at, why, sessionVars, old, due, failing, attempt, delay, immediate, replacing,
                   refusals, changed, shown, lasted, stillborn, owner, panel, overlap>>

LeaseAges ==
    /\ registered /\ ~due
    /\ due' = TRUE
    /\ UNCHANGED <<at, why, sessionVars, old, failing, hubVars, owner, panel, overlap>>

PanelTurns ==
    /\ panel' = IF panel = "good" THEN "bad" ELSE "good"
    /\ UNCHANGED <<at, why, sessionVars, old, due, failing, hubVars, owner, overlap>>

-----------------------------------------------------------------------------
(* async_shutdown.                                                          *)

\* Mutant: the supervisor is left running.
UnloadLink ==
    /\ owner = "running" /\ owner' = "unloading"
    /\ UNCHANGED <<at, why, sessionVars, old, due, failing, hubVars, panel, overlap>>

\* The reader is stopped and the socket left open: end_task takes the end of
\* the reader for a new cancellation of the supervisor, and cuts the close
\* short.  It does the same, and before the close, with a discovery that is
\* still running.
CloseCut ==
    /\ at' = "ended"
    /\ \/ ~old /\ link \in {"up", "lost"} /\ link' = "mute"
       \/ UNCHANGED link
    /\ UNCHANGED <<registered, ctpp, hubVars>>

\* The supervisor is cancelled where it is.  A _connect past session.connect()
\* still closes the session, if it gets that far; a close it was waiting for
\* is left unfinished.
Unload ==
    /\ owner = "running"
    /\ owner' = "unloading"
    /\ IF at \in Handshake
       THEN /\ why' = "cancel"
            /\ \/ CloseCut
               \/ /\ old \/ link \notin {"up", "lost"}
                  /\ Close("undo", registered, UNCHANGED hubVars, at' = "ended" /\ UNCHANGED hubVars)
       ELSE at' = "ended" /\ UNCHANGED <<why, sessionVars, hubVars>>
    /\ UNCHANGED <<old, due, failing, panel, overlap>>

\* Mutant: the unload leaves the session to the supervisor's cleanup.
UnclosedUnload ==
    /\ owner = "unloading" /\ at = "ended"
    /\ owner' = "unloaded"
    /\ UNCHANGED <<at, why, sessionVars, old, due, failing, hubVars, panel, overlap>>

\* The session is closed last.
FinalClose ==
    /\ owner = "unloading" /\ at = "ended"
    /\ Close("shut", registered, UNCHANGED <<hubVars, owner>>,
             owner' = "unloaded" /\ UNCHANGED <<at, hubVars>>)
    /\ UNCHANGED <<why, old, due, failing, panel, overlap>>

Shut ==
    /\ Closed("shut", owner' = "unloaded" /\ at' = "ended" /\ UNCHANGED hubVars)
    /\ UNCHANGED <<why, old, due, failing, panel, overlap>>

-----------------------------------------------------------------------------

\* The task that builds connections: async_setup, the supervisor, the unload.
TaskStep ==
    \/ ConnectReturns \/ Authenticated
    \/ Goes("config", "ctpp") \/ Goes("ctpp", "register") \/ Goes("register", "fin")
    \/ StageFails \/ StageCrashes \/ Registered \/ Discovered
    \/ Undone \/ GivenUp
    \/ Abandoned \/ Slept
    \/ WatchdogPass \/ RefreshAnswered \/ Refreshed \/ RefreshFails \/ Probed \/ PassCrashes
    \/ DropEnds \/ RecycleEnds
    \/ FinalClose \/ Shut

Next ==
    \/ TaskStep
    \/ PeerGone \/ ReaderStops \/ OldEnds
    \/ Ageing \/ StampAges \/ LeaseAges \/ PanelTurns
    \/ Unload

Spec == Init /\ [][Next]_vars

\* Every await of the task ends (by its answer, its timeout, or its delay), a
\* reader notices the end of its stream, a closed socket is closed in the
\* end, and time passes.  Nothing makes the panel good or bad.
Fairness ==
    /\ WF_vars(TaskStep)
    /\ WF_vars(ReaderStops) /\ WF_vars(OldEnds) /\ WF_vars(LeaseAges)

FairSpec == Spec /\ Fairness

-----------------------------------------------------------------------------
(* Properties.                                                              *)

\* The step chooses a shorter delay than the last.
Shorter == at # "abandon" /\ at' = "abandon" /\ delay' < delay

\* What the entities show is what the hub would answer.  While a connection
\* is being closed, or the reader is still tearing one down, a notification
\* is on its way; apart from that nothing is shown as available that is not,
\* and once the supervisor waits the two agree.  This, too, leaves out a
\* socket opened while an older one was still being torn down.
ShownIsTrue ==
    owner = "running" /\ ~old /\ ~overlap /\ at \notin Closing =>
        /\ shown => Available
        /\ at = "waiting" => shown = Available

\* The delay before a connection attempt is shorter than the one before only
\* after a connection that was stable.  This leaves out an entry whose first
\* connection died while async_setup was at it: nobody clears _connected_at.
BackoffClimbs ==
    [][Shorter => lasted \in {"stable", "old"} \/ stillborn]_vars

\* An entry that is unloaded has no socket, unless one was opened while an
\* older one was still being torn down.
NothingLeft ==
    owner = "unloaded" /\ ~old /\ ~overlap => link = "none"

\* If the panel is well from some time on, the link comes back, registered
\* and with its call channel known, again and again, unless a new token was
\* asked for or the entry unloaded.
Hears == Connected /\ registered /\ ctpp
LinkReturns ==
    <>[](panel = "good") => []<>(Hears \/ at = "ended" \/ owner # "running")

\* An unload ends.
UnloadEnds == owner = "unloading" ~> owner = "unloaded"

=============================================================================
