------------------------------- MODULE Channels -------------------------------
(***************************************************************************)
(* The session's channels (viper/session.py): the pool of handles, counted *)
(* modulo the width of a handle and shared with the panel, open_channel,   *)
(* close_channel and request, the tables of waiters they use, and the      *)
(* teardown that fails them.                                               *)
(*                                                                         *)
(* A user is a task that opens channels: the hub's, whose requests each    *)
(* have a channel of their own (authenticate, get_configuration,           *)
(* server_info), or a video call, which keeps its channels (as start_ctp   *)
(* does those of the link, until the teardown).  Message ids are never     *)
(* reused, so a request can only be given its own answer, and the waiters  *)
(* left behind in _json_waiters change nothing: neither is in the model.   *)
(* Handles are reused, so the waiters in _open_waiters are.                *)
(***************************************************************************)
EXTENDS Naturals, FiniteSets

CONSTANTS Requesters,  \* the tasks that run requests
          Callers,     \* the video calls
          W,      \* how many handles there are: 2^16
          First,  \* FIRST_HANDLE
          Named,  \* bound: the handles the panel names in its own OPENs
          Cuts    \* bound: how many handles cancellations leave behind

MGMT == 0

ASSUME ChannelConstants ==
    /\ W \in Nat \ {0, 1}
    /\ First \in 1..(W - 1)
    /\ Named \subseteq 0..(W - 1)
    /\ Requesters \cap Callers = {}

Users == Requesters \cup Callers
Handles == 0..(W - 1)

VARIABLES
    link,     \* the socket: "up", "closing" (a teardown has taken it), "down"
    next,     \* _handles, the counter
    pool,     \* _open_handles
    openw,    \* the users whose waiter _open_waiters has, under the handle they open
    at,       \* where each user is suspended
    mine,     \* the handle that user is opening, asking on or closing
    held,     \* the other channels it has opened and has to close
    media,    \* media_handle: the handles it reserved, to be closed as well
    remote,   \* remote_media_handle: the channel the panel opened last for it
    asked,    \* the channels the panel was asked to open
    open,     \* the channels of ours the panel has open
    theirs,   \* the channels the panel opened, until we close them
    late,     \* history: handles given up because no ack came in time
    lost,     \* history: handles given up by a cancelled open or a cut close
    clash     \* history: handles taken, unasked, that were in the pool or MGMT

holdVars == <<held, media, remote>>
userVars == <<at, mine, holdVars>>
panelVars == <<asked, open, theirs>>
vars == <<link, next, pool, openw, userVars, panelVars, late, lost, clash>>

TypeOK ==
    /\ link \in {"up", "closing", "down"}
    /\ next \in Handles /\ pool \subseteq Handles /\ openw \subseteq Users
    /\ at \in [Users -> {"idle", "opening", "early", "acking", "acked", "refused", "asking",
                         "answering", "answered", "closing", "shutting"}]
    /\ mine \in [Users -> Handles]
    /\ held \in [Users -> SUBSET Handles] /\ media \in [Users -> SUBSET Handles]
    /\ remote \in [Users -> SUBSET Handles]
    /\ asked \subseteq Handles /\ open \subseteq Handles /\ theirs \subseteq Handles
    /\ late \subseteq Handles /\ lost \subseteq Handles /\ clash \subseteq Handles

Init ==
    /\ link = "up" /\ next = First
    /\ pool = {} /\ openw = {}
    /\ asked = {} /\ open = {} /\ theirs = {}
    /\ late = {} /\ lost = {} /\ clash = {}
    /\ at = [u \in Users |-> "idle"]
    /\ mine = [u \in Users |-> MGMT]
    /\ held = [u \in Users |-> {}] /\ media = [u \in Users |-> {}]
    /\ remote = [u \in Users |-> {}]

-----------------------------------------------------------------------------
(* Operators.                                                               *)

\* Mutant: only our own management handle is skipped.
FreeAny == Handles \ {MGMT}

\* _next_handle.
Free == Handles \ (pool \cup {MGMT})

\* The counter reaches h first of the handles that are free.
Reached(h) ==
    LET Ahead(g) == (g + W - next) % W
    IN  \A g \in Free : Ahead(h) <= Ahead(g)

\* The user leaves what it was doing for s, with nothing in hand.
Leaves(u, s) ==
    /\ at' = [at EXCEPT ![u] = s]
    /\ mine' = [mine EXCEPT ![u] = MGMT]

\* What a user has to close.
Holds(u) == held[u] \cup media[u] \cup remote[u]

\* Where a user goes that has failed: it closes what it has.
Ends(u) == IF Holds(u) = {} THEN "idle" ELSE "closing"

\* What a connection that is gone had open is of no interest.
GivesUp(S) ==
    /\ Cardinality(lost) < Cuts
    /\ lost' = IF link = "up" THEN lost \cup S ELSE {}

Goes(u, s) == at' = [at EXCEPT ![u] = s] /\ UNCHANGED mine

\* The user whose waiter is the one of handle h, if there is one.
WaitersOf(h) == {u \in openw : mine[u] = h}

\* The pool takes a handle that did not come from _next_handle: the set does not
\* tell whether it was there before.
Takes(h) ==
    /\ pool' = pool \cup {h}
    /\ clash' = clash \cup ({h} \cap (pool \cup {MGMT}))

-----------------------------------------------------------------------------
(* open_channel.  On a link that is not up it raises at once, leaving       *)
(* nothing behind.  A call opens its video channel last.                    *)

OpenBegins(u) ==
    /\ at[u] = "idle" /\ link = "up" /\ media[u] = {}
    /\ \E h \in Free :
          /\ Reached(h) /\ next' = (h + 1) % W
          /\ pool' = pool \cup {h} /\ openw' = (openw \ WaitersOf(h)) \cup {u}
          /\ mine' = [mine EXCEPT ![u] = h]
          /\ late' = late \ {h} /\ lost' = lost \ {h}
    /\ at' = [at EXCEPT ![u] = "opening"]
    /\ UNCHANGED <<link, holdVars, panelVars, clash>>

\* The OPEN is written, at once or when the write lock is free.  A late ack of
\* an older OPEN of the handle may have been there first: the user is content.
OpenWritten(u) ==
    /\ at[u] \in {"opening", "early"} /\ link = "up"
    /\ Goes(u, IF at[u] = "opening" THEN "acking" ELSE "acked")
    /\ asked' = asked \cup {mine[u]}
    /\ UNCHANGED <<link, next, pool, openw, holdVars, open, theirs, late, lost, clash>>

\* A task that waited for the lock finds no writer: no except clause of
\* open_channel catches that.
OpenCrashes(u) ==
    /\ at[u] \in {"opening", "early"} /\ link # "up"
    /\ Leaves(u, Ends(u)) /\ openw' = openw \ {u}
    /\ UNCHANGED <<link, next, pool, holdVars, panelVars, late, lost, clash>>

\* Mutant: a failed open keeps its handle.
ForgetsWaiter(u) ==
    /\ openw' = openw \ WaitersOf(mine[u])
    /\ UNCHANGED pool

\* What both except clauses of open_channel do: the waiter goes, whoever's it is.
Forgets(u) ==
    /\ openw' = openw \ WaitersOf(mine[u])
    /\ pool' = pool \ {mine[u]}

\* The write or the drain fails, or the teardown failed the waiter.
OpenFails(u) ==
    /\ u \in Callers \/ held[u] = {}
    /\ (at[u] = "refused" \/ (at[u] = "acking" /\ link # "up"))
    /\ Leaves(u, Ends(u)) /\ Forgets(u)
    /\ UNCHANGED <<link, next, holdVars, panelVars, late, lost, clash>>

\* Mutant: an OPEN waits for its ack as long as it takes.
OpenWaits(u) ==
    /\ at[u] = "acking" /\ u \notin openw
    /\ Leaves(u, Ends(u)) /\ Forgets(u)
    /\ late' = IF link = "up" THEN late \cup {mine[u]} ELSE {}
    /\ UNCHANGED <<link, next, holdVars, panelVars, lost, clash>>

\* No ack within REQUEST_TIMEOUT; the panel may open the channel yet.
OpenTimesOut(u) ==
    /\ at[u] = "acking"
    /\ Leaves(u, Ends(u)) /\ Forgets(u)
    /\ late' = IF link = "up" THEN late \cup {mine[u]} ELSE {}
    /\ UNCHANGED <<link, next, holdVars, panelVars, lost, clash>>

\* A cancellation passes both except clauses: the handle stays in the pool, and
\* so does the waiter, that nobody waits for any more.
OpenCancelled(u) ==
    /\ at[u] \in {"opening", "early", "acking", "acked", "refused"}
    /\ u \in Callers \/ held[u] = {}
    /\ Leaves(u, Ends(u)) /\ openw' = openw \ {u}
    /\ GivesUp({mine[u]})
    /\ UNCHANGED <<link, next, pool, holdVars, panelVars, late, clash>>

\* Mutant: the media handle is not cut to the width of a handle.
MediaUncut(h) == h + 1

\* The handle after a video channel's own, where the panel sends the video.
Media(h) == (h + 1) % W

\* The caller keeps the channel; for a video channel it also has the pool keep
\* the handle of the media (reserve_handle), which may be in use by now, or be
\* the management's.
Keeps(u) ==
    /\ at[u] = "acked" /\ u \in Callers
    /\ held' = [held EXCEPT ![u] = @ \cup {mine[u]}]
    /\ \/ UNCHANGED <<pool, media, clash>>
       \/ /\ media' = [media EXCEPT ![u] = @ \cup {Media(mine[u])}]
          /\ Takes(Media(mine[u]))
    /\ Leaves(u, "idle")
    /\ UNCHANGED <<link, next, openw, remote, panelVars, late, lost>>

-----------------------------------------------------------------------------
(* request, between the open and the close that authenticate,               *)
(* get_configuration and server_info put around it.                         *)

\* The waiter is in the table before the send.
RequestBegins(u) ==
    /\ at[u] = "acked" /\ u \in Requesters
    /\ held' = [held EXCEPT ![u] = {mine[u]}]
    /\ at' = [at EXCEPT ![u] = "asking"]
    /\ UNCHANGED <<link, next, pool, openw, mine, media, remote, panelVars, late, lost, clash>>

RequestWritten(u) ==
    /\ at[u] = "asking" /\ link = "up"
    /\ Goes(u, "answering")
    /\ UNCHANGED <<link, next, pool, openw, holdVars, panelVars, late, lost, clash>>

\* No answer in time: the waiter goes, and the finally closes the channel.
RequestTimesOut(u) ==
    /\ at[u] = "answering"
    /\ Leaves(u, "closing")
    /\ UNCHANGED <<link, next, pool, openw, holdVars, panelVars, late, lost, clash>>

\* The answer is there, the send fails, or the teardown failed the waiter.  A
\* waiter whose send failed stays in the table.
RequestReturns(u) ==
    /\ u \in Requesters /\ held[u] # {}
    /\ \/ at[u] \in {"answered", "refused"}
       \/ at[u] \in {"asking", "answering"} /\ link # "up"
    /\ Leaves(u, "closing")
    /\ UNCHANGED <<link, next, pool, openw, holdVars, panelVars, late, lost, clash>>

\* So does the waiter of one that was cancelled.
RequestCancelled(u) ==
    /\ at[u] \in {"asking", "answering", "answered", "refused"}
    /\ u \in Requesters /\ held[u] # {}
    /\ Leaves(u, "closing")
    /\ UNCHANGED <<link, next, pool, openw, holdVars, panelVars, late, lost, clash>>

-----------------------------------------------------------------------------
(* close_channel, for one channel or, by a call, for all it has.            *)

CloseBegins(u) ==
    /\ at[u] = "idle" /\ Holds(u) # {}
    /\ Goes(u, "closing")
    /\ UNCHANGED <<link, next, pool, openw, holdVars, panelVars, late, lost, clash>>

\* The handle goes back before the CLOSE is written, whoever else has it.  One
\* that a call has twice is closed twice.
CloseChannel(u) ==
    /\ at[u] = "closing"
    /\ \E h \in Holds(u) :
          /\ pool' = pool \ {h} /\ theirs' = theirs \ {h}
          /\ mine' = [mine EXCEPT ![u] = h]
          /\ \/ /\ h \in held[u] /\ held' = [held EXCEPT ![u] = @ \ {h}]
                /\ UNCHANGED <<media, remote>>
             \/ /\ h \in media[u] /\ media' = [media EXCEPT ![u] = @ \ {h}]
                /\ UNCHANGED <<held, remote>>
             \/ /\ h \in remote[u] /\ media[u] = {}
                /\ remote' = [remote EXCEPT ![u] = {}]
                /\ UNCHANGED <<held, media>>
    /\ at' = [at EXCEPT ![u] = "shutting"]
    /\ UNCHANGED <<link, next, openw, asked, open, late, lost, clash>>

\* The CLOSE is written, or fails with the link, which is suppressed.  The
\* panel takes its frames in order: an OPEN before it is dealt with by then.
CloseWritten(u) ==
    /\ at[u] = "shutting"
    /\ open' = IF link = "up" THEN open \ {mine[u]} ELSE open
    /\ asked' = IF link = "up" THEN asked \ {mine[u]} ELSE asked
    /\ Leaves(u, Ends(u))
    /\ UNCHANGED <<link, next, pool, openw, holdVars, theirs, late, lost, clash>>

\* A cancellation, or a writer that is gone after the wait for the lock.
CloseCut(u) ==
    /\ at[u] = "shutting"
    /\ Leaves(u, "idle")
    /\ held' = [held EXCEPT ![u] = {}] /\ media' = [media EXCEPT ![u] = {}]
    /\ remote' = [remote EXCEPT ![u] = {}]
    /\ GivesUp({mine[u]} \cup Holds(u))
    /\ UNCHANGED <<link, next, pool, openw, panelVars, late, clash>>

-----------------------------------------------------------------------------
(* The reader, and the panel behind it.                                     *)

\* An ack takes its waiter from the table; one nobody waits for is ignored.
PanelAcks(h) ==
    /\ link = "up" /\ h \in asked
    /\ asked' = asked \ {h} /\ open' = open \cup {h}
    /\ openw' = openw \ WaitersOf(h)
    /\ at' = [u \in Users |-> IF u \notin WaitersOf(h) THEN at[u]
                              ELSE IF at[u] = "acking" THEN "acked" ELSE "early"]
    /\ UNCHANGED <<link, next, pool, mine, holdVars, theirs, late, lost, clash>>

PanelAnswers(u) ==
    /\ link = "up" /\ at[u] = "answering"
    /\ Goes(u, "answered")
    /\ UNCHANGED <<link, next, pool, openw, holdVars, panelVars, late, lost, clash>>

\* The panel opens a channel on whatever handle it likes.  A call takes it in the
\* place of an earlier one and closes it later; without a call nobody does.
PanelOpens(h) ==
    /\ link = "up"
    /\ theirs' = theirs \cup {h}
    /\ Takes(h)
    /\ \/ UNCHANGED remote
       \/ \E u \in Callers : /\ at[u] \notin {"closing", "shutting"}
                             /\ remote' = [remote EXCEPT ![u] = {h}]
    /\ UNCHANGED <<link, next, openw, at, mine, held, media, asked, open, late, lost>>

\* _teardown takes the writer.  The panel forgets a connection with its socket.
TeardownBegins ==
    /\ link = "up"
    /\ link' = "closing"
    /\ asked' = {} /\ open' = {} /\ theirs' = {}
    /\ late' = {} /\ lost' = {}
    /\ UNCHANGED <<next, pool, openw, userVars, clash>>

\* Mutant: the requests are forgotten.
FailsOpens(u) == at[u] = "acking" /\ u \in openw

\* _fail_waiters: the users whose waiter is in a table.
FailsWaiter(u) == at[u] = "answering" \/ (at[u] = "acking" /\ u \in openw)

TeardownEnds ==
    /\ link = "closing"
    /\ link' = "down"
    /\ at' = [u \in Users |-> IF FailsWaiter(u) THEN "refused" ELSE at[u]]
    /\ pool' = {} /\ openw' = {}
    /\ UNCHANGED <<next, mine, holdVars, panelVars, late, lost, clash>>

\* connect(): by the one user that requests, after the other was ended.
Connects ==
    /\ link = "down"
    /\ \A u \in Users : at[u] = "idle" /\ Holds(u) = {}
    /\ link' = "up" /\ next' = First
    /\ pool' = {} /\ openw' = {} /\ clash' = {}
    /\ UNCHANGED <<userVars, panelVars, late, lost>>

-----------------------------------------------------------------------------

\* What the event loop and the timeouts do for a user sooner or later.
Steps(u) ==
    \/ OpenWritten(u) \/ OpenCrashes(u) \/ OpenFails(u) \/ OpenTimesOut(u)
    \/ Keeps(u) \/ RequestBegins(u) \/ RequestWritten(u) \/ RequestTimesOut(u)
    \/ RequestReturns(u) \/ CloseChannel(u) \/ CloseWritten(u)

Next ==
    \/ \E u \in Users : \/ Steps(u) \/ OpenBegins(u) \/ OpenCancelled(u)
                        \/ RequestCancelled(u) \/ CloseBegins(u) \/ CloseCut(u)
                        \/ PanelAnswers(u)
    \/ \E h \in Handles : PanelAcks(h)
    \/ \E h \in Named : PanelOpens(h)
    \/ TeardownBegins \/ TeardownEnds \/ Connects

Spec == Init /\ [][Next]_vars

FairSpec ==
    /\ Spec
    /\ \A u \in Users : WF_vars(Steps(u))
    /\ WF_vars(TeardownEnds)

-----------------------------------------------------------------------------

\* What a user has of the channels, and what it is about to let go of.
Opening(u) == IF at[u] \in {"opening", "early", "acking", "acked"} THEN {mine[u]} ELSE {}
Owned(u) == Holds(u) \cup Opening(u)
Shutting(u) == IF at[u] = "shutting" THEN {mine[u]} ELSE {}

\* What comes to two users, is handed out while in use or is the management's
\* was put there by reserve_handle or by the panel's OPEN, neither of which looks
\* whether the handle is in the pool; late acks, timeouts, cancellations and
\* closes of the other channels do not bring it about: _next_handle over the pool
\* they add to and take from.
HandlesApart ==
    link = "up" =>
        \A u \in Users :
            /\ Owned(u) \subseteq (pool \ {MGMT}) \cup clash
            /\ Opening(u) \cap (Holds(u) \cup theirs) \subseteq clash
            /\ \A v \in Users \ {u} : Owned(u) \cap Owned(v) \subseteq clash

\* While a connection lives, every handle in the pool is a user's, the panel's,
\* or was left by a cancellation; every channel of ours the panel has or was
\* asked for is a user's, came too late, or was left by a cancellation.  The
\* other error paths of open_channel, request and close_channel leak nothing,
\* and neither does a handle that two have.
NothingLeaks ==
    link = "up" =>
        /\ asked \cup open \subseteq late \cup lost
                                  \cup UNION {Owned(u) \cup Shutting(u) : u \in Users}
        /\ pool \subseteq lost \cup theirs \cup UNION {Owned(u) : u \in Users}

\* Once a teardown is over nobody waits for an answer of the panel: whoever
\* was in the tables was failed, whoever was sending finds no writer.  The waiter
\* of an open that shares its handle may be gone from the table: that one waits
\* for its timeout.
DownIsDeaf ==
    link = "down" => \A u \in Users : /\ at[u] # "answering"
                                      /\ at[u] = "acking" => mine[u] \in clash

\* Every open, request and close comes to its end, whatever the panel leaves
\* unanswered and whenever the link is lost.
UsersReturn == \A u \in Users : at[u] # "idle" ~> at[u] = "idle"
===============================================================================
