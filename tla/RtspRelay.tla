------------------------------- MODULE RtspRelay -------------------------------
(***************************************************************************)
(* The relay that serves the panel's video to RTSP clients (rtsp.py).  The *)
(* panel allows one call, so requests start or join an episode; one task   *)
(* per episode dials, relays, redials when the panel hangs up and closes;  *)
(* an idle watcher ends it when the viewers are gone; the supervisor, or   *)
(* stop(), cancels it.                                                     *)
(*                                                                         *)
(* An action is a task's run from one await to the next.  A cancellation   *)
(* is delivered where the task next runs.  Requests that change nothing    *)
(* (OPTIONS, SETUP, a path nobody serves, a call busy elsewhere) and the   *)
(* packets themselves are left out.                                        *)
(***************************************************************************)
EXTENDS FiniteSets, Integers

CONSTANTS Clients,    \* RTSP connections, each reused once it is gone
          Remote,     \* those that do not come from loopback
          Captures,   \* the hub's captures, which dial through prepare()
          Targets,    \* the entrances
          Episodes,   \* bound: the episodes alive or waited for at a time
          MaxRemote,  \* MAX_REMOTE_CLIENTS
          LinkFails,  \* whether the connection to the panel can be lost
          None

Askers == Clients \cup Captures

ASSUME RelayConstants ==
    /\ Remote \subseteq Clients /\ IsFiniteSet(Clients)
    /\ Clients \cap Captures = {}
    /\ MaxRemote \in Nat /\ LinkFails \in BOOLEAN
    /\ None \notin Episodes

VARIABLES
    current,    \* _episode
    phase,      \* where each episode's _serve is suspended
    target,     \* episode.target
    ready,      \* episode.ready and .failure: "no", "yes", "failed"; "never":
                \* not set, and nobody is left who would
    cancelled,  \* a cancellation waits for the episode's task
    pumped,     \* the pump of the episode's call is over
    idler,      \* where the idle watcher of the episode's call is
    at,         \* where each client's handler, or a capture, is
    joined,     \* the episode it waits for
    wants,      \* and for what
    clients,    \* _clients
    playing,    \* those of them that play
    idle,       \* the event _idle
    stop,       \* how far stop() is
    again,      \* history: the episode has dialled again for its viewers
    sees        \* history: the entrance a client has last asked for

episodeVars == <<current, phase, target, ready, cancelled, pumped, idler, again>>
askVars == <<at, joined, wants>>
listVars == <<clients, playing, idle>>
clientVars == <<listVars, sees>>
vars == <<episodeVars, askVars, clientVars, stop>>

Alive == {"new", "dial", "undial", "relay", "ending", "close", "final"}

TypeOK ==
    /\ current \in Episodes \cup {None}
    /\ phase \in [Episodes -> Alive \cup {"done"}]
    /\ target \in [Episodes -> Targets \cup {None}]
    /\ ready \in [Episodes -> {"no", "yes", "failed", "never"}]
    /\ cancelled \in [Episodes -> BOOLEAN]
    /\ pumped \in [Episodes -> BOOLEAN]
    /\ idler \in [Episodes -> {"new", "waiting", "sleeping", "done"}]
    /\ again \in [Episodes -> BOOLEAN]
    /\ at \in [Askers -> {"away", "reading", "asking"}]
    /\ joined \in [Askers -> Episodes \cup {None}]
    /\ wants \in [Askers -> {"describe", "play", "prepare"}]
    /\ clients \subseteq Clients /\ playing \subseteq clients
    /\ idle \in BOOLEAN /\ sees \in [Clients -> Targets \cup {None}]
    /\ stop \in {"no", "clients", "done"}

Init ==
    /\ current = None
    /\ phase = [e \in Episodes |-> "done"]
    /\ target = [e \in Episodes |-> None]
    /\ ready = [e \in Episodes |-> "no"]
    /\ cancelled = [e \in Episodes |-> FALSE]
    /\ pumped = [e \in Episodes |-> FALSE]
    /\ idler = [e \in Episodes |-> "new"]
    /\ again = [e \in Episodes |-> FALSE]
    /\ at = [a \in Askers |-> "away"]
    /\ joined = [a \in Askers |-> None]
    /\ wants = [a \in Askers |-> "prepare"]
    /\ clients = {} /\ playing = {} /\ idle = FALSE
    /\ sees = [c \in Clients |-> None]
    /\ stop = "no"

-----------------------------------------------------------------------------

\* Mutant: an episode whose call is being closed counts as over.
ServingCall == current # None /\ phase[current] \in {"new", "dial", "undial", "relay"}

\* The episode _live() returns, if there is one.
Serving == current # None /\ phase[current] \in Alive

\* Mutant: the client is taken off the list but still counts as playing.
DropPlaying(c) ==
    /\ clients' = clients \ {c}
    /\ idle' = (idle \/ playing \ {c} = {})
    /\ UNCHANGED <<playing, sees>>

\* _drop: the client stops counting.  Its handler notices on its own.
Drop(c) ==
    /\ clients' = clients \ {c}
    /\ playing' = playing \ {c}
    /\ idle' = (idle \/ playing \ {c} = {})
    /\ sees' = [sees EXCEPT ![c] = None]

\* What the clients have asked to see, once a asks for t.
Asked(a, t) == IF a \in Clients THEN [sees EXCEPT ![a] = t] ELSE sees

\* What a request does once _ensure_call(e) has returned or raised.
Answered(a, w, e, s) ==
    /\ joined' = [joined EXCEPT ![a] = None]
    /\ wants' = [wants EXCEPT ![a] = "prepare"]
    /\ \/ /\ a \in Captures
          /\ at' = [at EXCEPT ![a] = "away"]
          /\ sees' = s /\ UNCHANGED listVars
       \/ /\ a \in clients
          /\ at' = [at EXCEPT ![a] = "reading"]
          /\ IF w = "play" /\ ready[e] = "yes"
             THEN playing' = playing \cup {a} ELSE UNCHANGED playing
          /\ sees' = s /\ UNCHANGED <<clients, idle>>
       \/ /\ a \in Clients \ clients
          /\ at' = [at EXCEPT ![a] = "away"]
          /\ Drop(a)

Waits(a, w, e, s) ==
    /\ at' = [at EXCEPT ![a] = "asking"]
    /\ joined' = [joined EXCEPT ![a] = e]
    /\ wants' = [wants EXCEPT ![a] = w]
    /\ sees' = s /\ UNCHANGED listVars

\* _ensure_call joins the episode that is alive.  An episode whose first call
\* is up lets the request through at once.
Join(a, w, t) ==
    /\ Serving /\ target[current] = t
    /\ IF ready[current] = "no" THEN Waits(a, w, current, Asked(a, t))
       ELSE Answered(a, w, current, Asked(a, t))
    /\ UNCHANGED episodeVars

\* It creates one when none is.
Begin(a, w, t, e) ==
    /\ ~Serving
    /\ phase[e] = "done" /\ e # current /\ \A b \in Askers : joined[b] # e
    /\ current' = e
    /\ phase' = [phase EXCEPT ![e] = "new"]
    /\ target' = [target EXCEPT ![e] = t]
    /\ ready' = [ready EXCEPT ![e] = "no"]
    /\ cancelled' = [cancelled EXCEPT ![e] = FALSE]
    /\ Waits(a, w, e, Asked(a, t))
    /\ UNCHANGED <<pumped, idler, again>>

\* DESCRIBE and PLAY by a client, prepare() by a capture.
Request(a) ==
    /\ \E t \in Targets, w \in {"describe", "play", "prepare"} :
          /\ a \in Clients => at[a] = "reading" /\ w # "prepare"
          /\ a \in Captures => at[a] = "away" /\ w = "prepare"
          /\ Join(a, w, t) \/ \E e \in Episodes : Begin(a, w, t, e)
    /\ UNCHANGED stop

\* The episode's event wakes the request.
Answer(a) ==
    /\ at[a] = "asking" /\ ready[joined[a]] \in {"yes", "failed"}
    /\ Answered(a, wants[a], joined[a], sees)
    /\ UNCHANGED <<episodeVars, stop>>

\* The requests that an episode's event has woken run before anything that
\* came after it: the event loop is a queue.
Settled(e) == ~\E a \in Askers : at[a] = "asking" /\ joined[a] = e /\ ready[e] \in {"yes", "failed"}

-----------------------------------------------------------------------------
(* _serve.                                                                  *)

\* The task is over; nobody looks at the rest of the episode any more.
IsOver(e) ==
    /\ phase' = [phase EXCEPT ![e] = "done"]
    /\ target' = [target EXCEPT ![e] = None]
    /\ cancelled' = [cancelled EXCEPT ![e] = FALSE]
    /\ idler' = [idler EXCEPT ![e] = "new"]
    /\ again' = [again EXCEPT ![e] = FALSE]

\* The end of the task: its finally forgets the episode.
Finishes(e) ==
    /\ IsOver(e)
    /\ current' = IF current = e THEN None ELSE current

\* The task goes on to its next await.
Goes(e, to) ==
    /\ phase' = [phase EXCEPT ![e] = to]
    /\ cancelled' = [cancelled EXCEPT ![e] = FALSE]
    /\ UNCHANGED <<current, target>>

\* A task cancelled before it first runs never enters its try.
Starts(e) ==
    /\ phase[e] = "new"
    /\ \/ /\ cancelled[e]
          /\ ready' = [ready EXCEPT ![e] = "never"]
          /\ IsOver(e)
          /\ UNCHANGED current
       \/ /\ ~cancelled[e]
          /\ Goes(e, "dial")
          /\ UNCHANGED <<ready, idler, again>>
    /\ UNCHANGED <<pumped, askVars, clientVars, stop>>

\* The call is up: the pump and the idle watcher are created.
Dialled(e) ==
    /\ phase[e] = "dial" /\ ~cancelled[e]
    /\ Goes(e, "relay")
    /\ ready' = [ready EXCEPT ![e] = "yes"]
    /\ UNCHANGED <<pumped, idler, again, askVars, clientVars, stop>>

\* The first dial's failure is the episode's; a redial's is only logged.
DialFails(e) ==
    /\ phase[e] = "dial" /\ ~cancelled[e]
    /\ ready' = [ready EXCEPT ![e] = IF @ = "no" THEN "failed" ELSE @]
    /\ Finishes(e)
    /\ UNCHANGED <<pumped, askVars, clientVars, stop>>

\* VideoCall.open closes what it has opened before it gives up.
DialCancelled(e) ==
    /\ phase[e] = "dial" /\ cancelled[e]
    /\ Goes(e, "undial")
    /\ UNCHANGED <<ready, pumped, idler, again, askVars, clientVars, stop>>

\* Mutant: a cancelled dial leaves without setting the event.
UndialledSilent(e) ==
    /\ phase[e] = "undial"
    /\ Finishes(e)
    /\ UNCHANGED <<ready, pumped, askVars, clientVars, stop>>

Undialled(e) ==
    /\ phase[e] = "undial"
    /\ ready' = [ready EXCEPT ![e] = IF @ = "no" THEN "yes" ELSE @]
    /\ Finishes(e)
    /\ UNCHANGED <<pumped, askVars, clientVars, stop>>

\* The clients have left: what _relay_call returns.
Left(e) == idler[e] = "done"

\* _relay_call goes on when the pump or the idle watcher has ended, or it is
\* cancelled; it stops both.
RelayEnds(e) ==
    /\ phase[e] = "relay" /\ Settled(e)
    /\ IF cancelled[e] THEN Goes(e, "final")
       ELSE (pumped[e] \/ Left(e)) /\ Goes(e, "ending")
    /\ pumped' = [pumped EXCEPT ![e] = FALSE]
    /\ idler' = [idler EXCEPT ![e] = IF Left(e) /\ ~cancelled[e] THEN "done" ELSE "new"]
    /\ UNCHANGED <<ready, again, askVars, clientVars, stop>>

\* Both are over: the call is closed, by the finally if the task is cancelled.
Ended(e) ==
    /\ phase[e] = "ending"
    /\ Goes(e, IF cancelled[e] THEN "final" ELSE "close")
    /\ UNCHANGED <<ready, pumped, idler, again, askVars, clientVars, stop>>

\* The call is closed, or its close is cut short: the episode is over, or
\* dials again for the viewers that are left.
Closed(e) ==
    /\ phase[e] = "close"
    /\ IF cancelled[e] \/ Left(e) \/ playing = {} THEN Finishes(e)
       ELSE Goes(e, "dial") /\ again' = [again EXCEPT ![e] = TRUE] /\ UNCHANGED idler
    /\ UNCHANGED <<ready, pumped, askVars, clientVars, stop>>

\* The finally of a cancelled episode.  Its close is cut short, and with it
\* the rest of the finally, by a second cancellation or, since end_task takes
\* the end of the call's tasks for one, when any of these is still running;
\* or the second cancellation comes before the close.
Finalised(e) ==
    /\ phase[e] = "final"
    /\ \/ ~cancelled[e] /\ Finishes(e)
       \/ cancelled[e] /\ Goes(e, "final") /\ UNCHANGED <<idler, again>>
       \/ IsOver(e) /\ UNCHANGED current
    /\ UNCHANGED <<ready, pumped, askVars, clientVars, stop>>

-----------------------------------------------------------------------------
(* The pump and the idle watcher of a call.                                 *)

\* The panel ends the call, or the pump fails.
PumpEnds(e) ==
    /\ phase[e] = "relay" /\ ~pumped[e] /\ Settled(e)
    /\ pumped' = [pumped EXCEPT ![e] = TRUE]
    /\ UNCHANGED <<current, phase, target, ready, cancelled, idler, again, askVars, clientVars, stop>>

\* _fan_out drops a client that is backed up or cannot be written to.
PumpDrops(e, c) ==
    /\ phase[e] = "relay" /\ ~pumped[e] /\ Settled(e) /\ c \in playing
    /\ Drop(c)
    /\ UNCHANGED <<episodeVars, askVars, stop>>

\* Mutant: the watcher waits for the event even when there is no client.
IdlerWaits(e) ==
    /\ phase[e] = "relay" /\ Settled(e)
    /\ \/ idler[e] = "new"
       \/ idler[e] = "sleeping" /\ playing # {}
    /\ idle' = FALSE
    /\ idler' = [idler EXCEPT ![e] = "waiting"]
    /\ UNCHANGED <<current, phase, target, ready, cancelled, pumped, again, askVars, clients, playing, sees, stop>>

\* The watcher clears the event, and waits for it while there are clients.
IdlerTurns(e) ==
    /\ phase[e] = "relay" /\ Settled(e)
    /\ \/ idler[e] = "new"
       \/ idler[e] = "sleeping" /\ playing # {}
    /\ idle' = FALSE
    /\ idler' = [idler EXCEPT ![e] = IF clients # {} THEN "waiting" ELSE "sleeping"]
    /\ UNCHANGED <<current, phase, target, ready, cancelled, pumped, again, askVars, clients, playing, sees, stop>>

IdlerWakes(e) ==
    /\ phase[e] = "relay" /\ idler[e] = "waiting" /\ idle
    /\ idler' = [idler EXCEPT ![e] = "sleeping"]
    /\ UNCHANGED <<current, phase, target, ready, cancelled, pumped, again, askVars, clientVars, stop>>

\* IDLE_GRACE is over and nobody plays.
IdlerReturns(e) ==
    /\ phase[e] = "relay" /\ idler[e] = "sleeping" /\ playing = {}
    /\ idler' = [idler EXCEPT ![e] = "done"]
    /\ UNCHANGED <<current, phase, target, ready, cancelled, pumped, again, askVars, clientVars, stop>>

-----------------------------------------------------------------------------
(* Clients come and go; the hub abandons the call and stops the relay.      *)

Admit(c) == c \in Remote => Cardinality(clients \cap Remote) < MaxRemote

Connect(c) ==
    /\ at[c] = "away" /\ stop = "no" /\ Admit(c)
    /\ at' = [at EXCEPT ![c] = "reading"]
    /\ clients' = clients \cup {c}
    /\ UNCHANGED <<episodeVars, joined, wants, playing, idle, sees, stop>>

\* Mutant: the handler of a client that leaves does not take it off the list.
LeaveListed(c) ==
    /\ at[c] = "reading"
    /\ at' = [at EXCEPT ![c] = "away"]
    /\ UNCHANGED <<episodeVars, joined, wants, clientVars, stop>>

\* TEARDOWN, the end of the stream, a bad request, or a client dropped before.
Leave(c) ==
    /\ at[c] = "reading"
    /\ at' = [at EXCEPT ![c] = "away"]
    /\ Drop(c)
    /\ UNCHANGED <<episodeVars, joined, wants, stop>>

\* The supervisor waits for the episode it has cancelled.
Abandoned == Serving /\ (cancelled[current] \/ phase[current] \in {"undial", "final"})

\* abandon_call, by the supervisor, when the connection to the panel is gone.
Abandon ==
    /\ LinkFails /\ stop = "no" /\ Serving /\ ~Abandoned
    /\ cancelled' = [cancelled EXCEPT ![current] = TRUE]
    /\ UNCHANGED <<current, phase, target, ready, pumped, idler, again, askVars, clientVars, stop>>

\* async_shutdown cancels the supervisor, and with it, once more, what the
\* supervisor waits for; then stop() closes the listener.
Stop ==
    /\ stop = "no" /\ stop' = "clients"
    /\ cancelled' = IF Abandoned THEN [cancelled EXCEPT ![current] = TRUE] ELSE cancelled
    /\ UNCHANGED <<current, phase, target, ready, pumped, idler, again, askVars, clientVars>>

\* A handler is cancelled wherever it is.
CancelHandler(c) ==
    /\ stop = "clients" /\ at[c] # "away"
    /\ at' = [at EXCEPT ![c] = "away"]
    /\ joined' = [joined EXCEPT ![c] = None]
    /\ wants' = [wants EXCEPT ![c] = "prepare"]
    /\ Drop(c)
    /\ UNCHANGED <<episodeVars, stop>>

\* The handlers are over; the call is abandoned last.
StopCall ==
    /\ stop = "clients" /\ \A c \in Clients : at[c] = "away"
    /\ stop' = "done"
    /\ clients' = {} /\ playing' = {}
    /\ cancelled' = IF Serving THEN [cancelled EXCEPT ![current] = TRUE] ELSE cancelled
    /\ UNCHANGED <<current, phase, target, ready, pumped, idler, again, askVars, idle, sees>>

-----------------------------------------------------------------------------

ServeStep(e) ==
    \/ Starts(e) \/ Dialled(e) \/ DialFails(e) \/ DialCancelled(e) \/ Undialled(e)
    \/ RelayEnds(e) \/ Ended(e) \/ Closed(e) \/ Finalised(e)

IdlerStep(e) == IdlerTurns(e) \/ IdlerWakes(e) \/ IdlerReturns(e)

Next ==
    \/ \E e \in Episodes :
          ServeStep(e) \/ IdlerStep(e) \/ PumpEnds(e) \/ \E c \in Clients : PumpDrops(e, c)
    \/ \E a \in Askers : Request(a) \/ Answer(a)
    \/ \E c \in Clients : Connect(c) \/ Leave(c) \/ CancelHandler(c)
    \/ Abandon \/ Stop \/ StopCall

Spec == Init /\ [][Next]_vars

\* A dial and a close end (their waits have timeouts), the idle watcher's
\* sleep ends, a request that can go on does, and stop() does its work.
\* The panel may keep a call up for ever, and a client may stay.
Fairness ==
    /\ \A e \in Episodes : WF_vars(ServeStep(e)) /\ WF_vars(IdlerStep(e))
    /\ \A a \in Askers : WF_vars(Answer(a))
    /\ \A c \in Clients : WF_vars(CancelHandler(c))
    /\ WF_vars(StopCall)

FairSpec == Spec /\ Fairness

-----------------------------------------------------------------------------
(* Properties.                                                              *)

\* The panel allows one call: no two episodes have one up, being set up or
\* being closed at a time, whatever joins, leaves and is cancelled.
HasCall(e) == phase[e] \in Alive \ {"new"}
OneCall == \A e, f \in Episodes : HasCall(e) /\ HasCall(f) => e = f

\* A client that counts, against the cap or as a viewer, has a handler that
\* will take it off the list; nobody counts once the relay is stopped.
Accounted ==
    /\ \A c \in clients : at[c] # "away"
    /\ stop = "done" => clients = {}

\* A request that waits for a call is answered, unless the task that was to
\* serve it was cancelled before it first ran.
RequestsAnswered ==
    \A a \in Askers : at[a] = "asking" ~> (at[a] # "asking" \/ ready[joined[a]] = "never")

\* A call does not outlive the clients: while none is connected, the episode
\* comes to its end.
CallEnds == []<>(clients # {} \/ ~Serving)

-----------------------------------------------------------------------------
(* What the repository says, and the code does not keep.                    *)

\* README.md:157: "The first entrance is served at /comelit and every other one
\* at /comelit/<its ViP address>".  While a call is relayed, whoever plays has
\* last asked for the entrance the call is towards: _fan_out writes to all of
\* them.
SeesItsOwn ==
    \A e \in Episodes, c \in playing :
        phase[e] = "relay" /\ at[c] = "reading" => sees[c] = target[e]

\* README.md:117: a call "ends a couple of seconds after the last viewer
\* leaves", when that is, and whoever else is connected.  An episode that has
\* dialled again for its viewers does not go on for ever without any.
LastViewerEnds == []<>(playing # {} \/ ~Serving \/ ~again[current])

=============================================================================
