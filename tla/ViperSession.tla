---------------------------- MODULE ViperSession ----------------------------
(***************************************************************************)
(* One ViperSession (viper/session.py): the CTP connections routed by id,  *)
(* the reader task that dispatches the panel's frames, the watcher task of *)
(* each inbound call, the tasks of outbound transactions (a door release,  *)
(* a registration), the write lock they share, and the teardown that any   *)
(* of them may run into.                                                   *)
(*                                                                         *)
(* asyncio runs one task at a time and switches only at an await that      *)
(* really suspends, so an action is a task's run from one suspension to    *)
(* the next.  A send suspends when the write lock is held or the transport *)
(* is paused; otherwise it completes within the action.                    *)
(***************************************************************************)
EXTENDS Naturals, Sequences, FiniteSets

CONSTANTS Conns,     \* CtpConnection objects; each is created at most once
          Ids,       \* connection ids, as keys of _connections
          NoConn, NoId,
          MaxLinks,  \* bound: TCP connections opened
          MaxInbox   \* bound: packets the panel leaves in one inbox

\* The reader as a holder of the write lock; the other holders are the tasks
\* of connections.
Reader == "reader"

ASSUME SessionConstants ==
    /\ NoConn \notin Conns
    /\ NoId \notin Ids
    /\ Reader \notin Conns
    /\ MaxLinks \in Nat
    /\ MaxInbox \in Nat

VARIABLES
    kind,        \* what each connection is for
    id,          \* peer_id of each connection
    step,        \* where the task of each connection is
    inbox,       \* CtpConnection.inbox: packets, or End for the None sentinel
    failed,      \* CtpConnection.failed
    ends,        \* how often on_call_end was called for the connection's call
    reported,    \* CtpConnection.end_reported
    routes,      \* ViperSession._connections
    callTasks,   \* ViperSession._call_tasks, by connection
    registration,\* ViperSession._registration
    previous,    \* the local `previous` of the _register that is running
    registered,  \* registered_at is not None
    ctpp,        \* _ctpp_handle is not None
    sock,        \* _writer: "none", "open", or "broken" (the peer is gone)
    channel,     \* the panel has opened the CTPP channel of the current link
    eof,         \* the reader's stream has ended
    rd,          \* the reader task that _reader_task names
    lockq,       \* the holder of _write_lock, then the tasks waiting for it
    draining,    \* the holder has written and waits for drain()
    tear,        \* the teardown in progress (_tearing_down), if any
    pending,     \* call tasks that teardown has still to end
    owner,       \* what the task that owns the session is doing
    links        \* TCP connections opened so far

\* Variables that change together: what a task's end changes, the write lock,
\* the link and its reader, the teardown and the owner.
taskVars == <<step, routes, ends, callTasks, registered>>
lockVars == <<lockq, draining>>
linkVars == <<sock, channel, eof, rd>>
tearVars == <<tear, pending, owner, links>>
vars == <<kind, id, step, inbox, failed, ends, reported, routes, callTasks,
          registration, previous, registered, ctpp, sock, channel, eof, rd,
          lockq, draining, tear, pending, owner, links>>

Kinds == {"unused", "inbound", "door", "register"}
\* A packet is what its receiver tells apart: a RELEASE, a FIN, the answer to
\* a registration.  Others are taken and ignored by every waiter.
Packets == {"release", "fin", "answer"}
End == "end"    \* the None that fail() queues
\* A repeat of the INVITE a call came with; only calls carry a call id.
Repeat == "invite"
\* "acking": the reader is acknowledging the INVITE; "created": the watcher
\* task exists and has not run; "syn", "wait", "fin": sending the first
\* packet, waiting on the inbox, sending the FIN; "lost": the task that would
\* have reported the call's end is gone without doing so; "left": cancelled
\* without releasing its connection.
Steps == {"none", "acking", "created", "syn", "wait", "fin", "done", "lost", "left"}
Outcomes == {"done", "raised", "crashed", "queued", "draining"}
ReaderSteps == {"off", "idle", "accept", "route", "renew", "stray", "dead"}

TypeOK ==
    /\ kind \in [Conns -> Kinds]
    /\ id \in [Conns -> Ids \cup {NoId}]
    /\ step \in [Conns -> Steps]
    /\ inbox \in [Conns -> Seq(Packets \cup {End})]
    /\ failed \in [Conns -> BOOLEAN]
    /\ ends \in [Conns -> Nat]
    /\ reported \in [Conns -> BOOLEAN]
    /\ routes \in [Ids -> Conns \cup {NoConn}]
    /\ callTasks \in SUBSET Conns
    /\ registration \in Conns \cup {NoConn}
    /\ previous \in Conns \cup {NoConn}
    /\ registered \in BOOLEAN
    /\ ctpp \in BOOLEAN
    /\ sock \in {"none", "open", "broken"}
    /\ channel \in BOOLEAN
    /\ eof \in BOOLEAN
    /\ rd \in [step : ReaderSteps, conn : Conns \cup {NoConn}, pkt : Packets \cup {End, Repeat}]
    /\ lockq \in Seq(Conns \cup {Reader})
    /\ draining \in BOOLEAN
    /\ tear \in [by : {"none", "reader", "owner"}, step : {"none", "ending", "closing"}]
    /\ pending \in SUBSET Conns
    /\ owner \in {"idle", "closing", "connecting", "opening", "starting"}
    /\ links \in 0..MaxLinks

NoTear == [by |-> "none", step |-> "none"]
At(s) == [step |-> s, conn |-> NoConn, pkt |-> End]

Init ==
    /\ kind = [c \in Conns |-> "unused"]
    /\ id = [c \in Conns |-> NoId]
    /\ step = [c \in Conns |-> "none"]
    /\ inbox = [c \in Conns |-> <<>>]
    /\ failed = [c \in Conns |-> FALSE]
    /\ ends = [c \in Conns |-> 0]
    /\ reported = [c \in Conns |-> FALSE]
    /\ routes = [i \in Ids |-> NoConn]
    /\ callTasks = {}
    /\ registration = NoConn
    /\ previous = NoConn
    /\ registered = FALSE
    /\ ctpp = FALSE
    /\ sock = "none"
    /\ channel = FALSE
    /\ eof = FALSE
    /\ rd = At("off")
    /\ lockq = <<>>
    /\ draining = FALSE
    /\ tear = NoTear
    /\ pending = {}
    /\ owner = "idle"
    /\ links = 0

-----------------------------------------------------------------------------
(* Sending: CtpConnection.send, send_ctp and _send_frame.                   *)

\* How a send can turn out that finds the lock with queue q.  It raises at
\* once for a failed connection, without a CTPP channel, or without a writer;
\* a writer whose transport is closing raises, one whose peer has merely hung
\* up may not.
Starts(isFailed, q) ==
    IF isFailed \/ ~ctpp \/ sock = "none" THEN {"raised"}
    ELSE (IF q = <<>> THEN {"done", "draining"} ELSE {"queued"})
         \cup (IF sock = "broken" THEN {"raised"} ELSE {})

\* Mutant: an error of the transport is not turned into a ViperError.
ResumesCrashed ==
    IF draining THEN {"done"} \cup (IF sock = "open" THEN {} ELSE {"crashed"})
    ELSE IF sock = "none" THEN {"crashed"}
    ELSE {"done", "draining"} \cup (IF sock = "broken" THEN {"crashed"} ELSE {})

\* How a suspended send can turn out for the holder of the lock.  Having
\* waited for the lock it uses _writer as it is now: None is an
\* AttributeError, which no ViperError handler catches.
Resumes ==
    IF draining THEN {"done"} \cup (IF sock = "open" THEN {} ELSE {"raised"})
    ELSE IF sock = "none" THEN {"crashed"}
    ELSE {"done", "draining"} \cup (IF sock = "broken" THEN {"raised"} ELSE {})

Suspended(o) == o \in {"queued", "draining"}
Holds(t) == lockq # <<>> /\ Head(lockq) = t

\* Task t starts a send with outcome o.
StartSend(t, o) ==
    /\ lockq' = IF Suspended(o) THEN Append(lockq, t) ELSE lockq
    /\ draining' = (draining \/ o = "draining")

\* The holder's send goes on with outcome o.
ResumeSend(o) ==
    /\ lockq' = IF Suspended(o) THEN lockq ELSE Tail(lockq)
    /\ draining' = (o = "draining")

Without(q, t) ==
    IF \E k \in 1..Len(q) : q[k] = t
    THEN LET k == CHOOSE k \in 1..Len(q) : q[k] = t
         IN SubSeq(q, 1, k - 1) \o SubSeq(q, k + 1, Len(q))
    ELSE q

\* Task t is cancelled: it leaves the lock, or the line for it.
DropSend(t) ==
    /\ lockq' = Without(lockq, t)
    /\ draining' = (draining /\ ~Holds(t))

-----------------------------------------------------------------------------
(* Helpers on the connections.                                              *)

Unused(c) == kind[c] = "unused"

\* Mutant: whatever the connection's id names is released.
ReleaseById(r, c) == [i \in Ids |-> IF i = id[c] THEN NoConn ELSE r[i]]

\* release_connection: only if the id still names this connection.
Release(r, c) == [i \in Ids |-> IF r[i] = c THEN NoConn ELSE r[i]]

\* A call whose end its watcher task will report.
Watched(c) == kind[c] = "inbound" /\ step[c] \in {"created", "wait", "fin"}

Registering(c) == kind[c] = "register" /\ step[c] \in {"syn", "wait", "fin"}
NotRegistering == \A c \in Conns : ~Registering(c)

\* A registration that was answered keeps its route and renews on a repeat.
Persistent(c) == kind[c] = "register" /\ step[c] \in {"fin", "done"}

\* CtpConnection.fail: mark the connection and leave the sentinel.
Fails(S) ==
    /\ failed' = [c \in Conns |-> failed[c] \/ c \in S]
    /\ inbox' = [c \in Conns |-> IF c \in S THEN Append(inbox[c], End) ELSE inbox[c]]

Goes(c, s) ==
    /\ step' = [step EXCEPT ![c] = s]
    /\ UNCHANGED <<routes, ends, callTasks, registered>>

\* Mutant: a call that a new INVITE has already ended is ended again.
UnwatchTwice(c) ==
    /\ step' = [step EXCEPT ![c] = "done"]
    /\ routes' = Release(routes, c)
    /\ ends' = [ends EXCEPT ![c] = @ + 1]
    /\ callTasks' = callTasks \ {c}
    /\ UNCHANGED registered

\* Mutant: the watcher leaves its connection in the table.
UnwatchRouted(c) ==
    /\ step' = [step EXCEPT ![c] = "done"]
    /\ ends' = IF reported[c] THEN ends ELSE [ends EXCEPT ![c] = @ + 1]
    /\ callTasks' = callTasks \ {c}
    /\ UNCHANGED <<routes, registered>>

\* The finally of _watch_inbound_call.
Unwatch(c) ==
    /\ step' = [step EXCEPT ![c] = "done"]
    /\ routes' = Release(routes, c)
    /\ ends' = IF reported[c] THEN ends ELSE [ends EXCEPT ![c] = @ + 1]
    /\ callTasks' = callTasks \ {c}
    /\ UNCHANGED registered

\* The finally of open_door.
LeaveDoor(c) ==
    /\ step' = [step EXCEPT ![c] = "done"]
    /\ routes' = Release(routes, c)
    /\ UNCHANGED <<ends, callTasks, registered>>

\* The except clause of _register.
FailRegister(c) ==
    /\ step' = [step EXCEPT ![c] = "done"]
    /\ routes' = Release(routes, c)
    /\ registered' = FALSE
    /\ UNCHANGED <<ends, callTasks>>

\* The task ends without the packet it wants.
GiveUp(c) ==
    \/ kind[c] = "inbound" /\ Unwatch(c)
    \/ kind[c] = "door" /\ LeaveDoor(c)
    \/ kind[c] = "register" /\ FailRegister(c)

\* _register after its FIN, whether or not the panel got it.
Registered(c) ==
    /\ step' = [step EXCEPT ![c] = "done"]
    /\ routes' = Release(routes, previous)
    /\ registered' = TRUE
    /\ UNCHANGED <<ends, callTasks>>

\* The task's FIN had outcome o.  Only _register tells an error that is not a
\* ViperError apart: it leaves it there.
AfterFin(c, o) ==
    \/ Suspended(o) /\ Goes(c, "fin")
    \/ ~Suspended(o) /\ kind[c] # "register" /\ GiveUp(c)
    \/ o \in {"done", "raised"} /\ kind[c] = "register" /\ Registered(c)
    \/ o = "crashed" /\ kind[c] = "register" /\ Goes(c, "done")

-----------------------------------------------------------------------------
(* Outbound transactions: open_door and _register.                          *)

\* The connection gets a free id and sends its first packet.
Begin(c, i, k, o) ==
    /\ Unused(c) /\ routes[i] = NoConn
    /\ o \in Starts(FALSE, lockq)
    /\ StartSend(c, o)
    /\ kind' = [kind EXCEPT ![c] = k]
    /\ id' = [id EXCEPT ![c] = i]
    /\ step' = [step EXCEPT ![c] = IF Suspended(o) THEN "syn"
                                   ELSE IF o = "done" THEN "wait" ELSE "done"]
    /\ routes' = IF o = "raised" THEN routes ELSE [routes EXCEPT ![i] = c]
    /\ UNCHANGED <<inbox, failed, ends, reported, callTasks, registration, ctpp,
                   linkVars, tearVars>>

\* async_open runs in a task of its own, whatever the owner is doing.
OpenDoor(c, i) ==
    /\ ctpp
    /\ \E o \in Outcomes : Begin(c, i, "door", o)
    /\ UNCHANGED <<previous, registered>>

\* start_ctp and refresh_registration, which the owner runs.
Register(c, i) ==
    /\ owner = "idle" /\ NotRegistering /\ ctpp
    /\ previous' = registration
    /\ \E o \in Outcomes :
         /\ Begin(c, i, "register", o)
         /\ registered' = (registered /\ o # "raised")

\* The first packet went on with outcome o.
AfterSyn(c, o) ==
    \/ Suspended(o) /\ Goes(c, "syn")
    \/ o = "done" /\ Goes(c, "wait")
    \/ o \in {"raised", "crashed"} /\ GiveUp(c)

SynResumes(c) ==
    /\ step[c] = "syn" /\ Holds(c)
    /\ \E o \in Resumes : ResumeSend(o) /\ AfterSyn(c, o)
    /\ UNCHANGED <<kind, id, inbox, failed, reported, registration, previous, ctpp,
                   linkVars, tearVars>>

FinResumes(c) ==
    /\ step[c] = "fin" /\ Holds(c)
    /\ \E o \in Resumes : ResumeSend(o) /\ AfterFin(c, o)
    /\ UNCHANGED <<kind, id, inbox, failed, reported, registration, previous, ctpp,
                   linkVars, tearVars>>

-----------------------------------------------------------------------------
(* Waiting on the inbox: CtpConnection.wait.                                *)

Waits(c) == step[c] = "wait" /\ inbox[c] # <<>>

\* The packet that ends the wait of connection c's task as it hopes.
Wanted(c, p) ==
    \/ kind[c] = "inbound" /\ p \in {"release", "fin"}
    \/ kind[c] = "door" /\ p = "release"
    \/ kind[c] = "register" /\ p = "answer"

\* A RELEASE is a refusal to a task that wants something else, and the
\* sentinel fail() left is the end of any.
Refused(c, p) == p = End \/ (p = "release" /\ ~Wanted(c, p))

\* The packet comes and the task sends its FIN.  A registration becomes the
\* session's before that.
WakeWanted(c) ==
    /\ Waits(c) /\ Wanted(c, Head(inbox[c]))
    /\ inbox' = [inbox EXCEPT ![c] = Tail(@)]
    /\ registration' = IF kind[c] = "register" THEN c ELSE registration
    /\ \E o \in Starts(failed[c], lockq) : StartSend(c, o) /\ AfterFin(c, o)
    /\ UNCHANGED <<kind, id, failed, reported, previous, ctpp, linkVars, tearVars>>

\* The sentinel is put back for the next waiter.
WakeRefused(c) ==
    /\ Waits(c) /\ Refused(c, Head(inbox[c]))
    /\ inbox' = IF Head(inbox[c]) = End THEN inbox ELSE [inbox EXCEPT ![c] = Tail(@)]
    /\ GiveUp(c)
    /\ UNCHANGED <<kind, id, failed, reported, registration, previous, ctpp,
                   lockVars, linkVars, tearVars>>

WakeIgnored(c) ==
    /\ Waits(c) /\ ~Wanted(c, Head(inbox[c])) /\ ~Refused(c, Head(inbox[c]))
    /\ inbox' = [inbox EXCEPT ![c] = Tail(@)]
    /\ UNCHANGED <<kind, id, failed, reported, taskVars, registration, previous, ctpp,
                   lockVars, linkVars, tearVars>>

\* Mutant: the wait for the end of a call has no timeout.
TimeoutOwn(c) ==
    /\ step[c] = "wait" /\ kind[c] # "inbound"
    /\ GiveUp(c)
    /\ UNCHANGED <<kind, id, inbox, failed, reported, registration, previous, ctpp,
                   lockVars, linkVars, tearVars>>

\* CTP_TIMEOUT, or INBOUND_CALL_TIMEOUT for a call.
Timeout(c) ==
    /\ step[c] = "wait"
    /\ GiveUp(c)
    /\ UNCHANGED <<kind, id, inbox, failed, reported, registration, previous, ctpp,
                   lockVars, linkVars, tearVars>>

WatcherStarts(c) ==
    /\ step[c] = "created"
    /\ Goes(c, "wait")
    /\ UNCHANGED <<kind, id, inbox, failed, reported, registration, previous, ctpp,
                   lockVars, linkVars, tearVars>>

-----------------------------------------------------------------------------
(* The reader: _read_loop, _dispatch_ctp, _displace, _accept_inbound.       *)

Dispatching == rd.step = "idle" /\ ctpp /\ channel

\* The connection an INVITE with a call id of its own finds on its id.
Displaced(i) == IF routes[i] = NoConn THEN {} ELSE {routes[i]}

\* Mutant: the end of a displaced call is left to its watcher.
EndedLater(i) == {h \in Displaced(i) : kind[h] = "door"}

\* The calls whose end _displace reports, before the new ring.
EndedByDisplace(i) == {h \in Displaced(i) : kind[h] = "inbound"}

\* Such an INVITE: the old connection fails and gives up the id, the ring is
\* reported, and then the INVITE acknowledged; when that fails the call is
\* over.
Invite(c, i) ==
    /\ Dispatching /\ Unused(c)
    /\ kind' = [kind EXCEPT ![c] = "inbound"]
    /\ id' = [id EXCEPT ![c] = i]
    /\ Fails(Displaced(i))
    /\ reported' = [d \in Conns |-> reported[d] \/ d \in EndedByDisplace(i)]
    /\ registration' = IF registration \in Displaced(i) THEN NoConn ELSE registration
    /\ \E o \in Starts(FALSE, lockq) :
         /\ StartSend(Reader, o)
         /\ ends' = [d \in Conns |->
                IF d \in EndedByDisplace(i) \/ (d = c /\ o = "raised")
                THEN ends[d] + 1 ELSE ends[d]]
         /\ routes' = [routes EXCEPT ![i] = IF o = "raised" THEN NoConn ELSE c]
         /\ step' = [step EXCEPT ![c] = IF Suspended(o) THEN "acking"
                                        ELSE IF o = "done" THEN "created" ELSE "done"]
         /\ callTasks' = IF o = "done" THEN callTasks \cup {c} ELSE callTasks
         /\ rd' = IF Suspended(o) THEN [At("accept") EXCEPT !.conn = c] ELSE rd
    /\ UNCHANGED <<previous, registered, ctpp, sock, channel, eof, tearVars>>

\* The acknowledgement goes on.  A failure ends the call and takes its id out
\* of the table, whoever holds it; an error that is not a ViperError is only
\* logged, and nobody follows the call.
AcceptResumes(c) ==
    /\ rd.step = "accept" /\ rd.conn = c /\ Holds(Reader)
    /\ \E o \in Resumes :
         /\ ResumeSend(o)
         /\ rd' = IF Suspended(o) THEN rd ELSE At("idle")
         /\ step' = [step EXCEPT ![c] = CASE Suspended(o) -> "acking" [] o = "done" -> "created"
                                          [] o = "raised" -> "done" [] o = "crashed" -> "lost"]
         /\ callTasks' = IF o = "done" THEN callTasks \cup {c} ELSE callTasks
         /\ routes' = IF o = "raised" THEN [routes EXCEPT ![id[c]] = NoConn] ELSE routes
         /\ ends' = IF o = "raised" THEN [ends EXCEPT ![c] = @ + 1] ELSE ends
    /\ UNCHANGED <<kind, id, inbox, failed, reported, registration, previous, registered,
                   ctpp, sock, channel, eof, tearVars>>

\* Mutant: a repeated INVITE is queued like a packet.
DeliveredAll(h, p) == inbox' = [inbox EXCEPT ![h] = Append(@, p)]

Acked(p) == p # "fin"
Delivered(h, p) ==
    inbox' = IF p \in Packets THEN [inbox EXCEPT ![h] = Append(@, p)] ELSE inbox
Renews(h, p) == Persistent(h) /\ p = "answer"

\* A packet for a routed connection: acknowledged if it has a body, queued,
\* and for a repeated registration answer followed by a FIN.  A failed
\* acknowledgement loses the packet.
Route(i, p) ==
    /\ Dispatching
    /\ LET h == routes[i] IN
       /\ h # NoConn /\ Len(inbox[h]) < MaxInbox
       /\ p = Repeat => kind[h] = "inbound"
       /\ \/ /\ ~Acked(p)
             /\ Delivered(h, p)
             /\ UNCHANGED <<rd, lockVars>>
          \/ /\ Acked(p)
             /\ \E o \in Starts(failed[h], lockq) :
                  /\ StartSend(Reader, o)
                  /\ IF o = "done" THEN Delivered(h, p) ELSE UNCHANGED inbox
                  /\ ~(o = "done" /\ Renews(h, p))
                  /\ rd' = IF Suspended(o) THEN [step |-> "route", conn |-> h, pkt |-> p] ELSE rd
          \/ /\ Renews(h, p) /\ "done" \in Starts(failed[h], lockq)
             /\ Delivered(h, p)
             /\ \E o \in Starts(failed[h], lockq) :
                  /\ StartSend(Reader, o)
                  /\ rd' = IF Suspended(o) THEN [At("renew") EXCEPT !.conn = h] ELSE rd
    /\ UNCHANGED <<kind, id, failed, reported, taskVars, registration, previous, ctpp,
                   sock, channel, eof, tearVars>>

\* The acknowledgement of a routed packet goes on; the FIN of a renewal waits
\* behind whoever waits for the lock.
RouteResumes ==
    /\ rd.step = "route" /\ Holds(Reader)
    /\ LET h == rd.conn
           p == rd.pkt
       IN \E o \in Resumes :
            /\ IF o = "done" THEN Delivered(h, p) ELSE UNCHANGED inbox
            /\ IF o = "done" /\ Renews(h, p)
               THEN \E f \in Starts(failed[h], Tail(lockq)) :
                      /\ lockq' = IF Suspended(f) THEN Append(Tail(lockq), Reader) ELSE Tail(lockq)
                      /\ draining' = (f = "draining")
                      /\ rd' = IF Suspended(f) THEN [At("renew") EXCEPT !.conn = h] ELSE At("idle")
               ELSE /\ ResumeSend(o)
                    /\ rd' = IF Suspended(o) THEN rd ELSE At("idle")
    /\ UNCHANGED <<kind, id, failed, reported, taskVars, registration, previous, ctpp,
                   sock, channel, eof, tearVars>>

\* A SYN that is no INVITE, on a free id: acknowledged, and forgotten.
Stray(i) ==
    /\ Dispatching /\ routes[i] = NoConn
    /\ \E o \in Starts(FALSE, lockq) :
         /\ Suspended(o)
         /\ StartSend(Reader, o)
         /\ rd' = At("stray")
    /\ UNCHANGED <<kind, id, inbox, failed, reported, taskVars, registration, previous, ctpp,
                   sock, channel, eof, tearVars>>

\* The reader's last send for a frame goes on, whatever its outcome.
FrameResumes ==
    /\ rd.step \in {"renew", "stray"} /\ Holds(Reader)
    /\ \E o \in Resumes :
         /\ ResumeSend(o)
         /\ rd' = IF Suspended(o) THEN rd ELSE At("idle")
    /\ UNCHANGED <<kind, id, inbox, failed, reported, taskVars, registration, previous, ctpp,
                   sock, channel, eof, tearVars>>

-----------------------------------------------------------------------------
(* Teardown, connect and close.                                             *)

\* A call whose INVITE the reader is acknowledging when it is cancelled.
Unadopted == {c \in Conns : step[c] = "acking" /\ rd.step = "accept" /\ rd.conn = c}

\* _teardown up to its first await.  The reader, unless it runs the teardown
\* itself, is cancelled there and has nothing to clean up.
BeginTeardown(by) ==
    /\ tear' = [by |-> by, step |-> "ending"]
    /\ pending' = callTasks
    /\ callTasks' = {}
    /\ rd' = At("off")
    /\ step' = [c \in Conns |-> IF c \in Unadopted THEN "lost" ELSE step[c]]
    /\ DropSend(Reader)
    /\ UNCHANGED <<kind, id, inbox, failed, ends, reported, routes, registration, previous,
                   registered, ctpp, sock, channel, eof, links>>

\* The owner closes the session, or connects it anew, which starts with a
\* teardown.  A teardown that finds another in progress returns at once.
CloseBegins ==
    /\ owner = "idle" /\ NotRegistering /\ tear = NoTear
    /\ BeginTeardown("owner")
    /\ owner' = "closing"

ConnectBegins ==
    /\ owner = "idle" /\ NotRegistering /\ links < MaxLinks
    /\ \/ /\ tear = NoTear
          /\ BeginTeardown("owner")
          /\ owner' = "connecting"
       \/ /\ tear # NoTear
          /\ owner' = "opening"
          /\ UNCHANGED <<kind, id, inbox, failed, reported, taskVars, registration, previous,
                         ctpp, linkVars, lockVars, tear, pending, links>>

\* The stream ends and the reader tears the session down; if a teardown is in
\* progress already the reader just stops.
ReaderStops ==
    /\ rd.step = "idle" /\ eof
    /\ \/ /\ tear = NoTear
          /\ BeginTeardown("reader")
          /\ UNCHANGED owner
       \/ /\ tear # NoTear
          /\ rd' = At("dead")
          /\ UNCHANGED <<kind, id, inbox, failed, reported, taskVars, registration, previous,
                         ctpp, sock, channel, eof, lockVars, tearVars>>

\* Mutant: a watcher that is over already is waited for.
EndLiveWatcher(c) ==
    /\ tear.step = "ending" /\ c \in pending /\ Watched(c)
    /\ pending' = pending \ {c}
    /\ DropSend(c)
    /\ IF step[c] = "created" THEN Goes(c, "lost") ELSE Unwatch(c)
    /\ UNCHANGED <<kind, id, inbox, failed, reported, registration, previous, ctpp,
                   linkVars, tear, owner, links>>

\* end_task on one watcher.  One that has not run yet is cancelled without
\* ever running its finally.
EndWatcher(c) ==
    /\ tear.step = "ending" /\ c \in pending
    /\ pending' = pending \ {c}
    /\ DropSend(c)
    /\ IF step[c] = "created" THEN Goes(c, "lost")
       ELSE IF Watched(c) THEN Unwatch(c)
       ELSE UNCHANGED taskVars
    /\ UNCHANGED <<kind, id, inbox, failed, reported, registration, previous, ctpp,
                   linkVars, tear, owner, links>>

\* The writer is taken and closed; wait_closed suspends.
CloseSocket ==
    /\ tear.step = "ending" /\ pending = {} /\ sock # "none"
    /\ sock' = "none"
    /\ eof' = TRUE
    /\ UNCHANGED channel
    /\ tear' = [tear EXCEPT !.step = "closing"]
    /\ UNCHANGED <<kind, id, inbox, failed, reported, taskVars, registration, previous,
                   ctpp, rd, lockVars, pending, owner, links>>

\* Every routed connection fails and the session's state is cleared.
FinishTeardown ==
    /\ \/ tear.step = "closing"
       \/ tear.step = "ending" /\ pending = {} /\ sock = "none"
    /\ Fails({routes[i] : i \in Ids} \ {NoConn})
    /\ routes' = [i \in Ids |-> NoConn]
    /\ ctpp' = FALSE
    /\ registration' = NoConn
    /\ registered' = FALSE
    /\ tear' = NoTear
    /\ owner' = IF tear.by # "owner" THEN owner
                ELSE IF owner = "connecting" THEN "opening" ELSE "idle"
    /\ UNCHANGED <<kind, id, step, ends, reported, callTasks, previous, linkVars,
                   lockVars, pending, links>>

\* The owner's task is cancelled: its own teardown is left where it is.  A
\* teardown begun by a task that was cancelled before stops itself at the
\* first task that end_task ends for it, the reader.
OwnerCancelled ==
    /\ owner # "idle"
    /\ owner' = "idle"
    /\ tear' = IF tear.by = "owner" THEN NoTear ELSE tear
    /\ pending' = IF tear.by = "owner" THEN {} ELSE pending
    /\ UNCHANGED <<kind, id, inbox, failed, reported, taskVars, registration, previous,
                   ctpp, linkVars, lockVars, links>>

\* A cancelled _register does not release its connection.
RegisterCancelled(c) ==
    /\ Registering(c)
    /\ Goes(c, "left")
    /\ DropSend(c)
    /\ UNCHANGED <<kind, id, inbox, failed, reported, registration, previous, ctpp,
                   linkVars, tearVars>>

\* No task is ready to run.
NobodyReady ==
    \A c \in Conns : step[c] # "created" /\ (step[c] = "wait" => inbox[c] = <<>>)

\* open_connection returns, or fails.  It takes several turns of the loop:
\* every task that was ready has run.  The bound on rd leaves out a third
\* link opened while the teardown of the first still runs.
Opened ==
    /\ owner = "opening" /\ links < MaxLinks
    /\ rd.step \in {"off", "dead"}
    /\ NobodyReady
    /\ owner' = "starting"
    /\ channel' = FALSE
    /\ links' = links + 1
    /\ sock' = "open"
    /\ eof' = FALSE
    /\ rd' = At("idle")
    /\ UNCHANGED <<kind, id, inbox, failed, reported, taskVars, registration, previous,
                   ctpp, lockVars, tear, pending>>

OpenFails ==
    /\ owner \in {"opening", "starting"}
    /\ owner' = "idle"
    /\ UNCHANGED <<kind, id, inbox, failed, reported, taskVars, registration, previous,
                   ctpp, linkVars, lockVars, tear, pending, links>>

\* The handshakes up to start_ctp, once a link: it gets the CTPP channel.  The
\* frames of the handshakes have been through the write lock.
ChannelOpens ==
    /\ owner = "starting" /\ rd.step = "idle" /\ sock # "none"
    /\ NobodyReady /\ lockq = <<>>
    /\ owner' = "idle"
    /\ ctpp' = TRUE
    /\ channel' = TRUE
    /\ UNCHANGED <<kind, id, inbox, failed, reported, taskVars, registration, previous,
                   sock, eof, rd, lockVars, tear, pending, links>>

\* The panel, or the network, ends the TCP connection.
PeerGone ==
    /\ sock = "open"
    /\ sock' = "broken"
    /\ eof' = TRUE
    /\ UNCHANGED channel
    /\ UNCHANGED <<kind, id, inbox, failed, reported, taskVars, registration, previous,
                   ctpp, rd, lockVars, tearVars>>

-----------------------------------------------------------------------------

TaskStep(c) ==
    \/ SynResumes(c) \/ FinResumes(c)
    \/ WakeWanted(c) \/ WakeRefused(c) \/ WakeIgnored(c) \/ Timeout(c)
    \/ WatcherStarts(c)

ReaderStep ==
    \/ \E c \in Conns : AcceptResumes(c)
    \/ RouteResumes \/ FrameResumes \/ ReaderStops

TeardownStep ==
    \/ \E c \in Conns : EndWatcher(c)
    \/ CloseSocket \/ FinishTeardown

Panel ==
    \/ \E c \in Conns, i \in Ids : Invite(c, i)
    \/ \E i \in Ids, p \in Packets \cup {Repeat} : Route(i, p)
    \/ \E i \in Ids : Stray(i)
    \/ PeerGone

Owner ==
    \/ CloseBegins \/ ConnectBegins \/ OwnerCancelled
    \/ Opened \/ OpenFails \/ ChannelOpens
    \/ \E c \in Conns, i \in Ids : Register(c, i)
    \/ \E c \in Conns : RegisterCancelled(c)

Next ==
    \/ Panel \/ Owner \/ ReaderStep \/ TeardownStep
    \/ \E c \in Conns, i \in Ids : OpenDoor(c, i)
    \/ \E c \in Conns : TaskStep(c)

Spec == Init /\ [][Next]_vars

\* Tasks that can run do; a drain ends, with an error if the link died; a
\* wait ends, with its timeout at the latest.  Nothing is assumed of the
\* panel or of the owner.
Fairness ==
    /\ \A c \in Conns : WF_vars(TaskStep(c)) /\ WF_vars(WatcherStarts(c)) /\ WF_vars(Timeout(c))
    /\ WF_vars(ReaderStep)
    /\ WF_vars(TeardownStep)

FairSpec == Spec /\ Fairness

-----------------------------------------------------------------------------
(* Properties.                                                              *)

\* on_call_end is called at most once for a call, whichever of displacement,
\* a failed acknowledgement, the watcher and a teardown gets there first.
EndsOnce == \A c \in Conns : ends[c] <= 1

\* Nobody waits on a connection that no packet can reach: either the id still
\* routes to it, or the sentinel of fail() is in the inbox for its task.
NoOrphanWaiter ==
    \A c \in Conns :
        step[c] \in {"created", "syn", "wait"} =>
            \/ \E i \in Ids : routes[i] = c
            \/ \E k \in 1..Len(inbox[c]) : inbox[c][k] = End

\* A call that was reported over is out of the table: none of its id's
\* packets go to it any more.
EndedIsUnrouted ==
    \A c \in Conns, i \in Ids : routes[i] = c => ends[c] = 0

\* While the link stands every call's end is reported: one is lost only in a
\* step of a teardown, or when a teardown has taken the writer away.
LostOnlyInTeardown ==
    [][\A c \in Conns : step[c] # "lost" /\ step'[c] = "lost" =>
          tear' # NoTear \/ sock = "none"]_vars

Ledger ==
    INSTANCE CallLedger WITH
        Calls <- Conns, Lines <- Ids, NoLine <- NoId,
        phase <- [c \in Conns |->
                    IF kind[c] # "inbound" THEN "none"
                    ELSE IF ends[c] = 1 THEN "ended"
                    ELSE IF ends[c] > 1 THEN "twice"
                    ELSE IF step[c] = "lost" THEN "lost" ELSE "ringing"],
        line <- [c \in Conns |-> IF kind[c] = "inbound" THEN id[c] ELSE NoId]

LedgerSpec == Ledger!Spec

\* Every call that rang ends, or is lost to a teardown.
RingEnds ==
    \A c \in Conns : kind[c] = "inbound" ~> (ends[c] = 1 \/ step[c] = "lost")

\* A teardown comes to its end, whichever tasks finish while it waits.
TeardownEnds == tear # NoTear ~> tear = NoTear

-----------------------------------------------------------------------------
(* What the repository says, and the code does not keep.                    *)

\* README.md:16: call_ended is raised when a call finishes; test_teardown.py
\* has close() report it.  A call nobody follows any more has had its end
\* reported.
EveryRingEnds ==
    \A c \in Conns :
        kind[c] = "inbound" /\ step[c] \notin {"acking", "created", "wait", "fin"} =>
            ends[c] = 1

=============================================================================
