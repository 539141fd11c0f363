------------------------------- MODULE VideoCall -------------------------------
(***************************************************************************)
(* One outgoing video call (viper/call.py): the setup handshake of open(), *)
(* the queue of packets and the sentinel that ends it, the three tasks     *)
(* that watch the call, and the close() that a cancellation may cut short  *)
(* at any send and that a later close() finishes.                          *)
(*                                                                         *)
(* An action is a task's run from one await to the next.  A send is        *)
(* "queued" while it waits for the session's write lock and "sent" once it *)
(* is written; what it then waits for, drain() or an answer, is one state. *)
(***************************************************************************)
EXTENDS Naturals, Sequences

CONSTANTS Remotes,    \* the media channels the panel may open towards us
          NoHandle,
          QueueSize,  \* VIDEO_QUEUE_SIZE
          Interrupts  \* whether a cancellation may come while close() runs

ASSUME CallConstants ==
    /\ NoHandle \notin Remotes
    /\ QueueSize \in Nat \ {0}
    /\ Interrupts \in BOOLEAN

\* The channels we open, and the handle the panel sends video on.
Own == {"udp", "audio", "video", "media"}
Handles == Own \cup Remotes
Tasks == {"release", "silence", "refresh"}

VARIABLES
    stage,     \* where open(), then close(), is
    frame,     \* how far the send of that stage is
    cancelled, \* the task in close() had been cancelled before it called it
    closed,    \* _closed
    known,     \* those of Own whose handle attribute is set
    remote,    \* remote_media_handle
    handlers,  \* this call's entries in the session's _binary_handlers
    incoming,  \* the session's _incoming_channel_handler is this call's
    routed,    \* the session routes the call's connection
    failed,    \* the connection's `failed`: displaced, or the link is gone
    hangup,    \* the RELEASE or FIN that waits in the connection's inbox
    owed,      \* _release_conn is not None
    pending,   \* _pending_handles
    tasks,     \* _watcher, _media_watcher and _refresher
    queue,     \* _video_q
    consumer,  \* the task that iterates packets()
    link,      \* the session's connection
    panel,     \* the channels of this call that the panel has open
    call,      \* the call, as the panel sees it
    told,      \* a RELEASE has been written
    quiet,     \* no packet for MEDIA_SILENCE, or none yet for MEDIA_START_TIMEOUT
    given      \* history: the handles the call has been given

ownVars == <<cancelled, closed, known, remote, owed, pending, given>>
sessionVars == <<handlers, incoming, routed, failed>>
panelVars == <<panel, call, told>>
vars == <<stage, frame, ownVars, sessionVars, hangup, tasks, queue, consumer,
          link, panelVars, quiet>>

OverCtp == {"invite", "caps", "offer", "request"}
OverChannel == {"udp", "audio", "video"}
Opening == OverCtp \cup OverChannel \cup {"setup"}
Closing == {"ending", "release", "channels"}

TypeOK ==
    /\ stage \in Opening \cup Closing \cup {"new", "up", "closed", "cut"}
    /\ frame \in {"none", "queued", "sent", "answered", "raised"}
    /\ cancelled \in BOOLEAN /\ closed \in BOOLEAN
    /\ known \subseteq Own
    /\ remote \in Remotes \cup {NoHandle}
    /\ handlers \subseteq Handles
    /\ incoming \in BOOLEAN /\ routed \in BOOLEAN /\ failed \in BOOLEAN
    /\ hangup \in {"no", "release", "fin"}
    /\ owed \in BOOLEAN
    /\ pending \in Seq(Handles)
    /\ tasks \in [Tasks -> {"none", "waiting", "queued", "sent", "done"}]
    /\ queue \in Seq({"media", "end"}) /\ Len(queue) <= QueueSize
    /\ consumer \in {"none", "reading", "done"}
    /\ link \in {"up", "broken", "lost"}
    /\ panel \subseteq Handles
    /\ call \in {"none", "on", "over"}
    /\ told \in BOOLEAN /\ quiet \in BOOLEAN
    /\ given \subseteq Handles

Init ==
    /\ stage = "new" /\ frame = "none"
    /\ cancelled = FALSE /\ closed = FALSE /\ known = {} /\ remote = NoHandle
    /\ handlers = {} /\ incoming = FALSE /\ routed = FALSE /\ failed = FALSE
    /\ hangup = "no" /\ owed = FALSE /\ pending = <<>>
    /\ tasks = [t \in Tasks |-> "none"]
    /\ queue = <<>> /\ consumer = "none"
    /\ link = "up" /\ panel = {} /\ call = "none" /\ told = FALSE
    /\ quiet = FALSE /\ given = {}

-----------------------------------------------------------------------------
(* Operators.                                                               *)

\* Mutants: the queue has no bound; nothing makes room in it.
PutUnbounded(q, x) == Append(q, x)
PutRefused(q, x) == IF Len(q) = QueueSize THEN q ELSE Append(q, x)

\* _on_media and _signal_end make room by dropping the oldest entry.
Put(q, x) == Append(IF Len(q) = QueueSize THEN Tail(q) ELSE q, x)

\* What the call still has at hand, in the order in which close() goes
\* through it.
Attributes ==
    LET Set(h) == IF h \in known THEN <<h>> ELSE <<>>
    IN  Set("audio") \o Set("video") \o Set("media")
        \o (IF remote = NoHandle THEN <<>> ELSE <<remote>>) \o Set("udp")

\* A send raises for a displaced connection (only the call's own packets have
\* one), and on a link that is gone or going.
MayRaise(ctp) == link # "up" \/ (ctp /\ failed)
MayWrite(ctp) == link # "lost" /\ ~(ctp /\ failed)

\* The reader runs again only after the consumer it has woken.
Settled == consumer = "reading" => queue = <<>>

Running(t) == tasks[t] \in {"waiting", "queued", "sent"}

\* Mutant: the refresher is left alone.
WatchersEnded == ~Running("release") /\ ~Running("silence")

AllEnded == \A t \in Tasks : ~Running(t)

-----------------------------------------------------------------------------
(* close().                                                                 *)

\* Mutant: the handler of the channel the panel opened stays.
WithdrawOwn ==
    /\ stage' = "ending" /\ frame' = "none"
    /\ closed' = TRUE
    /\ incoming' = FALSE /\ routed' = FALSE
    /\ handlers' = handlers \ known
    /\ known' = {} /\ remote' = NoHandle
    /\ owed' = TRUE /\ pending' = Attributes
    /\ queue' = Put(queue, "end")
    /\ UNCHANGED failed

\* Local state goes first, in one run.
Withdraw ==
    /\ stage' = "ending" /\ frame' = "none"
    /\ closed' = TRUE
    /\ incoming' = FALSE /\ routed' = FALSE
    /\ handlers' = handlers \ (known \cup {remote})
    /\ known' = {} /\ remote' = NoHandle
    /\ owed' = TRUE /\ pending' = Attributes
    /\ queue' = Put(queue, "end")
    /\ UNCHANGED failed

\* The relay closes the call in the normal course of an episode, or in the
\* finally of an episode that was cancelled.
Close ==
    /\ stage = "up"
    /\ Withdraw
    /\ cancelled' \in BOOLEAN
    /\ UNCHANGED <<hangup, tasks, consumer, link, panelVars, quiet, given>>

\* A close that was cut short is taken up where it was.
CloseAgain ==
    /\ stage = "cut"
    /\ stage' = "ending" /\ frame' = "none"
    /\ cancelled' \in BOOLEAN
    /\ UNCHANGED <<closed, known, remote, owed, pending, given, sessionVars, hangup, tasks, queue, consumer, link, panelVars, quiet>>

\* The task that close() ends next, if any is left.
First(t) ==
    /\ Running(t)
    /\ t # "release" => ~Running("release")
    /\ t = "refresh" => ~Running("silence")

\* end_task: the task runs once more; the release watcher queues the sentinel.
Ended(t) ==
    /\ First(t)
    /\ tasks' = [tasks EXCEPT ![t] = "done"]
    /\ queue' = IF t = "release" THEN Put(queue, "end") ELSE queue

\* Mutant: the RELEASE is forgotten before it is sent.
CutShortForgetful ==
    /\ stage' = "cut" /\ frame' = "none"
    /\ owed' = FALSE
    /\ UNCHANGED <<pending, panelVars>>

\* close() is left before it is done: by a cancellation, by the
\* AttributeError of a send that finds no writer once it has the lock, or by
\* end_task, which raises when the task it is called from was cancelled before.
CutShort ==
    /\ stage' = "cut" /\ frame' = "none"
    /\ UNCHANGED <<owed, pending, panelVars>>

EndTask ==
    /\ stage = "ending"
    /\ \E t \in Tasks : Ended(t)
    /\ IF cancelled THEN CutShort ELSE UNCHANGED <<stage, frame, owed, pending, panelVars>>
    /\ UNCHANGED <<cancelled, closed, known, remote, given, sessionVars, hangup,
                   consumer, link, quiet>>

\* What the sends of close() share: the frame waits for the lock, is written,
\* or raises what close() suppresses.
ReleaseWritten ==
    /\ frame' = "sent" /\ stage' = "release"
    /\ told' = TRUE /\ call' = "over"
    /\ UNCHANGED <<panel, owed>>

ReleaseRaised ==
    /\ frame' = "none" /\ stage' = "channels"
    /\ owed' = FALSE
    /\ UNCHANGED panelVars

SendRelease ==
    /\ stage = "ending" /\ AllEnded
    /\ \/ ~owed /\ ReleaseRaised
       \/ owed /\ MayRaise(TRUE) /\ ReleaseRaised
       \/ owed /\ MayWrite(TRUE) /\ ReleaseWritten
       \/ /\ owed /\ MayWrite(TRUE)
          /\ stage' = "release" /\ frame' = "queued"
          /\ UNCHANGED <<panelVars, owed>>
    /\ UNCHANGED <<cancelled, closed, known, remote, pending, given, sessionVars, hangup,
                   tasks, queue, consumer, link, quiet>>

ReleaseResumes ==
    /\ stage = "release"
    /\ \/ frame = "queued" /\ link # "lost" /\ ReleaseWritten
       \/ frame = "queued" /\ link = "lost" /\ CutShort
       \/ (frame = "sent" \/ link = "broken") /\ ReleaseRaised
    /\ UNCHANGED <<cancelled, closed, known, remote, pending, given, sessionVars, hangup,
                   tasks, queue, consumer, link, quiet>>

\* close_channel for the first handle owed; a handle is off the list only
\* after its send.
ChannelWritten ==
    /\ frame' = "sent"
    /\ panel' = panel \ {Head(pending)}
    /\ UNCHANGED <<pending, call, told>>

ChannelDone ==
    /\ frame' = "none" /\ pending' = Tail(pending)
    /\ UNCHANGED panelVars

CloseChannel ==
    /\ stage = "channels" /\ frame = "none" /\ pending # <<>>
    /\ \/ MayRaise(FALSE) /\ ChannelDone
       \/ MayWrite(FALSE) /\ ChannelWritten
       \/ MayWrite(FALSE) /\ frame' = "queued" /\ UNCHANGED <<pending, panelVars>>
    /\ handlers' = handlers \ {Head(pending)}
    /\ UNCHANGED <<stage, cancelled, closed, known, remote, owed, given, incoming, routed,
                   failed, hangup, tasks, queue, consumer, link, quiet>>

ChannelResumes ==
    /\ stage = "channels"
    /\ \/ frame = "queued" /\ link # "lost" /\ ChannelWritten /\ UNCHANGED <<stage, owed>>
       \/ frame = "queued" /\ link = "lost" /\ CutShort
       \/ /\ frame = "sent" \/ (frame = "queued" /\ link = "broken")
          /\ ChannelDone /\ UNCHANGED <<stage, owed>>
    /\ UNCHANGED <<cancelled, closed, known, remote, given, sessionVars, hangup, tasks,
                   queue, consumer, link, quiet>>

CloseReturns ==
    /\ stage = "channels" /\ frame = "none" /\ pending = <<>>
    /\ stage' = "closed"
    /\ UNCHANGED <<frame, ownVars, sessionVars, hangup, tasks, queue, consumer, link, panelVars, quiet>>

\* A cancellation of close(): while it awaits a task, which ends all the
\* same, or a send.
CancelClose ==
    /\ Interrupts
    /\ \/ stage = "ending" /\ \E t \in Tasks : Ended(t)
       \/ stage \in {"release", "channels"} /\ frame # "none" /\ UNCHANGED <<tasks, queue>>
    /\ CutShort
    /\ UNCHANGED <<cancelled, closed, known, remote, given, sessionVars, hangup, consumer, link, quiet>>

-----------------------------------------------------------------------------
(* open().                                                                  *)

\* The packets and channels the stages go through, in order.
NextStage == [invite |-> "udp", udp |-> "caps", caps |-> "setup", setup |-> "audio",
              audio |-> "video", video |-> "offer", offer |-> "request"]

\* What the panel has once a stage's frame is written.
Written(s) ==
    /\ panel' = IF s \in OverChannel THEN panel \cup {s} ELSE panel
    /\ call' = IF s = "invite" THEN "on" ELSE call
    /\ UNCHANGED told

\* The task goes on to stage s and sends what it begins with.
Enters(s) ==
    /\ stage' = s
    /\ \/ s = "setup" /\ frame' = "sent" /\ UNCHANGED panelVars
       \/ s # "setup" /\ MayWrite(s \in OverCtp) /\ frame' = "sent" /\ Written(s)
       \/ s # "setup" /\ MayWrite(s \in OverCtp) /\ frame' = "queued" /\ UNCHANGED panelVars
       \/ s # "setup" /\ MayRaise(s \in OverCtp) /\ frame' = "raised" /\ UNCHANGED panelVars

\* open() makes the connection, takes the channels the panel opens, and
\* sends the INVITE.
Open ==
    /\ stage = "new" /\ link = "up"
    /\ incoming' = TRUE /\ routed' = TRUE
    /\ Enters("invite")
    /\ UNCHANGED <<ownVars, handlers, failed, hangup, tasks, queue, consumer, link, quiet>>

\* What the task keeps of the stage it leaves.
Keeps ==
    LET had == CASE stage = "udp"   -> {"udp"}
                 [] stage = "audio" -> {"audio"}
                 [] stage = "video" -> {"video", "media"}
                 [] OTHER -> {}
    IN known' = known \cup had /\ given' = given \cup had

\* The stage's wait is over: the answer came, or any packet at all while the
\* panel's first is awaited, or nothing did to the audio offer.
Answered ==
    \/ frame = "answered" /\ UNCHANGED hangup
    \/ /\ stage = "invite" /\ frame = "sent" /\ hangup # "no" /\ ~failed
       /\ hangup' = "no"
    \/ stage = "offer" /\ frame = "sent" /\ UNCHANGED hangup

Proceeds ==
    /\ stage \in DOMAIN NextStage /\ Answered
    /\ Keeps
    /\ Enters(NextStage[stage])
    /\ UNCHANGED <<cancelled, closed, remote, owed, pending, sessionVars, tasks, queue,
                   consumer, link, quiet>>

\* The write lock comes free for the stage's frame.
Resumes ==
    /\ stage \in Opening /\ frame = "queued" /\ link # "lost"
    /\ frame' = "sent" /\ Written(stage)
    /\ UNCHANGED <<stage, ownVars, sessionVars, hangup, tasks, queue, consumer, link, quiet>>

\* The video request is written: the call is up, its tasks are created and
\* the caller begins to iterate packets().
Up ==
    /\ stage = "request" /\ frame = "sent"
    /\ stage' = "up" /\ frame' = "none"
    /\ handlers' = handlers \cup (known \ {"udp"})
    /\ tasks' = [t \in Tasks |-> "waiting"]
    /\ consumer' = "reading"
    /\ UNCHANGED <<ownVars, incoming, routed, failed, hangup, queue, link, panelVars, quiet>>

\* Mutant: the waits on the connection have no timeout.
RaisedNever ==
    \/ frame = "raised"
    \/ link # "up" /\ frame \in {"queued", "sent"}
    \/ failed /\ stage \in {"invite", "caps", "setup", "offer"} /\ frame = "sent"
    \/ hangup = "release" /\ stage \in {"caps", "setup", "offer"} /\ frame = "sent"
    \/ frame = "sent" /\ stage \in OverChannel

\* What makes a stage raise: its send, now or once it has the lock; the link,
\* or the end of the connection, for every wait; a RELEASE for a wait that
\* wants another packet; a timeout for every wait but the one for the answer
\* to the audio offer.
Raised ==
    \/ frame = "raised"
    \/ link # "up" /\ frame \in {"queued", "sent"}
    \/ failed /\ stage \in {"invite", "caps", "setup", "offer"} /\ frame = "sent"
    \/ hangup = "release" /\ stage \in {"caps", "setup", "offer"} /\ frame = "sent"
    \/ frame = "sent" /\ stage \notin {"offer", "request"}

\* A failure closes the call before it is passed on.
Fails ==
    /\ stage \in Opening /\ Raised
    /\ Withdraw
    /\ UNCHANGED <<cancelled, hangup, tasks, consumer, link, panelVars, quiet, given>>

\* A cancellation is one more, at any await.  No task is there yet for
\* close() to end.
CancelOpen ==
    /\ stage \in Opening /\ frame # "raised"
    /\ Withdraw
    /\ UNCHANGED <<cancelled, hangup, tasks, consumer, link, panelVars, quiet, given>>

\* The waits for a given opcode take a FIN and ignore it.
FinIgnored ==
    /\ stage \in {"caps", "setup", "offer"} /\ frame = "sent" /\ hangup = "fin"
    /\ hangup' = "no"
    /\ UNCHANGED <<stage, frame, ownVars, sessionVars, tasks, queue, consumer, link, panelVars, quiet>>

-----------------------------------------------------------------------------
(* The call's tasks, while it is up.                                        *)

\* _watch_release finishes on a RELEASE, a FIN or the connection's end, and
\* queues the sentinel.
WatchRelease ==
    /\ tasks["release"] = "waiting" /\ (hangup # "no" \/ failed)
    /\ tasks' = [tasks EXCEPT !["release"] = "done"]
    /\ hangup' = "no"
    /\ queue' = Put(queue, "end")
    /\ UNCHANGED <<stage, frame, ownVars, sessionVars, consumer, link, panelVars, quiet>>

\* _watch_media finds that nothing came for too long.
WatchMedia ==
    /\ tasks["silence"] = "waiting" /\ quiet
    /\ tasks' = [tasks EXCEPT !["silence"] = "done"]
    /\ queue' = Put(queue, "end")
    /\ UNCHANGED <<stage, frame, ownVars, sessionVars, hangup, consumer, link, panelVars, quiet>>

\* _refresh_video repeats the request while the call has its connection; a
\* send that raises ends the task, with ViperError or without a writer.
Refresh ==
    /\ \/ /\ tasks["refresh"] = "waiting" /\ ~closed
          /\ \/ MayRaise(TRUE) /\ tasks' = [tasks EXCEPT !["refresh"] = "done"]
             \/ /\ MayWrite(TRUE)
                /\ \E to \in {"queued", "sent"} : tasks' = [tasks EXCEPT !["refresh"] = to]
       \/ /\ tasks["refresh"] = "queued"
          /\ tasks' = [tasks EXCEPT !["refresh"] = IF link = "lost" THEN "done" ELSE "sent"]
       \/ /\ tasks["refresh"] = "sent"
          /\ \/ tasks' = [tasks EXCEPT !["refresh"] = "waiting"]
             \/ link # "up" /\ tasks' = [tasks EXCEPT !["refresh"] = "done"]
    /\ UNCHANGED <<stage, frame, ownVars, sessionVars, hangup, queue, consumer, link, panelVars, quiet>>

\* The sentinel is the entry n of the queue.
EndsAt(n) == queue[n] = "end" /\ \A m \in 1..(n - 1) : queue[m] # "end"

\* packets(): the consumer takes all there is, up to the sentinel.
Consume ==
    /\ consumer = "reading" /\ queue # <<>>
    /\ \/ \E n \in DOMAIN queue :
             /\ EndsAt(n)
             /\ consumer' = "done" /\ queue' = SubSeq(queue, n + 1, Len(queue))
       \/ /\ \A n \in DOMAIN queue : queue[n] # "end"
          /\ queue' = <<>> /\ UNCHANGED consumer
    /\ UNCHANGED <<stage, frame, ownVars, sessionVars, hangup, tasks, link, panelVars, quiet>>

-----------------------------------------------------------------------------
(* The panel and the session's reader.                                      *)

\* The answer to a stage's frame is in the inbox, or its future is set.
PanelAnswers ==
    /\ link = "up" /\ frame = "sent" /\ stage \in DOMAIN NextStage
    /\ stage \notin OverChannel => call = "on" /\ ~failed
    /\ frame' = "answered"
    /\ UNCHANGED <<stage, ownVars, sessionVars, hangup, tasks, queue, consumer, link, panelVars, quiet>>

\* The panel ends the call.  A connection that is no longer routed does not
\* hear of it.
PanelHangsUp ==
    /\ link = "up" /\ call = "on" /\ Settled
    /\ call' = "over"
    /\ IF routed THEN hangup' \in {"release", "fin"} ELSE UNCHANGED hangup
    /\ UNCHANGED <<stage, frame, ownVars, sessionVars, tasks, queue, consumer, link, panel, told, quiet>>

\* _on_incoming_channel: the panel opens a media channel towards us.
IncomingChannel(r) ==
    /\ link = "up" /\ call = "on" /\ incoming /\ Settled /\ r \notin panel
    /\ panel' = panel \cup {r}
    /\ remote' = r /\ given' = given \cup {r}
    /\ handlers' = handlers \cup {r}
    /\ UNCHANGED <<stage, frame, cancelled, closed, known, owed, pending, incoming, routed, failed,
                   hangup, tasks, queue, consumer, link, call, told, quiet>>

\* _on_media: a packet on one of the video handles.
Media ==
    /\ link = "up" /\ handlers \ {"audio"} # {} /\ Settled
    /\ queue' = Put(queue, "media")
    /\ quiet' = FALSE
    /\ UNCHANGED <<stage, frame, ownVars, sessionVars, hangup, tasks, consumer, link, panelVars>>

\* MEDIA_SILENCE, or MEDIA_START_TIMEOUT, passes without a packet.
Silence ==
    /\ tasks["silence"] = "waiting" /\ ~quiet
    /\ quiet' = TRUE
    /\ UNCHANGED <<stage, frame, ownVars, sessionVars, hangup, tasks, queue, consumer, link, panelVars>>

\* An inbound call takes the connection's id.
Displaced ==
    /\ link = "up" /\ routed /\ Settled
    /\ routed' = FALSE /\ failed' = TRUE
    /\ UNCHANGED <<stage, frame, ownVars, handlers, incoming, hangup, tasks, queue,
                   consumer, link, panelVars, quiet>>

\* The panel's end of the TCP connection is gone.
PeerGone ==
    /\ link = "up"
    /\ link' = "broken"
    /\ UNCHANGED <<stage, frame, ownVars, sessionVars, hangup, tasks, queue, consumer, panelVars, quiet>>

\* The session's teardown fails its connections and clears its tables.
Teardown ==
    /\ link # "lost"
    /\ link' = "lost"
    /\ failed' = (failed \/ routed) /\ routed' = FALSE
    /\ handlers' = {} /\ incoming' = FALSE
    /\ UNCHANGED <<stage, frame, ownVars, hangup, tasks, queue, consumer, panelVars, quiet>>

-----------------------------------------------------------------------------

CloseSteps == EndTask \/ SendRelease \/ ReleaseResumes \/ CloseChannel \/ ChannelResumes
              \/ CloseReturns
OpenSteps == Proceeds \/ Resumes \/ Up \/ Fails \/ FinIgnored

Next ==
    \/ Open \/ Proceeds \/ Resumes \/ Up \/ Fails \/ CancelOpen \/ FinIgnored
    \/ Close \/ CloseAgain \/ CancelClose
    \/ EndTask \/ SendRelease \/ ReleaseResumes \/ CloseChannel \/ ChannelResumes \/ CloseReturns
    \/ WatchRelease \/ WatchMedia \/ Refresh \/ Consume
    \/ PanelAnswers \/ PanelHangsUp \/ Media \/ Silence \/ Displaced \/ PeerGone \/ Teardown
    \/ \E r \in Remotes : IncomingChannel(r)

Spec == Init /\ [][Next]_vars

\* Tasks that can run do; every wait of open() has a timeout; the write lock
\* comes free and drain() returns, because the panel reads or the link is
\* found lost.  Nothing makes the panel answer, hang up or send.
Fairness ==
    /\ WF_vars(OpenSteps) /\ WF_vars(CloseSteps)
    /\ WF_vars(WatchRelease) /\ WF_vars(WatchMedia) /\ WF_vars(Consume)
    /\ WF_vars(link = "broken" /\ Teardown)

FairSpec == Spec /\ Fairness

-----------------------------------------------------------------------------
(* Properties.                                                              *)

InPending(h) == \E n \in DOMAIN pending : pending[n] = h

\* Whatever cuts open() or close() short, and wherever, what the panel has
\* still to be told is kept: a channel of ours it has open is an attribute or
\* on _pending_handles, and the RELEASE of a call it takes for up, on a
\* connection that is still ours, is owed (call.py close).
NothingForgotten ==
    link = "up" =>
        /\ \A h \in given \cap panel : h \in known \/ h = remote \/ InPending(h)
        /\ closed /\ call = "on" /\ ~failed => owed

\* Once close() has begun, the session hands the call nothing any more, and
\* whoever iterates the packets has finished or will find the sentinel
\* (call.py close, _signal_end, _on_media).
ClosedIsDeaf ==
    closed =>
        /\ handlers = {} /\ ~incoming /\ ~routed
        /\ consumer = "done" \/ \E n \in DOMAIN queue : queue[n] = "end"

\* The RELEASE is the last thing the call sends on its connection: a video
\* request written after it would ask the panel for media again
\* (call.py close, _refresh_video).
ReleaseIsLast == told => \A t \in Tasks : ~Running(t)

\* A call that is released, displaced or cut off while it is up ends its
\* packets, however much media still comes; so does one that has gone silent
\* for good (call.py _watch_release, _watch_media, packets).
StreamEnds ==
    /\ (stage = "up" /\ (hangup # "no" \/ failed)) ~> consumer = "done"
    /\ <>[](stage = "up") => []<>~quiet \/ <>(consumer = "done")

\* open() comes to an end, with the call up or closed, and so does close(),
\* unless it is cut short (call.py open, close).
Returns == stage \in Opening \cup Closing ~> stage \in {"up", "closed", "cut"}

-----------------------------------------------------------------------------
(* What the repository says, and the code does not keep.                    *)

\* tasks.py:9, end_task: "Cancel task and wait for it, re-raising a
\* cancellation of the caller"; call.py:246: a close "cut short by a
\* cancellation" is finished by the next call.  If nobody cancels a close
\* while it runs, it ends the call's tasks.
CloseEndsTasks == closed ~> AllEnded

=============================================================================
