# TLA+ models and proofs for comelit-vip

`comelit-vip` is a Home Assistant integration that keeps one TCP connection to
a Comelit ViP panel, reports who rings, opens doors and serves the panel's
video to RTSP clients. Everything runs in one asyncio event loop. What is hard
about it is therefore not parallelism but *suspension*: a dozen kinds of task
share one session, every `await` may be where a task is cancelled, where the
link dies, or where another task changes what the first one has just read.

These modules model that concurrency, TLC checks it on small instances, and
TLAPS proves the safety properties of every component for every instance, and
that the session implements its abstract specification.

## 1. Inventory

| Part | Source | State it keeps | Operations | Hard because |
|---|---|---|---|---|
| Session | `viper/session.py`, `viper/tasks.py` | socket, `_connections` by id, `_call_tasks`, `_registration`, `_ctpp_handle`, write lock, JSON and channel waiters, handles in use | `connect`, `close`, reader, `start_ctp`, `refresh_registration`, `open_door`, `open_channel`, `request`, inbound calls | ids are reused by the panel while old tasks still hold them; the teardown runs in the reader or in the owner, and other tasks run into it |
| Video call | `viper/call.py` | channel handles, packet queue, three tasks, what the panel is still owed | `open`, `packets`, `close`, incoming channel, media | any of a dozen awaits can fail or be cancelled; `close` is resumable; a sentinel must survive a full queue |
| RTSP relay | `viper/rtsp.py` | clients, the one episode, the idle event, each viewer's timestamp offset, parameter sets | `DESCRIBE`/`PLAY`/..., `prepare`, `abandon_call`, `stop`, the fan-out | requests join an episode at any stage of its life; the panel allows one call; a viewer's clock must run on over calls that count from anywhere |
| Hub | `hub.py`, `const.py` | link state, backoff, refusals, captures owed, ffmpeg processes | setup, supervisor, watchdog, disconnect callback, unload, ring handling, captures | one task rebuilds the link while a callback reports its loss and the unload cancels it; captures outlive the ring that asked for them and the sweep that ends their processes |
| Packet codecs | `viper/ctp.py`, `frames.py`, `rtp.py` | none | encode, decode | pure; unit-tested |
| Panel configuration | `viper/models.py` | none | parse | pure |
| Web client, config flow, discovery | `viper/web.py`, `config_flow.py`, `viper/discovery.py` | none shared | HTTP login, one UDP exchange | sequential |
| Entry setup, entities, diagnostics | `__init__.py`, `button.py`, `camera.py`, `event.py`, `entity.py`, `diagnostics.py` | what was last written to Home Assistant | forward to the hub | glue |

How they interact:

* The **hub** owns the session, the relay and the entities. Its supervisor is
  the only task that (re)connects; the session calls back `on_ring`,
  `on_call_end`, `on_disconnect`; before reconnecting the supervisor makes the
  relay abandon its call.
* The **relay** gets calls from a factory of the hub, which opens a
  **video call** on the current session; the hub's captures are clients of the
  relay like any RTSP player.
* The **video call** uses the session's connections, channels and handler
  tables, which the session's teardown clears under it.
* Every send of every task goes through the session's one write lock.

What makes each part correct:

* *Session*: each call that rang is reported ended once, or lost to a
  teardown; nobody waits on a connection that no packet can reach; a teardown
  ends; a call ends before the one that takes its id rings; no handle is handed
  out while it is in use, and none leaks.
* *Hub*: the entities show the link's real state; the link comes back when the
  panel is well; the backoff shrinks only for a stable connection; an unload
  leaves nothing behind; a ring is captured once, after its end, and no capture
  leaves its ffmpeg alive.
* *Relay*: at most one call; every request is answered; a call does not outlive
  its clients; every listed client has somebody to take it off; a viewer's clock
  never jumps.
* *Video call*: what the panel has to be told is never forgotten; a closed call
  is handed nothing; the consumer of the packets always finishes.

The hazards, each at its line and with the property that covers it, are listed
in `PROJECT.json`.

## 2. Modules

| Module | Models | Role |
|---|---|---|
| `CallLedger` | the promise of `on_ring` / `on_call_end` | abstract specification |
| `ViperSession` | the session's CTP side | detailed specification, implements `CallLedger` |
| `Channels` | the session's channels, requests and handles | component |
| `VideoCall` | one `VideoCall` | component |
| `RtspRelay` | `RtspRelay` and its episodes | component |
| `RtpClock` | the fan-out and the rebasing of timestamps | component |
| `HubLink` | the hub's link: setup, supervisor, watchdog, unload | component |
| `Captures` | rings, captures owed, ffmpeg processes, their sweep | component, over the calls of `CallLedger` |
| `CallLedgerProofs`, `ViperSessionProofs`, `ChannelsProofs`, `VideoCallProofs`, `RtspRelayProofs`, `RtpClockProofs`, `HubLinkProofs`, `CapturesProofs` | | theorems about the module each is named after |

`CallLedger` is the hinge: `ViperSession` is proved to implement it, and
`Captures` takes its calls from it and nothing else of the session.

### The grain of an action

asyncio switches tasks only at an `await` that really suspends. One action is
one task's run from one suspension to the next, with everything that run does.
Three consequences recur:

* A **send** suspends only if the write lock is held or the transport is
  paused. So a send has up to four outcomes: done in the same run, waiting for
  the lock, written and draining, or raised. A task that has waited for the
  lock writes to whatever `_writer` is then: `None` raises `AttributeError`,
  which passes every `except ViperError` (outcome `crashed` in
  `ViperSession`; `CutShort` in `VideoCall`; `StageCrashes` and `PassCrashes`
  in `HubLink`).
* A **cancellation** is delivered where the task next runs. A task cancelled
  before its first step never enters its `try`, so its `finally` does not run
  (`EndWatcher` in `ViperSession`, `Starts` in `RtspRelay`).
* **`end_task`** (`tasks.py`) tells its caller's cancellation from that of the
  task it ends by `current.cancelling()`, which does not go back to zero. In a
  task that was cancelled before, it raises after the first running task it
  ends: every close or teardown reached from a `finally` stops there
  (`EndTask` in `VideoCall`, `Finalised` in `RtspRelay`, `CloseCut` in
  `HubLink`, `OwnerCancelled` in `ViperSession`).

### ViperSession

`Conns` are `CtpConnection` objects and `Ids` the keys of `_connections`. For
each connection the module keeps what it is for (`kind`), its id, where the
task that uses it is suspended (`step`), its `inbox`, `failed` and
`end_reported`, and how often its end was reported (`ends`). `routes` is
`_connections`; `callTasks`, `registration`, `registered`, `ctpp` are the
session's attributes; `sock`, `channel`, `eof` and `rd` are the writer, the
panel's side of the CTPP channel, the reader's stream and the reader task;
`lockq` and `draining` are the write lock; `tear` and `pending` the teardown;
`owner` what the task that owns the session is doing.

| Code | Actions |
|---|---|
| `_dispatch_ctp`, `_displace`, `_accept_inbound` | `Invite`, `AcceptResumes`, `Route`, `RouteResumes`, `Stray`, `FrameResumes` |
| `_watch_inbound_call` | `WatcherStarts`, `WakeWanted`, `WakeRefused`, `WakeIgnored`, `Timeout`, `FinResumes` |
| `open_door`, `_register` | `OpenDoor`, `Register`, `SynResumes`, the wakes, `FinResumes`, `RegisterCancelled` |
| `_teardown`, `close`, `connect` | `CloseBegins`, `ConnectBegins`, `ReaderStops`, `EndWatcher`, `CloseSocket`, `FinishTeardown`, `OwnerCancelled`, `Opened`, `OpenFails`, `ChannelOpens` |

A packet is what its receiver tells apart: a RELEASE, a FIN, the answer to a
registration, a repeat of the INVITE. Packets every waiter ignores are left
out, and so are sequence numbers.

### Channels

A user is a task that opens channels: a requester, whose requests open, ask and
close a channel each, or a call, which keeps its channels until it closes. `at`
is where it is suspended, `mine` the handle it is at work on; `held`, `media`
and `remote` are what it has to close: the channels it opened, its
`media_handle` and its `remote_media_handle`. `next` and `pool` are `_handles`
and `_open_handles`, and `openw` has the users whose waiter is the one in
`_open_waiters`; `asked`, `open` and `theirs` are what the panel was asked for,
has open, and opened itself. Three variables are history: `late` and `lost`,
the handles given up because their ack came too late and by a cancellation, and
`clash`.

A handle gets into the pool in three ways. `_next_handle` looks for one that is
free. `reserve_handle` adds `(video_handle + 1) & 0xFFFF`, and `_dispatch` the
handle the panel names in an OPEN, whether or not it was there and even if it is
the management's (`Takes`). `clash` has the handles that were, until the next
connection. What they lead to is in the model: two users with one handle, an
open that replaces another's waiter, a close that gives back, or closes, a
handle that is another's or was given back before.

| Code | Actions |
|---|---|
| `_next_handle`, `reserve_handle` | `Free`, `Reached`, `Media`, `Takes` |
| `open_channel` | `OpenBegins`, `OpenWritten`, `OpenTimesOut`, `OpenFails`, `OpenCrashes`, `OpenCancelled`, `Keeps` |
| `request` | `RequestBegins`, `RequestWritten`, `RequestTimesOut`, `RequestReturns`, `RequestCancelled` |
| `close_channel` | `CloseBegins`, `CloseChannel`, `CloseWritten`, `CloseCut` |
| `_dispatch` of acks, answers and the panel's OPENs | `PanelAcks`, `PanelAnswers`, `PanelOpens` |
| `_teardown`, `connect` | `TeardownBegins`, `TeardownEnds`, `Connects` |

Left out: message ids, which are never reused, so that a stale entry of
`_json_waiters` changes nothing; and the answers' contents.

### VideoCall

`stage` is where `open()`, and later `close()`, is; `frame` how far the send
of that stage is (waiting for the lock, written, answered). `known`/`remote`
are the handle attributes, `pending` and `owed` are `_pending_handles` and
`_release_conn`; `handlers`, `incoming` and `routed` are the call's entries in
the session's tables; `panel`, `call` and `told` what the panel knows. Every
stage of `open()` can be answered, time out, be refused, find its connection
displaced or the link lost, or be cancelled; all of these run `Withdraw`, the
local half of `close()`. Then come `EndTask`, `SendRelease`, `CloseChannel`,
each of which may raise what `close()` suppresses, be cancelled, or crash.
`Settled` states the order of the event loop that the queue relies on: the
consumer the reader has woken runs before the reader's next packet (taking
from a queue that is not empty does not suspend, so it then takes all).

Left out: the hour after which `_watch_release` gives up, the contents of
packets, the channels' numbers, a channel the panel opens when the call no
longer listens, and a new link: the supervisor ends the episode first.

### RtspRelay

`Clients` are RTSP connections (each reused when it is gone), `Captures` the
hub's callers of `prepare()`. Each episode has a `phase` (where `_serve` is
suspended), its `ready` event and failure, and the state of its pump and its
idle watcher. `Settled` again states the loop's order: requests woken by an
episode's event run before anything that came after it. `abandon_call` and
`stop()` cancel; `stop()` also cancels the handlers.

`ready = "never"` marks an episode cancelled before its task first ran; `sees`
is the entrance each viewer last asked for, which only a property reads. Left
out: requests that change nothing, a request refused because another call is
up, the packets and their rewriting, and connections accepted in the instant
before `stop()` closes the listener.

### RtpClock

`_Client` and `_fan_out`. `stamp` is the timestamp of the panel's last packet,
counted modulo `M` from a base that each call chooses; `offset`, `last`,
`generation` and `sequence` are the attributes of each client. `heard`, `shown`
and `number` are history: the packet last *written* to a client, the timestamp
it was given and the number after it.

| Code | Actions |
|---|---|
| `_pump`, the head of `_fan_out`'s loop | `Packet` |
| one client's turn in the loop | `Written`, `BackedUp`, `WriteRaises`, with `Framed` (`rtp_frame`) |
| the drops after the loop | `Drops` |
| `_serve` dials; PLAY; a connection and its end | `Dialled`, `Play`, `Reconnect` |

The loop goes from client to client: `todo` has those whose turn is to come,
`dead` those to be dropped. No other task runs in between (`Resting`), but a
write that raises does so after `rtp_frame` moved the client's clock and number
on, and what it leaves of the loop is the question `InStep` and `Continuous`
ask. Each client's first packet, the first of a new call, and a client that
slept through several calls are all the one operator `NewOffset`.

### HubLink

`at` is where the one task that builds connections is suspended:
`async_setup`'s first `_connect`, then the supervisor. `old` says that the
reader of a dead connection is still in its teardown while that task goes on;
`link = "mute"` is a socket whose reader has stopped without a teardown of its
own. Ages (`born`, `due`) stand for the clock, `delay` and `attempt` for the
backoff. `lasted`, `overlap` and `stillborn` are history
variables that only the properties read.

### Captures

The calls are those of `CallLedger`: `Ring`, `End` and `Lose` are its actions
together with what `_on_ring` and `_on_call_end` do. `owed` is
`_captures_owed`, kept by connection id as in the code. A capture is one task
and its process: `at` where its coroutine is suspended,
`proc` the ffmpeg, which may ignore a SIGTERM. `listed` is `_processes`;
`owner`, `sweep` and `current` are `async_shutdown` in `_stop_processes`.

| Code | Actions |
|---|---|
| `_on_ring`, `_on_call_end`, `_snapshot_after_ring` | `Ring`, `End`, `Lose`, with `Owes`, `Take`, `Start` |
| `_apply_options`, the snapshot button | `Configure`, `Press` |
| `async_capture_snapshot`, `async_record_clip`, `_run_ffmpeg`, `_end` | `Started`, `Forked`, `Spawned`, `Interrupted`, `Kills`, `Returns`, `Cancelled`, `Exits` |
| `async_shutdown`, `_stop_processes` | `Sweeps`, `SweepsNext`, `SweepKills`, `SweepReaps` |

The relay's `prepare()` is any answer or error; what a capture writes and
notifies is left out.

### CallLedger

The session's promise to its owner, and nothing about how it keeps it: a call
rings once; it ends at most once and not before its ring; a ring on an id ends
the call that held it in the same step; a teardown may lose a call.
`ViperSession!LedgerSpec` is the refinement: `phase` of a call is computed from
`kind`, `ends` and `step`, and its line is its id.

## 3. What is checked

Every run is `tlc -config <cfg> <module>`. All passing runs but
`clock`, which has no liveness, use `FairSpec`, so that one exploration checks
the safety and the liveness properties.

| Run | Properties | What it shows |
|---|---|---|
| `session` (`MCSession.cfg`) | `TypeOK EndsOnce NoOrphanWaiter EndedIsUnrouted LostOnlyInTeardown LedgerSpec RingEnds TeardownEnds` | displacement, failed acknowledgements, the lock and two teardowns, interleaved in any way, never report an end twice, strand a waiter or route to a dead call; each call ends or is lost to a teardown; the ledger is kept |
| `call` (`MCCall.cfg`) | `TypeOK NothingForgotten ClosedIsDeaf ReleaseIsLast StreamEnds Returns` | the setup and the close of a call, cut or failing anywhere |
| `channels` (`MCChannels.cfg`) | `TypeOK HandlesApart NothingLeaks DownIsDeaf UsersReturn` | a task of requests and a call share the handles with the panel: nothing late, lost, cancelled or torn down gives a handle to two, and only a cancellation leaks; the exception is `clash`, below |
| `relay` (`MCRelay.cfg`) | `TypeOK OneCall Accounted RequestsAnswered CallEnds` | two clients, a capture, abandonment and shutdown around two episodes |
| `clock` (`MCClock.cfg`) | `TypeOK InStep Continuous` | two viewers over three calls with unrelated bases, clients that stop reading or fail in the middle of a fan-out |
| `hub` (`MCHub.cfg`) | `TypeOK ShownIsTrue NothingLeft BackoffClimbs LinkReturns UnloadEnds` | a panel that may turn good or bad at any await |
| `captures` (`MCCaptures.cfg`) | `TypeOK OwedIsRinging OncePerRing Reaped NoneMissed FfmpegEnds UnloadEnds` | rings on one id, options that change, buttons, ffmpegs that hang, and an unload among them |

### Findings

Each of these runs checks one sentence of the repository and finds it violated
by what the code does. `PROJECT.json` quotes the sentence and names the line.

| Run | Sentence | What happens |
|---|---|---|
| `call_abandoned` | `end_task` re-raises "a cancellation of the caller" | the close of an abandoned episode's call stops at the first task it ends: no RELEASE is sent, and the refresher runs for ever |
| `session_ring` | a finished call raises `call_ended` | a call whose watcher is cancelled before it first runs, or whose INVITE was being acknowledged, rings and never ends |
| `relay_other` | each entrance is served at a path of its own | a viewer left playing by a failed redial is sent the video of the entrance that is opened next |
| `captures_unload` | stop "every ffmpeg this entry started" | a process forked while the sweep goes on is left running |
| `relay_idle` | a call ends after the last viewer leaves | the new idle watcher clears the event the last viewer set during a redial |

The passing properties are stated around these cases, not over them:
`RingEnds` and `LostOnlyInTeardown` allow a teardown to lose a call,
`RequestsAnswered` excepts the episode cancelled before its first step,
`Returns` lets a close be cut short, `NothingLeaks` excepts what a cancellation
left and what was acknowledged too late, `NoneMissed` what joined the set after
the sweep took it, `Reaped` and `FfmpegEnds` a capture cancelled inside `_end`, and `BackoffClimbs` excepts a first
connection that died in `async_setup`, after which the backoff does get reset
by a stamp that belongs to no living connection.

`HandlesApart` and `DownIsDeaf` except `clash`. Without the exception both are
false of the code as soon as the counter has come round. The media handle of a
call whose video channel got `0xFFFF` is 0, the management's: the call ends by
sending a CLOSE of the management channel. If the video channel got the handle
before the CTPP channel's, the call ends by closing that one, and its handle can
be given out again while the session still routes its frames as CTP. It takes
65,000 channels on one connection, a panel that names a handle in use, or an
open of the hub's own between a call's video channel and its reservation. No
sentence of the repository says that `reserve_handle` looks, so this is a hazard
in `PROJECT.json` (`session.py:573`) and not a finding. What the properties
say with the exception: nothing else (late acks, timeouts, cancellations, closes,
teardowns, in any order) brings two users to one handle or leaves a waiter behind.
`NothingLeaks` needs no exception.

### Bounds, and why they are enough

* `session`: two connections on one id, two links, one packet per inbox. Two
  connections are what displacement and the clean-up of an id that has a new
  owner need; one id makes every pair collide; the second link is for tasks that
  outlive a teardown. One id barely exercises the hand-over of a registration,
  in which the old and the new connection have ids of their own: there the
  proofs, for any number of ids, cover what the run does not. The bounds are `MaxLinks` and `MaxInbox`;
  the bound on `rd` in `Opened` leaves out a third link opened while the
  teardown of the first still runs.
* `call`: one call, one channel opened by the panel, a queue of two. The queue
  is full before the consumer starts and after one packet too many. With two
  channels opened by the panel `ClosedIsDeaf` and `NothingForgotten` fail:
  `_on_incoming_channel` (`call.py:157`) overwrites `remote_media_handle`, and
  `close()` knows only the last. The panels open one.
* `channels`: one requester, one call, three handles of which one is the
  management's. With two left for two users and the panel the counter wraps,
  finds handles in use, and finds none free; the media handle is the management's
  every other time. `Named`: in the run the panel names one handle in its OPENs,
  which may be free or not, as often as it likes. `Cuts`: cancellations may leave
  handles behind as long as none is left behind; one close cut short can leave
  several. The safety properties hold without this bound, with `Named = {0, 2}`,
  and with four handles and `Named = {}`; the proofs are for any of them.
* `relay`: two clients, one of them remote with a cap of one, one capture, one
  target, two episodes. An episode is reused once nobody looks at it, so the
  pool bounds only those alive or waited for at a time.
* `clock`: timestamps modulo 5, a gap of 2, sequence numbers modulo 3, three
  calls: a base may be ahead of the last one, behind it and across the wrap, and
  a client may sleep through a whole call.
* `captures`: two calls on one id, one of them a floor call, and two captures,
  which is what a ring that wants both kinds takes; the second call ends while
  the captures of the first are at any stage.
* `hub`: `Delays` and `Patience` are the code's own 7 (`RECONNECT_BACKOFF`) and
  3 (the refusals that start a reauthentication). Ages have three values
  because the code compares against two limits.

### Fairness

Weak fairness of each task's steps, because the event loop runs every ready
task, and of the waits that have a timeout (`CtpConnection.wait`,
`open_channel`, `request`, the backoff and the watchdog's sleep, `IDLE_GRACE`).
A write that is stuck is assumed to end, with an error if the peer is gone. No
fairness is assumed of the panel: it need not answer, hang up, send media or
come back. An ffmpeg need not exit on SIGTERM; one that was killed does. Clients
need not leave and a call need not end. `LinkReturns` is
conditional: *if* the panel is well from some time on. In `StreamEnds` the
second part is conditional on the panel staying silent.

`CHECK_DEADLOCK FALSE` is given where the system may really stop: a session
out of connections and links, a call that is closed, a relay that is stopped,
an entry that is unloaded.

### Mutants

Definitions that begin with the comment "Mutant:" are plausible mistakes in
the code (a reset left out, a clean-up by id where the owner should be
compared, a missing guard). Each property of a passing run has one, listed in
`PROJECT.json`, that TLC must find it violated under.

## 4. What is proved

Every safety property of the passing runs is proved, for every value of the
constants. Each proof module rests on the named assumption of its component
(`SessionConstants`, `CallConstants`, ...: null values are not members of the
sets they stand beside, sizes are numbers in the range the code has) and on
nothing else. In each, an inductive invariant `IInv` is shown to hold initially
and to be kept by every action, and the properties follow from it. TLC agrees
with every conjunct on the instance of the run.

The theorems in the second column that no run names (in italics) are stated in
the proof modules. They say what the liveness properties rest on, that whoever
waits is known to somebody who will wake it, or what the code keeps where a
property of a run needs more of the panel. TLC agreed with each of them on the
instance of the component's run before it was proved.

| Module | Theorems | The strengthening, and why it is needed |
|---|---|---|
| `ViperSessionProofs` | `TypeOK EndsOnce EndedIsUnrouted NoOrphanWaiter LostOnlyInTeardown LedgerSpec`, *no two calls ring on one id*, *`WriteLock`*, *`FailedForGood`* | below |
| `CallLedgerProofs` | no two calls ring on one line | with the types it is inductive |
| `ChannelsProofs` | `TypeOK HandlesApart NothingLeaks DownIsDeaf`, *`WaitersListed`* | `HandlesApart` and `NothingLeaks` speak of a live link only, but a handle taken while a teardown goes on is still in the tables of the next moment: `Apart` extends the first to it, and adds that a user has a handle outside `clash` once only, so that giving it back takes it from nobody; `Waiting` ties a waiter to its entry in `_open_waiters`, without which a teardown could miss it; `Known` carries what a channel being closed still stands for |
| `VideoCallProofs` | `TypeOK ReleaseIsLast`, *`OwnAffairs`*, *`EndIsKept`*; `ClosedIsDeaf NothingForgotten` in every call that satisfies `OneChannel` | `Begun` (what `close()` has taken over), `Still` (the tasks are over before the RELEASE is sent), `Deaf` and `Kept` (before `close()` every handler and every channel is in the attributes it reads), `Ends` (the watchers are created with the consumer, so that the sentinel they queue has a reader and stays) |
| `RtspRelayProofs` | `TypeOK OneCall Accounted`, *`NobodyStranded`* | `Current`: an episode that is not over is `_episode`. `OneCall` says nothing of an episode whose task has not run, and it is from one of those that a second call would come. `Served`: the event of an episode that relays or closes is set, so that its end strands nobody |
| `RtpClockProofs` | `TypeOK InStep Continuous`, and `Follows` | `Follows`: what a viewer was written last is the panel's timestamp under the offset it has now, and all that was made for it was written, unless it is about to be dropped. `InStep` is proved with what it says in the middle of the loop: whose turn was had has the packet. The arithmetic is in lemmas about differences modulo `M`, and holds for any `M`, 2^32 among them |
| `HubLinkProofs` | `TypeOK ShownIsTrue NothingLeft BackoffClimbs`, *`Patient`*, *`NoLostWakeup`* | `Sockets` and `Shows`: what there is, and what is shown, by where the task that builds connections is; `Leaving`: how far an unload has got by where its cancellation found that task; `Climbing`: no socket is older than `_connected_at` says, and `_attempt` is what the last delay made it |
| `CapturesProofs` | `TypeOK OwedIsRinging OncePerRing Reaped NoneMissed`, *`OwedIsTaken`* | `Rung`: the ledger's promise, in particular that no two calls ring on one id; it is what makes the id a safe key of `_captures_owed`. `Untaken`: nothing was taken yet for a ring that is owed; `Forks` and `Sweeping`: a capture and the sweep wait for processes that exist |

`OneChannel` is a state predicate, not an assumption: the panel has opened at
most one media channel in this call so far. Two theorems are
`[](OneChannel => ...)`, because after a second channel they are false
(`call.py:157`, see the bounds of `call`). What holds whatever the panel opens
is `OwnAffairs`: the call's own channels and its RELEASE are still owed or
paid, and a closed call is off the session's tables. The sentinel that ends the
packets differs in the same way: once a watcher has queued it, it stays
(`EndIsKept`); the one `close()` queues before a consumer exists can still be
pushed out by the media of a channel that was replaced.

`NobodyStranded` and `NoLostWakeup` are what `RequestsAnswered` and
`LinkReturns` rest on. The first says that a request waits for an event that is
set, or that the task of the current episode, at its first dial, is still to
set; the exception is the one `RequestsAnswered` names, an episode cancelled
before its task first ran (`ready` is `"never"`). The second says that a
supervisor which waits while there is no socket finds `_changed` set, or that
the teardown which ends in `_on_disconnect` is still running: it matters
because the supervisor clears the event each time it goes round.
`OwedIsTaken` is an action property: an owed ring leaves `_captures_owed` in
the step that starts the captures the options ask for, unless its call was lost
to a teardown and another ring took its place.

### The session

`EndsOnce` depends on who may still report an end: a watcher, the reader that
acknowledges the INVITE, `_displace`. The strengthening is `Inv`:

* `RouteInv`: an id routes only to a connection that has that id, is in use,
  and has not ended;
* `CallInv`: an end is reported at most once, and not yet for a call whose
  watcher is alive and was not displaced (`end_reported`); an unused connection
  has no task and no history; only calls are acknowledged or about to be
  watched, only outbound transactions send a first packet;
* `AckInv`: the call whose INVITE is being acknowledged is the one the reader is
  suspended in; it has not ended, and it holds its id unless a teardown has
  failed it and taken the table and the CTPP channel away;
* `RegInv`: the registration that is kept, and the one it replaces, have their
  answer: no task waits on them;
* `NoOrphanWaiter` itself.

`WriteLock` says that the line for `_write_lock` holds each task at most once,
and exactly those that are in a send: nobody waits for a lock whose holder was
cancelled, displaced or torn down. It needs `QueueInv` (below) and
`WatchersInv`: the tasks a teardown ends are watchers of calls. `FailedForGood`
says that a connection has failed if and only if the sentinel is in its inbox,
and that none that failed is routed: `wait()` puts the sentinel back, and
nothing is routed to the connection again.

### The refinement

`LedgerHolds` is `Spec => LedgerSpec`: the session implements the ledger. What
makes it hard is the ring of a call: the ledger says that it ends *every* call
that rings on the id, the code ends the one the table names. So it must be
known that a ringing call is in the table, which is false while the channel is
down (a teardown clears the table and leaves the watchers) and must be true
again before the first INVITE of a new link. Two more invariants say so:

* `RingInv`: a call that has not ended is followed by a task or lost; while it
  is followed it is routed, or the CTPP channel is not open;
* `QueueInv`: a reader that acknowledges and a watcher that sends its FIN are in
  the line for the write lock.

The channel opens when no task is ready and the lock is free. A call that was
still followed then would be neither starting nor, by `QueueInv`, sending; it
would be waiting with nothing in its inbox, and `NoOrphanWaiter` puts it in the
table. The step simulation (`RingStep`) then takes each action to `Ring`,
`End`, `Lose` or a stutter. `OneRingPerIdHolds` draws the consequence for the
session itself.

### Only model-checked

The liveness properties `RingEnds`, `TeardownEnds`, `UsersReturn`, `StreamEnds`,
`Returns`, `RequestsAnswered`, `CallEnds`, `LinkReturns`, `FfmpegEnds` and
`UnloadEnds`: fairness and `ENABLED` are beyond the prover. The findings are
counterexamples and need no proof.

## 5. What is not modelled, and why

* What `open_door` answers its caller: it may raise though the door opened.
* The relay's parsing of requests, the SDP and the parameter sets: functions of
  their input, and unit-tested.
* Codecs and configuration parsing: the same.
* The web client, the config flow and the discovery: one flow at a time,
  straight-line code that shares nothing with a running link but the token.
* The migration and the rekeying of entities in `__init__.py`: one synchronous
  pass each over Home Assistant's registry.
* The names in the hub's notifications, the files a capture writes, the
  attributes of entities.
* In `HubLink`: the age of the stamp a connection leaves does not grow during a
  slow teardown, and a refused token is not followed by the end of the stream in
  the same run of the reader.
* Home Assistant itself: `HubLink`'s and `Captures`' `owner` stands for it.
  Setup is taken not to be cancelled.
* The components together: see the plan.

## 6. Plan

1. *(done)* `CallLedger`, `ViperSession`, `HubLink`, `RtspRelay`, `VideoCall`.
2. *(done)* `Channels`, `Captures`, `RtpClock`.
3. *(done)* The safety properties of all of them, and the refinement of
   `CallLedger`, proved.
4. A composition of `VideoCall` and `ViperSession` through the call's
   connection: `close()` takes it out of the table before it sends the RELEASE,
   so that a call may ring on its id in between. Of `RtspRelay` and `VideoCall`
   through the episode's call, with `VideoCall` as the implementation of the
   call the relay sees.
5. The answer of `open_door`, and the config flow's login.
