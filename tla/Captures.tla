------------------------------- MODULE Captures -------------------------------
(***************************************************************************)
(* The captures of the hub (hub.py): the picture and the clip owed after a *)
(* visitor's ring or asked for with a button, the ffmpeg each one runs, and *)
(* the sweep of the processes when the entry is unloaded.                  *)
(*                                                                         *)
(* The rings are those of CallLedger, which ViperSession implements.  The  *)
(* relay and the panel behind it are external: prepare() returns or raises. *)
(* A capture is a task and its process: its step runs from one await to    *)
(* the next.                                                               *)
(***************************************************************************)
EXTENDS Naturals

CONSTANTS Calls, Lines, NoLine,  \* as in CallLedger
          Floor,      \* the calls with the tag of a floor call
          Tagged,     \* those with the tag of an entrance
          InBook,     \* those whose origin the address book has as an entrance
          Tasks,      \* bound: the captures there may be
          NoCall, NoTask

ASSUME CaptureConstants ==
    /\ NoCall \notin Calls /\ NoLine \notin Lines /\ NoTask \notin Tasks
    /\ Floor \cap Tagged = {}

Kinds == {"snapshot", "clip"}

VARIABLES
    phase, line,  \* the calls the session reports
    options,   \* snapshot_on_ring and record_on_ring, as a set of kinds
    owed,      \* _captures_owed: the call that left its origin under a line
    at,        \* where each capture is suspended; "cut": cancelled inside _end
    kind,      \* what it takes; for a button's it makes no difference
    by,        \* the ring it is taken after, NoCall for a button's
    proc,      \* its process: a terminated one exits or not, as any
    listed,    \* _processes
    owner,     \* async_shutdown: "running" before it, "down" after
    sweep,     \* the processes _stop_processes has still to end
    current    \* the one it is ending

tasks == <<at, kind, by>>
unload == <<owner, sweep, current>>
vars == <<phase, line, options, owed, tasks, proc, listed, unload>>

Ledger == INSTANCE CallLedger

TypeOK ==
    /\ Ledger!LedgerTypeOK
    /\ options \subseteq Kinds
    /\ owed \in [Lines -> Calls \cup {NoCall}]
    /\ at \in [Tasks -> {"unused", "starting", "spawning", "running", "ending", "killing",
                         "done", "cut"}]
    /\ kind \in [Tasks -> Kinds] /\ by \in [Tasks -> Calls \cup {NoCall}]
    /\ proc \in [Tasks -> {"none", "alive", "killed", "dead"}]
    /\ listed \subseteq Tasks /\ sweep \subseteq Tasks
    /\ owner \in {"running", "sweeping", "ending", "killing", "down"}
    /\ current \in Tasks \cup {NoTask}

Init ==
    /\ Ledger!Init
    /\ options \in SUBSET Kinds
    /\ owed = [l \in Lines |-> NoCall]
    /\ at = [t \in Tasks |-> "unused"]
    /\ kind = [t \in Tasks |-> "snapshot"] /\ by = [t \in Tasks |-> NoCall]
    /\ proc = [t \in Tasks |-> "none"]
    /\ listed = {} /\ owner = "running" /\ sweep = {} /\ current = NoTask

-----------------------------------------------------------------------------
(* The rings.                                                               *)

\* Mutant: a floor call names an entrance as its origin, and is taken for one.
AnyEntrance(c) == c \in Tagged \cup InBook

IsEntranceCall(c) == c \notin Floor /\ (c \in Tagged \/ c \in InBook)

\* A new capture for every pair <<ring, kind>>, while Tasks last.  It runs up to
\* its first await at once: _dial raises when the relay is gone.
Start(jobs) ==
    LET Places == {f \in [jobs -> {t \in Tasks : at[t] = "unused"}] :
                      \A i, j \in jobs : f[i] = f[j] => i = j}
        place == CHOOSE f \in Places : TRUE
        Job(t) == {j \in jobs : place[j] = t}
    IN  /\ Places # {}
        /\ at' = [t \in Tasks |-> IF Job(t) # {} THEN IF owner = "down" THEN "done" ELSE "starting"
                                  ELSE at[t]]
        /\ by' = [t \in Tasks |-> IF Job(t) # {} THEN (CHOOSE j \in Job(t) : TRUE)[1] ELSE by[t]]
        /\ kind' = [t \in Tasks |-> IF Job(t) # {} THEN (CHOOSE j \in Job(t) : TRUE)[2] ELSE kind[t]]

\* _on_call_end, for the rings taken out of the table: the options of now say
\* what is taken.
Take(rings) == Start((rings \ {NoCall}) \X options)

\* Mutant: the entry stays in the table.
LeftAfterRead(l) == owed[l]

\* What is under the line once its entry has been popped.
LeftAfterEnd(l) == NoCall

\* Mutant: the table keeps the connection id in place of the call's origin.
OwesLine(c, x) == IF options # {} /\ IsEntranceCall(c) THEN CHOOSE l \in Lines : TRUE ELSE x

\* _on_ring, for a call on a line that has x in the table.
Owes(c, x) == IF options # {} /\ IsEntranceCall(c) THEN c ELSE x

\* The calls the ring ends are reported before it, and the ring's own end, when
\* its acknowledgement fails, after it.
Ring(c, l) ==
    /\ Ledger!Ring(c, l)
    /\ LET ended == \E d \in Calls \ {c} : phase[d] # "ended" /\ phase'[d] = "ended"
           before == IF ended THEN owed[l] ELSE NoCall
           after == Owes(c, IF ended THEN LeftAfterEnd(l) ELSE owed[l])
       IN  IF phase'[c] = "ended"
           THEN /\ Take({before, after})
                /\ owed' = [owed EXCEPT ![l] = LeftAfterEnd(l)]
           ELSE /\ Take({before})
                /\ owed' = [owed EXCEPT ![l] = after]
    /\ UNCHANGED <<options, proc, listed, unload>>

End(c) ==
    /\ Ledger!End(c)
    /\ Take({owed[line[c]]})
    /\ owed' = [owed EXCEPT ![line[c]] = LeftAfterEnd(line[c])]
    /\ UNCHANGED <<options, proc, listed, unload>>

\* A teardown that ends the watcher before it ran: nobody calls _on_call_end.
Lose(c) ==
    /\ Ledger!Lose(c)
    /\ UNCHANGED <<options, owed, tasks, proc, listed, unload>>

\* async_update_options, when the relay need not move.
Configure(s) ==
    /\ owner = "running" /\ (\E c \in Calls : phase[c] # "ended") /\ options' = s
    /\ UNCHANGED <<phase, line, owed, tasks, proc, listed, unload>>

\* A button or an action of the loaded entry asks for a capture: which kind
\* makes no difference here.
Press ==
    /\ owner = "running"
    /\ Start({<<NoCall, "snapshot">>})
    /\ UNCHANGED <<phase, line, options, owed, proc, listed, unload>>

-----------------------------------------------------------------------------
(* A capture, and the _end of its process.                                  *)

Goes(t, s) ==
    /\ at' = [at EXCEPT ![t] = s]
    /\ UNCHANGED <<phase, line, options, owed, kind, by, unload>>

\* Before the process: prepare(), and for a clip two jobs of the executor (is
\* the path allowed, make the directory).  Each may be the last.
Started(t) ==
    /\ at[t] = "starting" /\ (Goes(t, "spawning") \/ Goes(t, "done"))
    /\ UNCHANGED <<proc, listed>>

\* The process exists before create_subprocess_exec returns.
Forked(t) ==
    /\ at[t] = "spawning" /\ proc[t] = "none"
    /\ proc' = [proc EXCEPT ![t] = "alive"]
    /\ UNCHANGED <<phase, line, options, owed, tasks, listed, unload>>

Spawned(t) ==
    /\ at[t] = "spawning"
    /\ IF proc[t] = "none" THEN Goes(t, "done") /\ UNCHANGED listed
       ELSE Goes(t, "running") /\ listed' = listed \cup {t}
    /\ UNCHANGED proc

Killed(t) == proc' = [proc EXCEPT ![t] = IF @ = "dead" THEN @ ELSE "killed"]

\* Mutant: a process is out of the set before it has ended.
LeavesEarly(t) == listed' = listed \ {t}

\* The process is in the set until the finally.
StaysListed(t) == UNCHANGED listed

\* communicate() takes longer than it may, or is cancelled: _end.
Interrupted(t) ==
    /\ at[t] = "running"
    /\ Goes(t, "ending") /\ StaysListed(t)
    /\ UNCHANGED proc

\* Mutant: no process is killed.
TerminatesOnly(t) == UNCHANGED vars

\* It is still there after TERMINATE_GRACE.
Kills(t) ==
    /\ at[t] = "ending" /\ proc[t] # "dead"
    /\ Goes(t, "killing") /\ Killed(t)
    /\ UNCHANGED listed

\* Mutant: what was killed is not waited for.
Signalled(t) == proc[t] \in {"killed", "dead"}

Exited(t) == proc[t] = "dead"

\* communicate() or _end returns once the process has exited.
Returns(t) ==
    /\ at[t] \in {"running", "ending", "killing"} /\ Exited(t)
    /\ Goes(t, "done") /\ listed' = listed \ {t}
    /\ UNCHANGED proc

\* A capture asked for by a script is cancelled with it.  create_subprocess_exec
\* kills what it forked; a cancellation inside _end leaves the process as it is.
Cancelled(t) ==
    /\ by[t] = NoCall
    /\ \/ at[t] \in {"starting", "spawning"} /\ proc[t] = "none" /\ Goes(t, "done")
          /\ UNCHANGED <<proc, listed>>
       \/ at[t] = "spawning" /\ proc[t] # "none" /\ Goes(t, "killing")
          /\ Killed(t) /\ UNCHANGED listed
       \/ at[t] \in {"ending", "killing"} /\ proc[t] # "dead" /\ Goes(t, "cut")
          /\ listed' = listed \ {t} /\ UNCHANGED proc

\* ffmpeg exits, on its own or for a signal; nothing outlives a kill.
Exits(t) ==
    /\ proc[t] \in {"alive", "killed"}
    /\ proc' = [proc EXCEPT ![t] = "dead"]
    /\ UNCHANGED <<phase, line, options, owed, tasks, listed, unload>>

-----------------------------------------------------------------------------
(* async_shutdown, after its supervisor has ended.                          *)

others == <<phase, line, options, owed, tasks>>

\* _stop_processes takes the set.
Sweeps ==
    /\ owner = "running" /\ owner' = "sweeping"
    /\ sweep' = listed /\ listed' = {}
    /\ UNCHANGED <<others, proc, current>>

\* It ends the next one, or has ended all and stops the relay and the session.
SweepsNext ==
    /\ owner = "sweeping"
    /\ IF sweep = {} THEN owner' = "down" /\ UNCHANGED <<sweep, current>>
       ELSE \E t \in sweep :
                /\ sweep' = sweep \ {t} /\ current' = t /\ owner' = "ending"
    /\ UNCHANGED <<others, proc, listed>>

\* Mutant: the sweep waits for what it terminated as long as it takes.
SweepWaits == UNCHANGED vars

SweepKills ==
    /\ owner = "ending" /\ proc[current] # "dead"
    /\ owner' = "killing" /\ Killed(current)
    /\ UNCHANGED <<others, listed, sweep, current>>

SweepReaps ==
    /\ owner \in {"ending", "killing"} /\ proc[current] = "dead"
    /\ owner' = "sweeping" /\ current' = NoTask
    /\ UNCHANGED <<others, proc, listed, sweep>>

-----------------------------------------------------------------------------

\* What the event loop, the timeouts and the system do sooner or later.
Runs(t) == Started(t) \/ Spawned(t) \/ Interrupted(t) \/ Returns(t)

Shutdown == SweepsNext \/ SweepKills \/ SweepReaps

Next ==
    \/ \E c \in Calls : End(c) \/ Lose(c) \/ \E l \in Lines : Ring(c, l)
    \/ \E s \in SUBSET Kinds : Configure(s)
    \/ \E t \in Tasks : Runs(t) \/ Kills(t) \/ Forked(t) \/ Cancelled(t) \/ Exits(t)
    \/ Press \/ Sweeps \/ Shutdown

Spec == Init /\ [][Next]_vars

\* A process that was killed exits; one that was not owes nothing.
FairSpec ==
    /\ Spec /\ WF_vars(Shutdown)
    /\ \A t \in Tasks : /\ WF_vars(Runs(t)) /\ WF_vars(Kills(t))
                        /\ WF_vars(proc[t] = "killed" /\ Exits(t))

-----------------------------------------------------------------------------

\* What is owed under a line is a visitor's ring on that line whose end has
\* not been reported: _captures_owed is keyed by a connection id that calls use
\* one after the other, and a displaced call ends before the new one rings.
OwedIsRinging ==
    \A l \in Lines : owed[l] # NoCall =>
        /\ owed[l] \in (Tagged \cup InBook) \ Floor
        /\ line[owed[l]] = l /\ phase[owed[l]] \in {"ringing", "lost"}

\* A ring starts no more than a picture and a clip, and starts them when it is
\* over: "both wait for the ring to end and then dial" (README.md:138).
OncePerRing ==
    \A t \in Tasks : by[t] # NoCall =>
        /\ phase[by[t]] \in {"ended", "lost"}
        /\ \A u \in Tasks \ {t} : <<by[u], kind[u]>> # <<by[t], kind[t]>>

\* No capture returns before its ffmpeg is dead, whoever ended it, but one
\* cancelled inside _end (_run_ffmpeg: "make sure it is dead before returning").
Reaped ==
    \A t \in Tasks : at[t] = "done" => proc[t] \in {"none", "dead"}

\* Every process a capture waits for is in the set, with the sweep, or dead:
\* an unload leaves only what joined the set after it was taken.
NoneMissed ==
    \A t \in Tasks : at[t] \in {"running", "ending"} /\ proc[t] # "dead" =>
        \/ t \in listed
        \/ owner # "down" /\ t \in sweep \cup {current}

\* Every ffmpeg ends, however it hangs, but one whose capture was cancelled
\* inside _end.
FfmpegEnds == \A t \in Tasks : proc[t] = "alive" ~> (proc[t] = "dead" \/ at[t] = "cut")

\* An unload comes to its end while captures go on.
UnloadEnds == owner = "sweeping" ~> owner = "down"

\* "Stop every ffmpeg this entry started" (hub.py:587): refuted, a process
\* that joins the set after the sweep took it is left running.
UnloadStopsAll ==
    owner = "down" => \A t \in Tasks : proc[t] \in {"none", "dead"}
===============================================================================
