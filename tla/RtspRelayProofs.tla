---------------------------- MODULE RtspRelayProofs ----------------------------
(***************************************************************************)
(* That the panel never gets a second call and that a client that counts   *)
(* has a handler, for any number of clients, captures, entrances and       *)
(* episodes.  An episode that is not over is _episode: a request begins    *)
(* one only when none serves, and every end of the task that leaves        *)
(* _episode as it is leaves the episode over.  From that it follows that   *)
(* no request waits for an event that no task is left to set.              *)
(***************************************************************************)
EXTENDS RtspRelay, TLAPS

\* An episode that is not over is the current one.
Current == \A e \in Episodes : phase[e] # "done" => current = e

\* The types of the flags, and of the rest.
Flags ==
    /\ cancelled \in [Episodes -> BOOLEAN] /\ pumped \in [Episodes -> BOOLEAN]
    /\ again \in [Episodes -> BOOLEAN] /\ idle \in BOOLEAN

Typed ==
    /\ current \in Episodes \cup {None}
    /\ phase \in [Episodes -> Alive \cup {"done"}]
    /\ target \in [Episodes -> Targets \cup {None}]
    /\ ready \in [Episodes -> {"no", "yes", "failed", "never"}]
    /\ idler \in [Episodes -> {"new", "waiting", "sleeping", "done"}]
    /\ at \in [Askers -> {"away", "reading", "asking"}]
    /\ joined \in [Askers -> Episodes \cup {None}]
    /\ wants \in [Askers -> {"describe", "play", "prepare"}]
    /\ clients \subseteq Clients /\ playing \subseteq clients
    /\ sees \in [Clients -> Targets \cup {None}]
    /\ stop \in {"no", "clients", "done"}

\* The inductive invariant.
IInv == TypeOK /\ Current /\ Accounted

\* Together they are the type invariant.
LEMMA Types == (TypeOK <=> Flags /\ Typed) /\ (TypeOK' <=> Flags' /\ Typed')
BY DEF TypeOK, Flags, Typed

-----------------------------------------------------------------------------
(* What the actions are built from.                                         *)

\* A client that is dropped stops counting, and nobody else does.
LEMMA Dropping ==
    ASSUME IInv, NEW c \in Clients, Drop(c)
    PROVE  /\ clients' = clients \ {c} /\ playing' \subseteq clients' /\ clients' \subseteq Clients
           /\ idle' \in BOOLEAN /\ sees' \in [Clients -> Targets \cup {None}]
BY SMT DEF IInv, TypeOK, Drop

\* A request that has been answered leaves the lists in order.
LEMMA Answering ==
    ASSUME IInv, NEW a \in Askers, NEW w, NEW e,
           NEW s \in [Clients -> Targets \cup {None}], Answered(a, w, e, s)
    PROVE  /\ at' \in [Askers -> {"away", "reading", "asking"}]
           /\ joined' \in [Askers -> Episodes \cup {None}]
           /\ wants' \in [Askers -> {"describe", "play", "prepare"}]
           /\ clients' \subseteq clients /\ playing' \subseteq clients'
           /\ idle' \in BOOLEAN /\ sees' \in [Clients -> Targets \cup {None}]
           /\ \A c \in clients' : at'[c] # "away"
<1>1. CASE /\ a \in Captures
           /\ at' = [at EXCEPT ![a] = "away"]
           /\ sees' = s /\ UNCHANGED listVars
  BY <1>1, RelayConstants, SMT DEF IInv, TypeOK, Accounted, Answered, listVars, Askers
<1>2. CASE /\ a \in clients
           /\ at' = [at EXCEPT ![a] = "reading"]
           /\ IF w = "play" /\ ready[e] = "yes"
              THEN playing' = playing \cup {a} ELSE UNCHANGED playing
           /\ sees' = s /\ UNCHANGED <<clients, idle>>
  BY <1>2, SMT DEF IInv, TypeOK, Accounted, Answered, Askers
<1>3. CASE /\ a \in Clients \ clients
           /\ at' = [at EXCEPT ![a] = "away"]
           /\ Drop(a)
  BY <1>3, Dropping, SMT DEF IInv, TypeOK, Accounted, Answered, Askers
<1> QED BY <1>1, <1>2, <1>3 DEF Answered

\* So has one that waits.
LEMMA Awaiting ==
    ASSUME IInv, NEW a \in Askers, NEW w \in {"describe", "play", "prepare"},
           NEW e \in Episodes, NEW s \in [Clients -> Targets \cup {None}], Waits(a, w, e, s)
    PROVE  /\ at' \in [Askers -> {"away", "reading", "asking"}]
           /\ joined' \in [Askers -> Episodes \cup {None}]
           /\ wants' \in [Askers -> {"describe", "play", "prepare"}]
           /\ UNCHANGED listVars /\ sees' = s
           /\ \A c \in clients' : at'[c] # "away"
BY SMT DEF IInv, TypeOK, Accounted, Waits, listVars, Askers

\* What a client has asked to see is an entrance.
LEMMA Seeing ==
    ASSUME IInv, NEW a \in Askers, NEW t \in Targets
    PROVE  Asked(a, t) \in [Clients -> Targets \cup {None}]
BY DEF IInv, TypeOK, Asked

-----------------------------------------------------------------------------
(* One lemma for each kind of actor.                                        *)

\* A request joins the episode that serves, or begins one when none does.
LEMMA RequestKeeps ==
    ASSUME IInv, NEW a \in Askers, Request(a)
    PROVE  IInv'
<1>1. PICK t \in Targets, w \in {"describe", "play", "prepare"} :
          Join(a, w, t) \/ \E e \in Episodes : Begin(a, w, t, e)
  BY DEF Request
<1>2. Asked(a, t) \in [Clients -> Targets \cup {None}]
  BY Seeing
<1>3. UNCHANGED stop
  BY DEF Request
<1>4. CASE Join(a, w, t)
  <2>1. current \in Episodes /\ UNCHANGED episodeVars
    BY <1>4 DEF IInv, TypeOK, Join, Serving
  <2>2. Waits(a, w, current, Asked(a, t)) \/ Answered(a, w, current, Asked(a, t))
    BY <1>4 DEF Join
  <2>3. /\ at' \in [Askers -> {"away", "reading", "asking"}]
        /\ joined' \in [Askers -> Episodes \cup {None}]
        /\ wants' \in [Askers -> {"describe", "play", "prepare"}]
        /\ clients' \subseteq clients /\ playing' \subseteq clients'
        /\ idle' \in BOOLEAN /\ sees' \in [Clients -> Targets \cup {None}]
        /\ \A c \in clients' : at'[c] # "away"
    <3>1. CASE Waits(a, w, current, Asked(a, t))
      BY <1>2, <2>1, <3>1, Awaiting DEF IInv, TypeOK, listVars
    <3>2. CASE Answered(a, w, current, Asked(a, t))
      BY <1>2, <2>1, <3>2, Answering
    <3> QED BY <2>2, <3>1, <3>2
  <2> QED BY <1>3, <2>1, <2>3, SMT DEF IInv, TypeOK, Current, Accounted, episodeVars
<1>5. ASSUME NEW e \in Episodes, Begin(a, w, t, e) PROVE IInv'
  <2>1. Waits(a, w, e, Asked(a, t)) /\ UNCHANGED <<pumped, idler, again>>
    BY <1>5 DEF Begin
  <2>2. /\ at' \in [Askers -> {"away", "reading", "asking"}]
        /\ joined' \in [Askers -> Episodes \cup {None}]
        /\ wants' \in [Askers -> {"describe", "play", "prepare"}]
        /\ UNCHANGED listVars /\ sees' \in [Clients -> Targets \cup {None}]
        /\ \A c \in clients' : at'[c] # "away"
    BY <1>2, <2>1, Awaiting
  <2>3. /\ current' = e /\ phase' = [phase EXCEPT ![e] = "new"]
        /\ target' = [target EXCEPT ![e] = t] /\ ready' = [ready EXCEPT ![e] = "no"]
        /\ cancelled' = [cancelled EXCEPT ![e] = FALSE]
    BY <1>5 DEF Begin
  <2>4. \A f \in Episodes : phase[f] = "done"
    BY <1>5, RelayConstants DEF IInv, TypeOK, Current, Begin, Serving
  <2>5. Current'
    BY <2>3, <2>4 DEF IInv, TypeOK, Current
  <2>6. Accounted'
    BY <1>3, <2>2 DEF IInv, Accounted, listVars
  <2>7. TypeOK'
    BY <1>3, <2>1, <2>2, <2>3, SMT DEF IInv, TypeOK, Alive, listVars
  <2> QED BY <2>5, <2>6, <2>7 DEF IInv
<1> QED BY <1>1, <1>4, <1>5

\* A request that is answered.
LEMMA AnswerKeeps ==
    ASSUME IInv, NEW a \in Askers, Answer(a)
    PROVE  IInv'
<1>1. joined[a] \in Episodes \cup {None}
  BY DEF IInv, TypeOK
<1>2. UNCHANGED <<episodeVars, stop>> /\ Answered(a, wants[a], joined[a], sees)
  BY DEF Answer
<1>3. sees \in [Clients -> Targets \cup {None}]
  BY DEF IInv, TypeOK
<1>4. /\ at' \in [Askers -> {"away", "reading", "asking"}]
      /\ joined' \in [Askers -> Episodes \cup {None}]
      /\ wants' \in [Askers -> {"describe", "play", "prepare"}]
      /\ clients' \subseteq clients /\ playing' \subseteq clients'
      /\ idle' \in BOOLEAN /\ sees' \in [Clients -> Targets \cup {None}]
      /\ \A c \in clients' : at'[c] # "away"
  BY <1>2, <1>3, Answering
<1> QED BY <1>2, <1>4, SMT DEF IInv, TypeOK, Current, Accounted, episodeVars

\* A step of an episode's task: the end of it that leaves _episode as it is
\* leaves the episode over.
LEMMA ServeKeeps ==
    ASSUME IInv, NEW e \in Episodes, ServeStep(e)
    PROVE  IInv'
<1> USE DEF IInv, TypeOK, Current, Accounted, Alive, clientVars, askVars, listVars
<1>1. CASE Starts(e)
  <2>1. Flags' BY <1>1, ZenonT(60) DEF Flags, Starts, IsOver, Goes
  <2>4. Typed' BY <1>1, SMT DEF Typed, Starts, IsOver, Goes
  <2>2. Current' BY <1>1, SMT DEF Starts, IsOver, Goes
  <2>3. Accounted' BY <1>1, SMT DEF Starts, IsOver, Goes
  <2> QED BY <2>1, <2>2, <2>3, <2>4, Types DEF IInv
<1>2. CASE Dialled(e)
  BY <1>2, SMT DEF Dialled, Goes
<1>3. CASE DialFails(e)
  BY <1>3, SMT DEF DialFails, Finishes, IsOver
<1>4. CASE DialCancelled(e)
  BY <1>4, SMT DEF DialCancelled, Goes
<1>5. CASE Undialled(e)
  BY <1>5, SMT DEF Undialled, Finishes, IsOver
<1>6. CASE RelayEnds(e)
  <2>1. Flags' BY <1>6, ZenonT(60) DEF Flags, RelayEnds, Goes
  <2>4. Typed' BY <1>6, SMT DEF Typed, RelayEnds, Goes
  <2>2. Current' BY <1>6, SMT DEF RelayEnds, Goes
  <2>3. Accounted' BY <1>6, SMT DEF RelayEnds, Goes
  <2> QED BY <2>1, <2>2, <2>3, <2>4, Types DEF IInv
<1>7. CASE Ended(e)
  BY <1>7, SMT DEF Ended, Goes
<1>8. CASE Closed(e)
  <2>1. Flags' BY <1>8, ZenonT(60) DEF Flags, Closed, Finishes, IsOver, Goes
  <2>4. Typed' BY <1>8, SMT DEF Typed, Closed, Finishes, IsOver, Goes
  <2>2. Current' BY <1>8, SMT DEF Closed, Finishes, IsOver, Goes
  <2>3. Accounted' BY <1>8, SMT DEF Closed, Finishes, IsOver, Goes
  <2> QED BY <2>1, <2>2, <2>3, <2>4, Types DEF IInv
<1>9. CASE Finalised(e)
  <2>1. Flags' BY <1>9, ZenonT(60) DEF Flags, Finalised, Finishes, IsOver, Goes
  <2>4. Typed' BY <1>9, SMT DEF Typed, Finalised, Finishes, IsOver, Goes
  <2>2. Current' BY <1>9, SMT DEF Finalised, Finishes, IsOver, Goes
  <2>3. Accounted' BY <1>9, SMT DEF Finalised, Finishes, IsOver, Goes
  <2> QED BY <2>1, <2>2, <2>3, <2>4, Types DEF IInv
<1> QED BY <1>1, <1>2, <1>3, <1>4, <1>5, <1>6, <1>7, <1>8, <1>9 DEF ServeStep

\* The pump and the idle watcher.
LEMMA CallKeeps ==
    ASSUME IInv, NEW e \in Episodes, PumpEnds(e) \/ IdlerStep(e)
    PROVE  IInv'
<1> USE DEF IInv, TypeOK, Current, Accounted, Alive, clientVars, askVars, listVars
<1>1. CASE PumpEnds(e)
  BY <1>1, SMT DEF PumpEnds
<1>2. CASE IdlerTurns(e)
  <2>1. Flags' BY <1>2, ZenonT(60) DEF Flags, IdlerTurns
  <2>4. Typed' BY <1>2, SMT DEF Typed, IdlerTurns
  <2>2. Current' BY <1>2, SMT DEF IdlerTurns
  <2>3. Accounted' BY <1>2, SMT DEF IdlerTurns
  <2> QED BY <2>1, <2>2, <2>3, <2>4, Types DEF IInv
<1>3. CASE IdlerWakes(e)
  BY <1>3, SMT DEF IdlerWakes
<1>4. CASE IdlerReturns(e)
  BY <1>4, SMT DEF IdlerReturns
<1> QED BY <1>1, <1>2, <1>3, <1>4 DEF IdlerStep

\* A client that comes, goes or is dropped.
LEMMA ClientKeeps ==
    ASSUME IInv, NEW c \in Clients,
           \/ Connect(c) \/ Leave(c) \/ CancelHandler(c)
           \/ \E e \in Episodes : PumpDrops(e, c)
    PROVE  IInv'
<1> USE DEF IInv, TypeOK, Current, Accounted, Alive, episodeVars, askVars, Askers
<1>1. CASE Connect(c)
  BY <1>1, SMT DEF Connect
<1>2. CASE Leave(c)
  BY <1>2, SMT DEF Leave, Drop
<1>3. CASE CancelHandler(c)
  BY <1>3, SMT DEF CancelHandler, Drop
<1>4. ASSUME NEW e \in Episodes, PumpDrops(e, c) PROVE IInv'
  BY <1>4, SMT DEF PumpDrops, Drop
<1> QED BY <1>1, <1>2, <1>3, <1>4

\* The supervisor and stop().
LEMMA OwnerKeeps ==
    ASSUME IInv, Abandon \/ Stop \/ StopCall
    PROVE  IInv'
<1> USE DEF IInv, TypeOK, Current, Accounted, Alive, clientVars, askVars, listVars
<1>1. CASE Abandon
  <2>1. Flags' BY <1>1, ZenonT(60) DEF Flags, Abandon
  <2>4. Typed' BY <1>1, SMT DEF Typed, Abandon
  <2>2. Current' BY <1>1, SMT DEF Abandon
  <2>3. Accounted' BY <1>1, SMT DEF Abandon
  <2> QED BY <2>1, <2>2, <2>3, <2>4, Types DEF IInv
<1>2. CASE Stop
  <2>1. Flags' BY <1>2, ZenonT(60) DEF Flags, Stop
  <2>4. Typed' BY <1>2, SMT DEF Typed, Stop
  <2>2. Current' BY <1>2, SMT DEF Stop
  <2>3. Accounted' BY <1>2, SMT DEF Stop
  <2> QED BY <2>1, <2>2, <2>3, <2>4, Types DEF IInv
<1>3. CASE StopCall
  <2>1. Flags' BY <1>3, ZenonT(60) DEF Flags, StopCall
  <2>4. Typed' BY <1>3, SMT DEF Typed, StopCall
  <2>2. Current' BY <1>3, SMT DEF StopCall
  <2>3. Accounted' BY <1>3, SMT DEF StopCall
  <2> QED BY <2>1, <2>2, <2>3, <2>4, Types DEF IInv
<1> QED BY <1>1, <1>2, <1>3

-----------------------------------------------------------------------------
(* Who waits for whom.                                                      *)

\* An episode whose call has been up once has said so: nobody waits for the
\* event of one that relays or closes.
Served == \A e \in Episodes : phase[e] \in {"relay", "ending", "close", "final"} => ready[e] = "yes"

\* A request waits for an episode, and as long as the event of this one is not
\* set, its task is still at the first dial, or has not begun it.
Attended ==
    \A a \in Askers : at[a] = "asking" =>
        /\ joined[a] \in Episodes
        /\ ready[joined[a]] = "no" =>
              joined[a] = current /\ phase[joined[a]] \in {"new", "dial", "undial"}

Queue == Served /\ Attended

\* Whoever has been answered does not wait, and nobody begins to.
LEMMA AnsweredLeaves ==
    ASSUME at \in [Askers -> {"away", "reading", "asking"}],
           joined \in [Askers -> Episodes \cup {None}],
           NEW a \in Askers, NEW w, NEW e, NEW s, Answered(a, w, e, s)
    PROVE  \A b \in Askers : at'[b] = "asking" => at[b] = "asking" /\ joined'[b] = joined[b]
BY DEF Answered

\* A request that joins or begins an episode waits for one that is alive.
LEMMA RequestQueues ==
    ASSUME IInv, Queue, NEW a \in Askers, Request(a)
    PROVE  Queue'
<1>1. PICK t \in Targets, w \in {"describe", "play", "prepare"} :
          Join(a, w, t) \/ \E e \in Episodes : Begin(a, w, t, e)
  BY DEF Request
<1>2. at \in [Askers -> {"away", "reading", "asking"}] /\ joined \in [Askers -> Episodes \cup {None}]
  BY DEF IInv, TypeOK
<1>3. CASE Join(a, w, t)
  <2>1. current \in Episodes /\ phase[current] \in Alive /\ UNCHANGED episodeVars
    BY <1>3 DEF IInv, TypeOK, Join, Serving
  <2>2. Served'
    BY <2>1 DEF Queue, Served, episodeVars
  <2>3. CASE ready[current] = "no" /\ Waits(a, w, current, Asked(a, t))
    <3>1. phase[current] \in {"new", "dial", "undial"}
      BY <2>1, <2>3 DEF Queue, Served, Alive
    <3> QED BY <1>2, <2>1, <2>2, <2>3, <3>1 DEF Queue, Attended, Waits, episodeVars
  <2>4. CASE Answered(a, w, current, Asked(a, t))
    BY <1>2, <2>1, <2>2, <2>4, AnsweredLeaves DEF Queue, Attended, episodeVars
  <2> QED BY <1>3, <2>3, <2>4 DEF Join
<1>4. ASSUME NEW e \in Episodes, Begin(a, w, t, e) PROVE Queue'
  <2>1. Waits(a, w, e, Asked(a, t)) /\ UNCHANGED <<pumped, idler, again>>
    BY <1>4 DEF Begin
  <2>2. /\ current' = e /\ phase' = [phase EXCEPT ![e] = "new"]
        /\ ready' = [ready EXCEPT ![e] = "no"]
        /\ \A b \in Askers : joined[b] # e
    BY <1>4 DEF Begin
  <2>3. /\ phase \in [Episodes -> Alive \cup {"done"}]
        /\ ready \in [Episodes -> {"no", "yes", "failed", "never"}]
    BY DEF IInv, TypeOK
  <2>4. \A f \in Episodes : phase[f] = "done"
    BY <1>4, RelayConstants DEF IInv, TypeOK, Current, Begin, Serving
  <2>5. Served'
    BY <2>2, <2>3 DEF Queue, Served
  <2>6. \A b \in Askers : at[b] = "asking" => joined[b] \in Episodes /\ ready[joined[b]] # "no"
    BY <2>4 DEF Queue, Attended
  <2>7. Attended'
    BY <1>2, <2>1, <2>2, <2>3, <2>6 DEF Attended, Waits
  <2> QED BY <2>5, <2>7 DEF Queue
<1> QED BY <1>1, <1>3, <1>4

\* A step of an episode's task sets the event before the task can end, or the
\* task ends before it has begun.
LEMMA ServeQueues ==
    ASSUME IInv, Queue, NEW e \in Episodes, ServeStep(e)
    PROVE  Queue'
<1> USE DEF Queue, Served, Attended, askVars
<1>1. /\ phase \in [Episodes -> Alive \cup {"done"}]
      /\ ready \in [Episodes -> {"no", "yes", "failed", "never"}]
      /\ phase[e] # "done" => current = e
      /\ UNCHANGED <<at, joined>>
  BY DEF IInv, TypeOK, Current, ServeStep, Starts, Dialled, DialFails, DialCancelled,
         Undialled, RelayEnds, Ended, Closed, Finalised
<1>2. CASE Starts(e)
  BY <1>1, <1>2 DEF Starts, Goes, IsOver
<1>3. CASE Dialled(e)
  BY <1>1, <1>3 DEF Dialled, Goes
<1>4. CASE DialFails(e)
  BY <1>1, <1>4 DEF DialFails, Finishes, IsOver
<1>5. CASE DialCancelled(e)
  BY <1>1, <1>5 DEF DialCancelled, Goes
<1>6. CASE Undialled(e)
  BY <1>1, <1>6 DEF Undialled, Finishes, IsOver
<1>7. CASE RelayEnds(e)
  BY <1>1, <1>7 DEF RelayEnds, Goes
<1>8. CASE Ended(e)
  BY <1>1, <1>8 DEF Ended, Goes
<1>9. CASE Closed(e)
  BY <1>1, <1>9 DEF Closed, Finishes, IsOver, Goes
<1>10. CASE Finalised(e)
  BY <1>1, <1>10 DEF Finalised, Finishes, IsOver, Goes
<1> QED BY <1>2, <1>3, <1>4, <1>5, <1>6, <1>7, <1>8, <1>9, <1>10 DEF ServeStep

\* Everybody else leaves the episodes where they are, and makes nobody wait.
LEMMA OthersQueue ==
    ASSUME IInv, Queue,
           \/ UNCHANGED vars
           \/ \E e \in Episodes : \/ PumpEnds(e) \/ IdlerStep(e)
                                  \/ \E c \in Clients : PumpDrops(e, c)
           \/ \E a \in Askers : Answer(a)
           \/ \E c \in Clients : Connect(c) \/ Leave(c) \/ CancelHandler(c)
           \/ Abandon \/ Stop \/ StopCall
    PROVE  Queue'
<1>1. UNCHANGED <<current, phase, ready>>
  BY DEF PumpEnds, IdlerStep, IdlerTurns, IdlerWakes, IdlerReturns, PumpDrops, Answer,
         Connect, Leave, CancelHandler, Abandon, Stop, StopCall, vars, episodeVars
<1>2. \A a \in Askers : at'[a] = "asking" => at[a] = "asking" /\ joined'[a] = joined[a]
  <2>1. at \in [Askers -> {"away", "reading", "asking"}] /\ joined \in [Askers -> Episodes \cup {None}]
    BY DEF IInv, TypeOK
  <2>2. ASSUME NEW a \in Askers, Answer(a)
        PROVE  \A b \in Askers : at'[b] = "asking" => at[b] = "asking" /\ joined'[b] = joined[b]
    BY <2>1, <2>2, AnsweredLeaves DEF Answer
  <2>3. ASSUME NEW c \in Clients, Connect(c) \/ Leave(c) \/ CancelHandler(c)
        PROVE  \A b \in Askers : at'[b] = "asking" => at[b] = "asking" /\ joined'[b] = joined[b]
    BY <2>1, <2>3 DEF Connect, Leave, CancelHandler, Askers
  <2> QED BY <2>2, <2>3 DEF PumpEnds, IdlerStep, IdlerTurns, IdlerWakes, IdlerReturns,
             PumpDrops, Abandon, Stop, StopCall, vars, episodeVars, askVars
<1> QED BY <1>1, <1>2 DEF Queue, Served, Attended

-----------------------------------------------------------------------------
(* The theorems.                                                            *)

\* There is one episode at most that is not over, and every client on the list
\* has a handler, in every state and for every value of the constants.
THEOREM Invariance == Spec => []IInv
<1>1. Init => IInv
  <2> SUFFICES ASSUME Init PROVE IInv
    OBVIOUS
  <2>1. Flags
    BY Zenon DEF Init, Flags
  <2>2. Typed
    BY SMT DEF Init, Typed
  <2>3. Current /\ Accounted
    BY SMT DEF Init, Current, Accounted
  <2> QED BY <2>1, <2>2, <2>3, Types DEF IInv
<1>2. IInv /\ [Next]_vars => IInv'
  <2> SUFFICES ASSUME IInv, [Next]_vars PROVE IInv'
    OBVIOUS
  <2>1. CASE UNCHANGED vars
    BY <2>1, SMT DEF IInv, TypeOK, Current, Accounted, vars, episodeVars, askVars,
                     clientVars, listVars
  <2> QED BY <2>1, RequestKeeps, AnswerKeeps, ServeKeeps, CallKeeps, ClientKeeps, OwnerKeeps
             DEF Next
<1> QED BY <1>1, <1>2, PTL DEF Spec

\* The relay's tables hold what they should: the clients that play are on the
\* list, and _episode is an episode.
THEOREM TypeCorrect == Spec => []TypeOK
<1>1. IInv => TypeOK
  BY DEF IInv
<1> QED BY <1>1, Invariance, PTL

\* The panel never has a call of one episode while another's is set up, relayed
\* or closed: _live, _ensure_call and every way _serve ends.
THEOREM OneCallHolds == Spec => []OneCall
<1>1. IInv => OneCall
  BY DEF IInv, Current, OneCall, HasCall, Alive
<1> QED BY <1>1, Invariance, PTL

\* No client counts without a handler that takes it off the list, and none
\* counts after stop(): _handle_client, _drop and _fan_out.
THEOREM AccountedHolds == Spec => []Accounted
<1>1. IInv => Accounted
  BY DEF IInv
<1> QED BY <1>1, Invariance, PTL

\* No request waits for an event that nobody is left to set: as long as the
\* event of an episode is not set, the request's episode is the current one
\* and its task has not got past the first dial, which sets the event whichever
\* way it ends.  The one other case is an episode cancelled before its task
\* first ran (ready is "never"): _ensure_call, _serve and abandon_call.
THEOREM NobodyStranded == Spec => []Attended
<1>1. Init => Queue
  BY DEF Init, Queue, Served, Attended
<1>2. IInv /\ Queue /\ [Next]_vars => Queue'
  <2> SUFFICES ASSUME IInv, Queue, [Next]_vars PROVE Queue'
    OBVIOUS
  <2> QED BY RequestQueues, ServeQueues, OthersQueue DEF Next
<1>3. Queue => Attended
  BY DEF Queue
<1> QED BY <1>1, <1>2, <1>3, Invariance, PTL DEF Spec
================================================================================
