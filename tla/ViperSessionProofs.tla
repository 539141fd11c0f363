------------------------- MODULE ViperSessionProofs -------------------------
(***************************************************************************)
(* Proofs about ViperSession, for every set of connections and ids and     *)
(* every bound: a call's end is reported at most once, an ended call is    *)
(* out of the routing table, nobody waits on a connection that no packet   *)
(* and no failure can reach, a call is lost only to a teardown, the        *)
(* session implements CallLedger, the write lock knows exactly the tasks   *)
(* that send, and a connection that has failed stays so.                   *)
(***************************************************************************)
EXTENDS ViperSession, SequenceTheorems, TLAPS

\* A routed connection owns the id it is routed by, and its call, if it is
\* one, has not ended.
RouteInv ==
    \A i \in Ids, c \in Conns :
        routes[i] = c => id[c] = i /\ kind[c] # "unused" /\ ends[c] = 0

\* A watcher that has still to report finds the end not reported.
CallInv ==
    \A c \in Conns :
        /\ ends[c] \in {0, 1}
        /\ Watched(c) /\ ~reported[c] => ends[c] = 0
        /\ kind[c] = "unused" => step[c] = "none" /\ ends[c] = 0 /\ ~reported[c]
        /\ step[c] \in {"acking", "created"} => kind[c] = "inbound"
        /\ step[c] = "syn" => kind[c] \in {"door", "register"}

HasSentinel(c) == \E k \in 1..Len(inbox[c]) : inbox[c][k] = End

\* The call whose INVITE is being acknowledged is the one the reader is
\* suspended in, has not ended, and holds its id unless a teardown has failed
\* it and taken the table and the CTPP channel away.
AckInv ==
    /\ \A c \in Conns : step[c] = "acking" =>
          /\ rd.step = "accept" /\ rd.conn = c
          /\ ends[c] = 0 /\ ~reported[c]
          /\ id[c] \in Ids
          /\ routes[id[c]] = c \/ (routes[id[c]] = NoConn /\ ~ctpp /\ HasSentinel(c))
    /\ rd.step = "accept" => rd.conn \in Conns /\ step[rd.conn] = "acking"

\* A registration the session keeps, or is about to replace, has been
\* answered: nobody waits on it.
RegInv ==
    \A c \in Conns : c \in {registration, previous} =>
        kind[c] = "register" /\ step[c] \in {"fin", "done", "left"}

Inv == RouteInv /\ CallInv /\ AckInv /\ RegInv /\ NoOrphanWaiter

IInv == TypeOK /\ Inv

-----------------------------------------------------------------------------
(* Types.                                                                    *)

\* What the outcomes of a send can be.
LEMMA OutcomeTypes ==
    ASSUME NEW f, NEW q
    PROVE  Starts(f, q) \subseteq Outcomes /\ Resumes \subseteq Outcomes
BY DEF Starts, Resumes, Outcomes

\* A task that leaves the lock leaves a queue of tasks.
LEMMA WithoutType ==
    ASSUME NEW S, NEW q \in Seq(S), NEW t
    PROVE  Without(q, t) \in Seq(S)
<1>1. CASE \E k \in 1..Len(q) : q[k] = t
  <2> DEFINE k == CHOOSE k \in 1..Len(q) : q[k] = t
  <2>1. k \in 1..Len(q)
    BY <1>1
  <2> HIDE DEF k
  <2>2. SubSeq(q, 1, k - 1) \in Seq(S) /\ SubSeq(q, k + 1, Len(q)) \in Seq(S)
    <3>1. Len(q) \in Nat /\ 1 \in Int
      BY LenProperties
    <3>2. /\ k - 1 \in Int /\ k + 1 \in Int
          /\ \A j \in 1..(k - 1) : q[j] \in S
          /\ \A j \in (k + 1)..Len(q) : q[j] \in S
      BY <2>1, <3>1
    <3> QED BY <3>1, <3>2, SubSeqProperties
  <2>3. Without(q, t) = SubSeq(q, 1, k - 1) \o SubSeq(q, k + 1, Len(q))
    BY <1>1 DEF Without, k
  <2> QED BY <2>2, <2>3, ConcatProperties
<1>2. CASE ~ \E k \in 1..Len(q) : q[k] = t
  BY <1>2 DEF Without
<1> QED BY <1>1, <1>2

\* The lock stays a queue of tasks.
LEMMA LockTypes ==
    ASSUME TypeOK, NEW o \in Outcomes, NEW c \in Conns, NEW t \in Conns \cup {Reader},
           \/ StartSend(t, o)
           \/ lockq # <<>> /\ ResumeSend(o)
           \/ DropSend(t)
    PROVE  lockq' \in Seq(Conns \cup {Reader}) /\ draining' \in BOOLEAN
<1>0. lockq \in Seq(Conns \cup {Reader}) /\ draining \in BOOLEAN
  BY DEF TypeOK
<1>1. CASE StartSend(t, o)
  BY <1>0, <1>1 DEF StartSend
<1>2. CASE lockq # <<>> /\ ResumeSend(o)
  BY <1>0, <1>2 DEF ResumeSend
<1>3. CASE DropSend(t)
  BY <1>0, <1>3, WithoutType DEF DropSend
<1> QED BY <1>1, <1>2, <1>3

\* What a task's end leaves of the variables it changes.
TaskTypes ==
    /\ step' \in [Conns -> Steps]
    /\ routes' \in [Ids -> Conns \cup {NoConn}]
    /\ ends' \in [Conns -> Nat]
    /\ callTasks' \in SUBSET Conns
    /\ registered' \in BOOLEAN

\* The types in parts, for the steps that touch few of them.
ConnTypes ==
    /\ kind \in [Conns -> Kinds] /\ id \in [Conns -> Ids \cup {NoId}]
    /\ failed \in [Conns -> BOOLEAN] /\ reported \in [Conns -> BOOLEAN]
    /\ registration \in Conns \cup {NoConn} /\ previous \in Conns \cup {NoConn}

InboxType == inbox \in [Conns -> Seq(Packets \cup {End})]

LockType == lockq \in Seq(Conns \cup {Reader}) /\ draining \in BOOLEAN

ReaderType ==
    rd \in [step : ReaderSteps, conn : Conns \cup {NoConn}, pkt : Packets \cup {End, Repeat}]

LinkTypes ==
    /\ ctpp \in BOOLEAN /\ sock \in {"none", "open", "broken"}
    /\ channel \in BOOLEAN /\ eof \in BOOLEAN
    /\ tear \in [by : {"none", "reader", "owner"}, step : {"none", "ending", "closing"}]
    /\ pending \in SUBSET Conns
    /\ owner \in {"idle", "closing", "connecting", "opening", "starting"}
    /\ links \in 0..MaxLinks

\* They are all of it,
LEMMA TypesFrom ==
    ASSUME ConnTypes', InboxType', TaskTypes, LockType', ReaderType', LinkTypes'
    PROVE  TypeOK'
BY Zenon DEF TypeOK, ConnTypes, InboxType, TaskTypes, LockType, ReaderType, LinkTypes

\* and a part that a step leaves alone is as it was.
LEMMA TypesKept ==
    ASSUME TypeOK
    PROVE  /\ UNCHANGED <<kind, id, failed, reported, registration, previous>> => ConnTypes'
           /\ UNCHANGED inbox => InboxType'
           /\ UNCHANGED <<step, routes, ends, callTasks, registered>> => TaskTypes
           /\ UNCHANGED <<lockq, draining>> => LockType'
           /\ UNCHANGED rd => ReaderType'
           /\ UNCHANGED <<ctpp, sock, channel, eof, tear, pending, owner, links>> => LinkTypes'
<1> USE DEF TypeOK
<1>1. UNCHANGED <<kind, id, failed, reported, registration, previous>> => ConnTypes'
  BY DEF ConnTypes
<1>2. UNCHANGED inbox => InboxType'
  BY DEF InboxType
<1>3. UNCHANGED <<step, routes, ends, callTasks, registered>> => TaskTypes
  BY DEF TaskTypes
<1>4. UNCHANGED <<lockq, draining>> => LockType'
  BY DEF LockType
<1>5. UNCHANGED rd => ReaderType'
  BY DEF ReaderType
<1>6. UNCHANGED <<ctpp, sock, channel, eof, tear, pending, owner, links>> => LinkTypes'
  BY DEF LinkTypes
<1> QED BY <1>1, <1>2, <1>3, <1>4, <1>5, <1>6

\* A task that gives up, or has registered, leaves values of their types.
LEMMA GiveUpTypes ==
    ASSUME TypeOK, NEW c \in Conns, GiveUp(c) \/ Registered(c)
    PROVE  TaskTypes
<1> USE DEF TypeOK
<1>1. \A r : r \in [Ids -> Conns \cup {NoConn}] =>
        \A d : Release(r, d) \in [Ids -> Conns \cup {NoConn}]
  BY DEF Release
<1>2. routes' \in [Ids -> Conns \cup {NoConn}]
  <2>1. routes' = Release(routes, c) \/ routes' = Release(routes, previous)
    BY DEF GiveUp, Unwatch, LeaveDoor, FailRegister, Registered
  <2>2. routes \in [Ids -> Conns \cup {NoConn}]
    BY DEF TypeOK
  <2> HIDE DEF TypeOK
  <2> QED BY <1>1, <2>1, <2>2
<1>3. step' \in [Conns -> Steps] /\ callTasks' \in SUBSET Conns /\ registered' \in BOOLEAN
  BY DEF GiveUp, Unwatch, LeaveDoor, FailRegister, Registered, Steps
<1>4. ends' = ends \/ ends' = [ends EXCEPT ![c] = @ + 1]
  BY DEF GiveUp, Unwatch, LeaveDoor, FailRegister, Registered
<1>5. ends' \in [Conns -> Nat]
  BY <1>4
<1> QED BY <1>2, <1>3, <1>5 DEF TaskTypes

\* So does one that moves on.
LEMMA GoesTypes ==
    ASSUME TypeOK, NEW c \in Conns, NEW s \in Steps, Goes(c, s)
    PROVE  TaskTypes
BY DEF TypeOK, TaskTypes, Goes

\* So does one that has sent its first packet or its FIN.
LEMMA AfterTypes ==
    ASSUME TypeOK, NEW c \in Conns, NEW o, AfterSyn(c, o) \/ AfterFin(c, o)
    PROVE  TaskTypes
<1>1. CASE GiveUp(c) \/ Registered(c)
  BY <1>1, GiveUpTypes
<1>2. CASE \E s \in {"syn", "wait", "fin", "done"} : Goes(c, s)
  BY <1>2, GoesTypes DEF Steps
<1> QED BY <1>1, <1>2 DEF AfterSyn, AfterFin

\* What a failure leaves of the variables it changes.
LEMMA FailTypes ==
    ASSUME TypeOK, NEW S, Fails(S)
    PROVE  failed' \in [Conns -> BOOLEAN] /\ inbox' \in [Conns -> Seq(Packets \cup {End})]
BY DEF TypeOK, Fails

\* Taking a packet leaves packets.
LEMMA TailType ==
    ASSUME TypeOK, NEW c \in Conns, inbox[c] # <<>>
    PROVE  [inbox EXCEPT ![c] = Tail(@)] \in [Conns -> Seq(Packets \cup {End})]
<1>1. inbox \in [Conns -> Seq(Packets \cup {End})]
  BY DEF TypeOK
<1>2. Tail(inbox[c]) \in Seq(Packets \cup {End})
  BY <1>1
<1> QED BY <1>1, <1>2

\* A delivered packet is a packet.
LEMMA DeliveredType ==
    ASSUME TypeOK, NEW h, NEW p, Delivered(h, p) \/ UNCHANGED inbox
    PROVE  inbox' \in [Conns -> Seq(Packets \cup {End})]
<1>1. inbox \in [Conns -> Seq(Packets \cup {End})]
  BY DEF TypeOK
<1>2. CASE p \in Packets /\ h \in Conns
  <2>1. Append(inbox[h], p) \in Seq(Packets \cup {End})
    BY <1>1, <1>2
  <2> QED BY <1>1, <1>2, <2>1 DEF Delivered
<1>3. CASE p \notin Packets \/ h \notin Conns
  BY <1>1, <1>3 DEF Delivered
<1> QED BY <1>2, <1>3

\* A send the reader puts behind whoever waits for the lock.
LEMMA RequeueType ==
    ASSUME TypeOK, lockq # <<>>
    PROVE  /\ Tail(lockq) \in Seq(Conns \cup {Reader})
           /\ Append(Tail(lockq), Reader) \in Seq(Conns \cup {Reader})
<1>1. lockq \in Seq(Conns \cup {Reader})
  BY DEF TypeOK
<1>2. Tail(lockq) \in Seq(Conns \cup {Reader})
  BY <1>1
<1> QED BY <1>2

\* Every step of the session keeps the types.
LEMMA TypeStep == TypeOK /\ [Next]_vars => TypeOK'
<1> SUFFICES ASSUME TypeOK, [Next]_vars PROVE TypeOK'
  OBVIOUS
<1> USE SessionConstants
<1>1. CASE UNCHANGED vars
  BY <1>1 DEF TypeOK, vars
<1>2. ASSUME NEW c \in Conns, SynResumes(c) \/ FinResumes(c)
      PROVE  TypeOK'
  <2>1. PICK o \in Resumes : ResumeSend(o) /\ (AfterSyn(c, o) \/ AfterFin(c, o))
    BY <1>2 DEF SynResumes, FinResumes
  <2>2. lockq # <<>> /\ o \in Outcomes
    BY <1>2, OutcomeTypes DEF SynResumes, FinResumes, Holds
  <2>3. TaskTypes
    BY <2>1, AfterTypes
  <2>4. lockq' \in Seq(Conns \cup {Reader}) /\ draining' \in BOOLEAN
    BY <2>1, <2>2, LockTypes
  <2>5. UNCHANGED <<kind, id, inbox, failed, reported, registration, previous, ctpp,
                    sock, channel, eof, rd, tear, pending, owner, links>>
    BY <1>2 DEF SynResumes, FinResumes, linkVars, tearVars
  <2> QED BY <2>3, <2>4, <2>5, TypesKept, TypesFrom DEF LockType
<1>3. ASSUME NEW c \in Conns, WakeWanted(c)
      PROVE  TypeOK'
  <2>1. PICK o \in Starts(failed[c], lockq) : StartSend(c, o) /\ AfterFin(c, o)
    BY <1>3 DEF WakeWanted
  <2>2. o \in Outcomes
    BY OutcomeTypes
  <2>3. TaskTypes
    BY <2>1, AfterTypes
  <2>4. lockq' \in Seq(Conns \cup {Reader}) /\ draining' \in BOOLEAN
    BY <2>1, <2>2, LockTypes
  <2>5. UNCHANGED <<kind, id, failed, reported, previous, ctpp,
                    sock, channel, eof, rd, tear, pending, owner, links>>
    BY <1>3 DEF WakeWanted, linkVars, tearVars
  <2>6. inbox' \in [Conns -> Seq(Packets \cup {End})]
    BY <1>3, TailType DEF WakeWanted, Waits
  <2>7. registration' \in Conns \cup {NoConn}
    BY <1>3 DEF WakeWanted, TypeOK
  <2>8. ConnTypes'
    BY <2>5, <2>7 DEF ConnTypes, TypeOK
  <2> QED BY <2>3, <2>4, <2>5, <2>6, <2>8, TypesKept, TypesFrom DEF LockType, InboxType
<1>4. ASSUME NEW c \in Conns, WakeRefused(c) \/ WakeIgnored(c) \/ Timeout(c) \/ WatcherStarts(c)
      PROVE  TypeOK'
  <2>1. TaskTypes
    BY <1>4, GiveUpTypes, GoesTypes
       DEF WakeRefused, WakeIgnored, Timeout, WatcherStarts, TaskTypes, taskVars, TypeOK, Steps
  <2>2. UNCHANGED <<kind, id, failed, reported, registration, previous, ctpp, lockq, draining,
                    sock, channel, eof, rd, tear, pending, owner, links>>
    BY <1>4 DEF WakeRefused, WakeIgnored, Timeout, WatcherStarts, lockVars, linkVars, tearVars
  <2>3. inbox' \in [Conns -> Seq(Packets \cup {End})]
    <3>1. UNCHANGED inbox \/ (inbox[c] # <<>> /\ inbox' = [inbox EXCEPT ![c] = Tail(@)])
      BY <1>4 DEF WakeRefused, WakeIgnored, Timeout, WatcherStarts, Waits
    <3>2. inbox \in [Conns -> Seq(Packets \cup {End})]
      BY DEF TypeOK
    <3> QED BY <3>1, <3>2, TailType
  <2> QED BY <2>1, <2>2, <2>3, TypesKept, TypesFrom DEF InboxType
<1>5. ASSUME NEW c \in Conns, NEW i \in Ids, OpenDoor(c, i) \/ Register(c, i)
      PROVE  TypeOK'
  <2>1. PICK o \in Starts(FALSE, lockq), k \in {"door", "register"} : Begin(c, i, k, o)
    BY <1>5 DEF OpenDoor, Register, Begin
  <2>2. o \in Outcomes
    BY OutcomeTypes
  <2>3. lockq' \in Seq(Conns \cup {Reader}) /\ draining' \in BOOLEAN
    BY <2>1, <2>2, LockTypes DEF Begin
  <2>4. previous' \in Conns \cup {NoConn} /\ registered' \in BOOLEAN
    BY <1>5 DEF OpenDoor, Register, TypeOK
  <2>5. step' \in [Conns -> Steps] /\ kind' \in [Conns -> Kinds]
    BY <2>1 DEF Begin, TypeOK, Steps, Kinds
  <2> QED BY <2>1, <2>3, <2>4, <2>5 DEF TypeOK, Begin, linkVars, tearVars
<1>6. ASSUME NEW c \in Conns, NEW i \in Ids, Invite(c, i)
      PROVE  TypeOK'
  <2>1. PICK o \in Starts(FALSE, lockq) :
          /\ StartSend(Reader, o)
          /\ routes' = [routes EXCEPT ![i] = IF o = "raised" THEN NoConn ELSE c]
          /\ step' = [step EXCEPT ![c] = IF Suspended(o) THEN "acking"
                                         ELSE IF o = "done" THEN "created" ELSE "done"]
          /\ callTasks' = IF o = "done" THEN callTasks \cup {c} ELSE callTasks
          /\ rd' = IF Suspended(o) THEN [At("accept") EXCEPT !.conn = c] ELSE rd
    BY <1>6 DEF Invite
  <2>2. o \in Outcomes
    BY OutcomeTypes
  <2>3. lockq' \in Seq(Conns \cup {Reader}) /\ draining' \in BOOLEAN
    BY <2>1, <2>2, LockTypes
  <2>4. failed' \in [Conns -> BOOLEAN] /\ inbox' \in [Conns -> Seq(Packets \cup {End})]
    BY <1>6, FailTypes DEF Invite
  <2>5. ends' \in [Conns -> Nat] /\ reported' \in [Conns -> BOOLEAN]
    BY <1>6 DEF Invite, TypeOK
  <2>6. step' \in [Conns -> Steps] /\ kind' \in [Conns -> Kinds]
    BY <1>6, <2>1 DEF Invite, TypeOK, Steps, Kinds
  <2>7. rd' \in [step : ReaderSteps, conn : Conns \cup {NoConn}, pkt : Packets \cup {End, Repeat}]
    BY <2>1 DEF TypeOK, At, ReaderSteps
  <2> QED BY <1>6, <2>1, <2>3, <2>4, <2>5, <2>6, <2>7 DEF Invite, TypeOK, tearVars
<1>7. ASSUME NEW c \in Conns, AcceptResumes(c)
      PROVE  TypeOK'
  <2>1. PICK o \in Resumes :
          /\ ResumeSend(o)
          /\ rd' = IF Suspended(o) THEN rd ELSE At("idle")
          /\ step' = [step EXCEPT ![c] = CASE Suspended(o) -> "acking" [] o = "done" -> "created"
                                           [] o = "raised" -> "done" [] o = "crashed" -> "lost"]
          /\ callTasks' = IF o = "done" THEN callTasks \cup {c} ELSE callTasks
          /\ routes' = IF o = "raised" THEN [routes EXCEPT ![id[c]] = NoConn] ELSE routes
          /\ ends' = IF o = "raised" THEN [ends EXCEPT ![c] = @ + 1] ELSE ends
    BY <1>7 DEF AcceptResumes
  <2>2. o \in Outcomes /\ lockq # <<>>
    BY <1>7, OutcomeTypes DEF AcceptResumes, Holds
  <2>3. lockq' \in Seq(Conns \cup {Reader}) /\ draining' \in BOOLEAN
    BY <2>1, <2>2, LockTypes
  <2>4. step' \in [Conns -> Steps]
    BY <2>1, <2>2 DEF TypeOK, Steps, Outcomes, Suspended
  <2>5. rd' \in [step : ReaderSteps, conn : Conns \cup {NoConn}, pkt : Packets \cup {End, Repeat}]
    BY <2>1 DEF TypeOK, At, ReaderSteps
  <2>6. ends' \in [Conns -> Nat]
    <3>1. ends \in [Conns -> Nat]
      BY DEF TypeOK
    <3>2. ends' = ends \/ ends' = [ends EXCEPT ![c] = @ + 1]
      BY <2>1
    <3> QED BY <3>1, <3>2
  <2>7. routes' \in [Ids -> Conns \cup {NoConn}] /\ callTasks' \in SUBSET Conns
    BY <2>1 DEF TypeOK
  <2>8. UNCHANGED <<kind, id, inbox, failed, reported, registration, previous, registered,
                    ctpp, sock, channel, eof, tear, pending, owner, links>>
    BY <1>7 DEF AcceptResumes, tearVars
  <2>9. TaskTypes
    BY <2>4, <2>6, <2>7, <2>8, Zenon DEF TaskTypes, TypeOK
  <2> QED BY <2>3, <2>5, <2>8, <2>9, TypesKept, TypesFrom DEF LockType, ReaderType
<1>8. ASSUME NEW i \in Ids, NEW p \in Packets \cup {Repeat}, Route(i, p)
      PROVE  TypeOK'
  <2>1. routes[i] \in Conns
    BY <1>8 DEF Route, TypeOK
  <2>2. inbox' \in [Conns -> Seq(Packets \cup {End})]
    <3>1. Delivered(routes[i], p) \/ UNCHANGED inbox
      BY <1>8 DEF Route
    <3> QED BY <3>1, DeliveredType
  <2>3. \/ UNCHANGED <<rd, lockVars>>
        \/ \E o \in Starts(failed[routes[i]], lockq) : StartSend(Reader, o)
    BY <1>8 DEF Route
  <2>4. lockq' \in Seq(Conns \cup {Reader}) /\ draining' \in BOOLEAN
    BY <2>1, <2>3, LockTypes, OutcomeTypes DEF TypeOK, lockVars
  <2>5. rd' \in [step : ReaderSteps, conn : Conns \cup {NoConn}, pkt : Packets \cup {End, Repeat}]
    BY <1>8, <2>1 DEF Route, TypeOK, At, ReaderSteps
  <2>6. UNCHANGED <<kind, id, failed, reported, step, routes, ends, callTasks, registered,
                    registration, previous, ctpp, sock, channel, eof, tear, pending, owner, links>>
    BY <1>8 DEF Route, taskVars, tearVars
  <2> QED BY <2>2, <2>4, <2>5, <2>6, TypesKept, TypesFrom DEF InboxType, LockType, ReaderType
<1>9. CASE RouteResumes
  <2>1. lockq # <<>> /\ lockq \in Seq(Conns \cup {Reader}) /\ draining \in BOOLEAN
    BY <1>9 DEF RouteResumes, Holds, TypeOK
  <2>2. inbox' \in [Conns -> Seq(Packets \cup {End})]
    <3>1. Delivered(rd.conn, rd.pkt) \/ UNCHANGED inbox
      BY <1>9 DEF RouteResumes
    <3> QED BY <3>1, DeliveredType
  <2>3. lockq' \in Seq(Conns \cup {Reader}) /\ draining' \in BOOLEAN
    BY <1>9, <2>1, RequeueType DEF RouteResumes, ResumeSend
  <2>4. rd' \in [step : ReaderSteps, conn : Conns \cup {NoConn}, pkt : Packets \cup {End, Repeat}]
    BY <1>9 DEF RouteResumes, TypeOK, At, ReaderSteps
  <2>5. UNCHANGED <<kind, id, failed, reported, step, routes, ends, callTasks, registered,
                    registration, previous, ctpp, sock, channel, eof, tear, pending, owner, links>>
    BY <1>9 DEF RouteResumes, taskVars, tearVars
  <2> QED BY <2>2, <2>3, <2>4, <2>5, TypesKept, TypesFrom DEF InboxType, LockType, ReaderType
<1>10. ASSUME NEW i \in Ids, Stray(i)
       PROVE  TypeOK'
  <2>1. PICK o \in Starts(FALSE, lockq) : StartSend(Reader, o)
    BY <1>10 DEF Stray
  <2>2. o \in Outcomes
    BY OutcomeTypes
  <2>3. lockq' \in Seq(Conns \cup {Reader}) /\ draining' \in BOOLEAN
    BY <2>1 DEF StartSend, TypeOK
  <2> QED BY <1>10, <2>3 DEF Stray, TypeOK, taskVars, tearVars, At, ReaderSteps
<1>11. CASE FrameResumes
  <2>1. lockq # <<>> /\ lockq \in Seq(Conns \cup {Reader})
    BY <1>11 DEF FrameResumes, Holds, TypeOK
  <2>2. lockq' \in Seq(Conns \cup {Reader}) /\ draining' \in BOOLEAN
    BY <1>11, <2>1 DEF FrameResumes, ResumeSend
  <2> QED BY <1>11, <2>2 DEF FrameResumes, ResumeSend, TypeOK, taskVars, tearVars, At, ReaderSteps
<1>12. ASSUME NEW by \in {"reader", "owner"}, BeginTeardown(by), owner' \in {"idle", "closing", "connecting", "opening", "starting"}
       PROVE  TypeOK'
  <2>1. lockq' \in Seq(Conns \cup {Reader}) /\ draining' \in BOOLEAN
    BY <1>12, WithoutType DEF BeginTeardown, DropSend, TypeOK
  <2> QED BY <1>12, <2>1 DEF BeginTeardown, TypeOK, At, ReaderSteps, Steps
<1>13. CASE CloseBegins \/ ConnectBegins \/ ReaderStops
  <2>1. CASE \E by \in {"reader", "owner"} : BeginTeardown(by)
    <3>1. owner' \in {"idle", "closing", "connecting", "opening", "starting"}
      BY <1>13 DEF CloseBegins, ConnectBegins, ReaderStops, TypeOK, tearVars
    <3> QED BY <1>12, <2>1, <3>1
  <2>2. CASE \A by \in {"reader", "owner"} : ~BeginTeardown(by)
    <3>1. /\ UNCHANGED <<kind, id, inbox, failed, reported, step, routes, ends, callTasks,
                         registered, registration, previous, ctpp, sock, channel, eof,
                         lockq, draining, tear, pending, links>>
          /\ owner' \in {"idle", "closing", "connecting", "opening", "starting"}
          /\ rd' = rd \/ rd' = At("dead")
      BY <1>13, <2>2
         DEF CloseBegins, ConnectBegins, ReaderStops, TypeOK, taskVars, linkVars, lockVars, tearVars
    <3> QED BY <3>1 DEF TypeOK, At, ReaderSteps
  <2> QED BY <2>1, <2>2
<1>14. ASSUME NEW c \in Conns, EndWatcher(c) \/ RegisterCancelled(c)
       PROVE  TypeOK'
  <2>1. lockq' \in Seq(Conns \cup {Reader}) /\ draining' \in BOOLEAN
    <3>1. DropSend(c)
      BY <1>14 DEF EndWatcher, RegisterCancelled
    <3>2. lockq \in Seq(Conns \cup {Reader}) /\ draining \in BOOLEAN
      BY DEF TypeOK
    <3> QED BY <3>1, <3>2, WithoutType DEF DropSend
  <2>2. TaskTypes
    <3>1. CASE Goes(c, "lost") \/ Goes(c, "left")
      BY <3>1, GoesTypes DEF Steps
    <3>2. CASE Watched(c) /\ Unwatch(c)
      BY <3>2, GiveUpTypes DEF GiveUp, Watched
    <3>3. CASE UNCHANGED taskVars
      BY <3>3 DEF taskVars, TypeOK, TaskTypes
    <3> QED BY <1>14, <3>1, <3>2, <3>3 DEF EndWatcher, RegisterCancelled
  <2>3. /\ UNCHANGED <<kind, id, inbox, failed, reported, registration, previous, ctpp,
                       sock, channel, eof, rd, tear, owner, links>>
        /\ pending' = pending \/ pending' = pending \ {c}
    BY <1>14 DEF EndWatcher, RegisterCancelled, linkVars, tearVars
  <2>4. LinkTypes'
    BY <2>3 DEF LinkTypes, TypeOK
  <2> QED BY <2>1, <2>2, <2>3, <2>4, TypesKept, TypesFrom DEF LockType
<1>15. CASE FinishTeardown
  <2>1. failed' \in [Conns -> BOOLEAN] /\ InboxType'
    <3>1. Fails({routes[i] : i \in Ids} \ {NoConn})
      BY <1>15 DEF FinishTeardown
    <3> QED BY <3>1, FailTypes DEF InboxType
  <2>2. ConnTypes'
    BY <1>15, <2>1 DEF FinishTeardown, ConnTypes, TypeOK
  <2>3. TaskTypes
    BY <1>15 DEF FinishTeardown, TaskTypes, TypeOK
  <2>4. LinkTypes'
    BY <1>15 DEF FinishTeardown, LinkTypes, TypeOK, NoTear, linkVars
  <2>5. UNCHANGED <<lockq, draining, rd>>
    BY <1>15 DEF FinishTeardown, linkVars, lockVars
  <2> QED BY <2>1, <2>2, <2>3, <2>4, <2>5, TypesKept, TypesFrom
<1>16. CASE CloseSocket \/ OwnerCancelled \/ Opened \/ OpenFails \/ ChannelOpens \/ PeerGone
  <2>1. UNCHANGED <<kind, id, inbox, failed, reported, step, routes, ends, callTasks,
                    registered, registration, previous, lockq, draining>>
    BY <1>16
       DEF CloseSocket, OwnerCancelled, Opened, OpenFails, ChannelOpens, PeerGone, taskVars, lockVars
  <2>2. /\ ctpp' \in BOOLEAN /\ channel' \in BOOLEAN /\ eof' \in BOOLEAN
        /\ sock' \in {"none", "open", "broken"}
        /\ owner' \in {"idle", "closing", "connecting", "opening", "starting"}
        /\ rd' = rd \/ rd' = At("idle")
    BY <1>16
       DEF CloseSocket, OwnerCancelled, Opened, OpenFails, ChannelOpens, PeerGone, TypeOK,
           linkVars, tearVars
  <2>3. /\ tear' \in [by : {"none", "reader", "owner"}, step : {"none", "ending", "closing"}]
        /\ pending' \in SUBSET Conns
    BY <1>16
       DEF CloseSocket, OwnerCancelled, Opened, OpenFails, ChannelOpens, PeerGone, TypeOK, NoTear,
           tearVars
  <2>4. links' \in 0..MaxLinks
    BY <1>16
       DEF CloseSocket, OwnerCancelled, Opened, OpenFails, ChannelOpens, PeerGone, TypeOK, tearVars
  <2> QED BY <2>1, <2>2, <2>3, <2>4 DEF TypeOK, At, ReaderSteps
<1> QED
  BY <1>1, <1>2, <1>3, <1>4, <1>5, <1>6, <1>7, <1>8, <1>9, <1>10, <1>11, <1>13, <1>14, <1>15, <1>16
     DEF Next, Panel, Owner, ReaderStep, TeardownStep, TaskStep

-----------------------------------------------------------------------------
(* The inductive invariant.                                                  *)

\* Where a task's next run may take it.
NextSteps(s) ==
    CASE s = "created" -> {"wait", "lost"}
      [] s = "syn" -> {"syn", "wait", "left"}
      [] s = "wait" -> {"wait", "fin", "done", "left"}
      [] s = "fin" -> {"fin", "done", "left"}
      [] OTHER -> {}

\* A run of one connection's task: it moves on, gives up, or, having
\* registered, replaces the previous registration.
LEMMA TaskInv ==
    ASSUME SessionConstants, TypeOK, Inv, NEW c \in Conns,
           step[c] \in {"created", "syn", "wait", "fin"},
           UNCHANGED <<kind, id, reported, rd, ctpp, previous>>,
           \/ registration' = registration
           \/ registration' = c /\ kind[c] = "register" /\ step'[c] \in {"fin", "done"},
           \/ \E s \in NextSteps(step[c]) : Goes(c, s)
           \/ GiveUp(c)
           \/ Registered(c),
           \A d \in Conns : step'[d] \in {"acking", "created", "syn", "wait"} /\ HasSentinel(d)
                                => HasSentinel(d)'
    PROVE  Inv'
<1> USE DEF Inv
<1>1. \A d \in Conns : d # c => step'[d] = step[d]
  BY DEF TypeOK, Goes, GiveUp, Unwatch, LeaveDoor, FailRegister, Registered
<1>2. \/ UNCHANGED routes
      \/ routes' = Release(routes, c) /\ step'[c] = "done"
      \/ routes' = Release(routes, previous) /\ step'[c] = "done"
  BY DEF TypeOK, Goes, GiveUp, Unwatch, LeaveDoor, FailRegister, Registered
<1>3. step'[c] \in NextSteps(step[c]) \cup {"done"}
  BY DEF TypeOK, Goes, GiveUp, Unwatch, LeaveDoor, FailRegister, Registered
<1>4. \A i \in Ids, d \in Conns : routes'[i] = d => routes[i] = d
  BY <1>2, SessionConstants DEF Release
<1>5. \A i \in Ids, d \in Conns :
         routes[i] = d /\ step'[d] \in {"created", "syn", "wait", "acking"} => routes'[i] = d
  BY <1>1, <1>2 DEF Release, RegInv
<1>6. \A i \in Ids : routes[i] = NoConn => routes'[i] = NoConn
  BY <1>2 DEF Release
<1>7. \/ UNCHANGED ends
      \/ /\ kind[c] = "inbound" /\ ~reported[c] /\ step'[c] = "done"
         /\ ends' = [ends EXCEPT ![c] = @ + 1]
         /\ routes' = Release(routes, c)
  BY DEF TypeOK, Goes, GiveUp, Unwatch, LeaveDoor, FailRegister, Registered
<1>8. RouteInv'
  <2> SUFFICES ASSUME NEW i \in Ids, NEW d \in Conns, routes'[i] = d
               PROVE  id'[d] = i /\ kind'[d] # "unused" /\ ends'[d] = 0
    BY DEF RouteInv
  <2>1. id[d] = i /\ kind[d] # "unused" /\ ends[d] = 0
    BY <1>4 DEF RouteInv
  <2>2. ends'[d] = ends[d]
    <3>1. CASE UNCHANGED ends
      BY <3>1
    <3>2. CASE ends' = [ends EXCEPT ![c] = @ + 1] /\ routes' = Release(routes, c)
      <4>1. d # c
        BY <3>2, SessionConstants DEF Release
      <4> QED BY <3>2, <4>1 DEF TypeOK
    <3> QED BY <1>7, <3>1, <3>2
  <2> QED BY <2>1, <2>2
<1>9. CallInv'
  <2> SUFFICES ASSUME NEW d \in Conns
               PROVE  /\ ends'[d] \in {0, 1}
                      /\ Watched(d)' /\ ~reported'[d] => ends'[d] = 0
                      /\ kind'[d] = "unused" => step'[d] = "none" /\ ends'[d] = 0 /\ ~reported'[d]
                      /\ step'[d] \in {"acking", "created"} => kind'[d] = "inbound"
                      /\ step'[d] = "syn" => kind'[d] \in {"door", "register"}
    BY DEF CallInv
  <2>1. CASE d # c
    BY <1>1, <1>7, <2>1 DEF CallInv, TypeOK, Watched
  <2>2. CASE d = c
    <3>1. kind[c] # "unused"
      BY DEF CallInv
    <3>2. kind[c] = "inbound" => Watched(c)
      BY DEF CallInv, Watched
    <3>3. ends'[c] \in {0, 1} /\ (ends'[c] = ends[c] \/ step'[c] = "done")
      BY <1>7, <3>2 DEF CallInv, TypeOK
    <3>4. step'[c] \notin {"acking", "created"} /\ (step'[c] = "syn" => step[c] = "syn")
      BY <1>3 DEF NextSteps
    <3> QED BY <2>2, <3>1, <3>2, <3>3, <3>4 DEF CallInv, Watched
  <2> QED BY <2>1, <2>2
<1>10. AckInv'
  <2>1. \A d \in Conns : step'[d] = "acking" => step[d] = "acking" /\ d # c
    BY <1>1, <1>3 DEF NextSteps
  <2>2. \A d \in Conns : d # c => ends'[d] = ends[d]
    BY <1>7 DEF TypeOK
  <2>3. rd.step = "accept" => rd.conn # c
    BY DEF AckInv
  <2> QED BY <1>1, <1>5, <1>6, <2>1, <2>2, <2>3 DEF AckInv
<1>11. RegInv'
  BY <1>1, <1>3 DEF RegInv, NextSteps
<1>12. NoOrphanWaiter'
  <2>1. \A d \in Conns : step'[d] \in {"created", "syn", "wait"} =>
            step[d] \in {"created", "syn", "wait"}
    BY <1>1, <1>3 DEF NextSteps
  <2> QED BY <1>5, <2>1 DEF NoOrphanWaiter, HasSentinel
<1> QED BY <1>8, <1>9, <1>10, <1>11, <1>12

\* A step that leaves the tasks, the table and the calls as they are.
LEMMA FrameInv ==
    ASSUME Inv,
           UNCHANGED <<kind, id, step, routes, ends, reported>>,
           \A c \in Conns : c \in {registration', previous'} => c \in {registration, previous},
           ctpp' => ctpp \/ rd.step # "accept",
           rd' = rd \/ (rd.step # "accept" /\ rd'.step # "accept"),
           \A c \in Conns : HasSentinel(c) => HasSentinel(c)'
    PROVE  Inv'
<1> USE DEF Inv
<1>1. RouteInv' /\ CallInv'
  BY DEF RouteInv, CallInv, Watched
<1>2. AckInv'
  BY DEF AckInv
<1>3. RegInv'
  BY DEF RegInv
<1>4. NoOrphanWaiter'
  BY DEF NoOrphanWaiter, HasSentinel
<1> QED BY <1>1, <1>2, <1>3, <1>4

\* An outbound transaction begins on a free id.
LEMMA BeginInv ==
    ASSUME SessionConstants, TypeOK, Inv, NEW c \in Conns, NEW i \in Ids,
           ctpp, OpenDoor(c, i) \/ Register(c, i)
    PROVE  Inv'
<1> USE DEF Inv
<1>1. PICK k \in {"door", "register"}, o \in Outcomes : Begin(c, i, k, o)
  BY DEF OpenDoor, Register
<1>2. /\ kind[c] = "unused" /\ routes[i] = NoConn
      /\ kind' = [kind EXCEPT ![c] = k] /\ id' = [id EXCEPT ![c] = i]
      /\ UNCHANGED <<inbox, ends, reported, registration, ctpp, rd>>
  BY <1>1 DEF Begin, Unused, linkVars
<1>3. \/ routes' = routes /\ step' = [step EXCEPT ![c] = "done"]
      \/ routes' = [routes EXCEPT ![i] = c] /\ step' = [step EXCEPT ![c] = "syn"]
      \/ routes' = [routes EXCEPT ![i] = c] /\ step' = [step EXCEPT ![c] = "wait"]
  BY <1>1 DEF Begin, Starts, Suspended
<1>4. /\ step[c] = "none" /\ ends[c] = 0 /\ ~reported[c]
      /\ \A j \in Ids : routes[j] # c
  BY <1>2 DEF CallInv, RouteInv
<1>5. previous' = previous \/ previous' = registration
  BY DEF OpenDoor, Register
<1>6. RouteInv'
  <2> SUFFICES ASSUME NEW j \in Ids, NEW d \in Conns, routes'[j] = d
               PROVE  id'[d] = j /\ kind'[d] # "unused" /\ ends'[d] = 0
    BY DEF RouteInv
  <2>1. CASE d = c
    BY <1>2, <1>3, <1>4, <2>1 DEF TypeOK
  <2>2. CASE d # c
    <3>1. routes[j] = d
      BY <1>3, <2>2 DEF TypeOK
    <3> QED BY <1>2, <2>2, <3>1 DEF RouteInv, TypeOK
  <2> QED BY <2>1, <2>2
<1>7. CallInv'
  BY <1>2, <1>3, <1>4 DEF CallInv, TypeOK, Watched
<1>8. AckInv'
  <2>1. \A d \in Conns : step'[d] = "acking" => step[d] = "acking" /\ d # c
    BY <1>3 DEF TypeOK
  <2>2. \A d \in Conns : step[d] = "acking" => routes[id[d]] = d /\ id[d] # i
    BY <1>2, SessionConstants DEF AckInv
  <2>3. rd.step = "accept" => rd.conn # c
    BY <1>4 DEF AckInv
  <2> QED BY <1>2, <1>3, <2>1, <2>2, <2>3 DEF AckInv, TypeOK
<1>9. RegInv'
  BY <1>2, <1>3, <1>4, <1>5 DEF RegInv, TypeOK
<1>10. NoOrphanWaiter'
  <2> SUFFICES ASSUME NEW d \in Conns, step'[d] \in {"created", "syn", "wait"}
               PROVE  (\E j \in Ids : routes'[j] = d) \/ HasSentinel(d)
    BY <1>2 DEF NoOrphanWaiter, HasSentinel
  <2>1. CASE d = c
    BY <1>3, <2>1 DEF TypeOK
  <2>2. CASE d # c
    <3>1. (\E j \in Ids : routes[j] = d) \/ HasSentinel(d)
      BY <1>3, <2>2 DEF NoOrphanWaiter, HasSentinel, TypeOK
    <3>2. \A j \in Ids : routes[j] = d => routes'[j] = d
      BY <1>2, <1>3, SessionConstants DEF TypeOK
    <3> QED BY <3>1, <3>2
  <2> QED BY <2>1, <2>2
<1> QED BY <1>6, <1>7, <1>8, <1>9, <1>10

\* Failing connections leaves the sentinel with them, and takes it from none.
LEMMA FailSentinels ==
    ASSUME TypeOK, NEW S, Fails(S)
    PROVE  /\ \A d \in Conns : d \in S => HasSentinel(d)'
           /\ \A d \in Conns : HasSentinel(d) => HasSentinel(d)'
<1> SUFFICES ASSUME NEW d \in Conns
             PROVE  (d \in S \/ HasSentinel(d)) => HasSentinel(d)'
  OBVIOUS
<1>1. inbox[d] \in Seq(Packets \cup {End})
  BY DEF TypeOK
<1>2. CASE d \in S
  <2>1. inbox'[d] = Append(inbox[d], End)
    BY <1>2 DEF Fails
  <2>2. Len(inbox'[d]) \in 1..Len(inbox'[d]) /\ inbox'[d][Len(inbox'[d])] = End
    BY <1>1, <2>1
  <2> QED BY <2>2 DEF HasSentinel
<1>3. CASE d \notin S
  BY <1>3 DEF Fails, HasSentinel
<1> QED BY <1>2, <1>3

\* An INVITE displaces the connection on its id, if any, and rings.
LEMMA InviteInv ==
    ASSUME SessionConstants, TypeOK, Inv, NEW c \in Conns, NEW i \in Ids, Invite(c, i)
    PROVE  Inv'
<1> USE DEF Inv
<1>1. /\ kind[c] = "unused" /\ rd.step = "idle" /\ ctpp
      /\ kind' = [kind EXCEPT ![c] = "inbound"] /\ id' = [id EXCEPT ![c] = i]
      /\ Fails(Displaced(i))
      /\ reported' = [d \in Conns |-> reported[d] \/ d \in EndedByDisplace(i)]
      /\ registration' \in {registration, NoConn}
      /\ UNCHANGED <<previous, ctpp>>
  BY DEF Invite, Unused, Dispatching
<1>2. PICK o \in Starts(FALSE, lockq) :
        /\ ends' = [d \in Conns |-> IF d \in EndedByDisplace(i) \/ (d = c /\ o = "raised")
                                    THEN ends[d] + 1 ELSE ends[d]]
        /\ routes' = [routes EXCEPT ![i] = IF o = "raised" THEN NoConn ELSE c]
        /\ step' = [step EXCEPT ![c] = IF Suspended(o) THEN "acking"
                                       ELSE IF o = "done" THEN "created" ELSE "done"]
        /\ rd' = IF Suspended(o) THEN [At("accept") EXCEPT !.conn = c] ELSE rd
  BY DEF Invite
<1>3. o \in {"done", "raised", "queued", "draining"}
  BY DEF Starts
<1>4. step[c] = "none" /\ ends[c] = 0 /\ ~reported[c] /\ \A j \in Ids : routes[j] # c
  BY <1>1 DEF CallInv, RouteInv
<1>5. \A h \in Conns : h \in Displaced(i) <=> routes[i] = h
  BY SessionConstants DEF Displaced
<1>6. \A h \in Conns : h \in EndedByDisplace(i) => routes[i] = h /\ ends[h] = 0 /\ h # c
  BY <1>1, <1>4, <1>5 DEF EndedByDisplace, RouteInv
<1>7. \A j \in Ids, h \in Conns : h # c /\ routes'[j] = h =>
          routes[j] = h /\ j # i /\ h \notin EndedByDisplace(i)
  BY <1>2, <1>6, SessionConstants DEF RouteInv, TypeOK
<1>8. RouteInv'
  <2> SUFFICES ASSUME NEW j \in Ids, NEW h \in Conns, routes'[j] = h
               PROVE  id'[h] = j /\ kind'[h] # "unused" /\ ends'[h] = 0
    BY DEF RouteInv
  <2>1. CASE h # c
    <3>1. routes[j] = h /\ h \notin EndedByDisplace(i)
      BY <1>7, <2>1
    <3> QED BY <1>1, <1>2, <2>1, <3>1 DEF RouteInv, TypeOK
  <2>2. CASE h = c
    <3>1. j = i /\ o # "raised"
      BY <1>2, <1>4, <2>2, SessionConstants DEF TypeOK
    <3>2. c \notin EndedByDisplace(i)
      BY <1>6
    <3> QED BY <1>1, <1>2, <1>4, <2>2, <3>1, <3>2 DEF TypeOK
  <2> QED BY <2>1, <2>2
<1>9. CallInv'
  <2> SUFFICES ASSUME NEW d \in Conns
               PROVE  /\ ends'[d] \in {0, 1}
                      /\ Watched(d)' /\ ~reported'[d] => ends'[d] = 0
                      /\ kind'[d] = "unused" => step'[d] = "none" /\ ends'[d] = 0 /\ ~reported'[d]
                      /\ step'[d] \in {"acking", "created"} => kind'[d] = "inbound"
                      /\ step'[d] = "syn" => kind'[d] \in {"door", "register"}
    BY DEF CallInv
  <2>1. CASE d = c
    <3>1. c \notin EndedByDisplace(i)
      BY <1>6
    <3>2. kind'[c] = "inbound" /\ ends'[c] = (IF o = "raised" THEN 1 ELSE 0)
      BY <1>1, <1>2, <1>4, <3>1 DEF TypeOK
    <3>3. step'[c] \in {"acking", "created", "done"} /\ (o = "raised" => step'[c] = "done")
      BY <1>2 DEF TypeOK, Suspended
    <3> QED BY <2>1, <3>2, <3>3 DEF Watched
  <2>2. CASE d # c /\ d \in EndedByDisplace(i)
    <3>1. kind[d] = "inbound" /\ ends[d] = 0 /\ reported'[d]
      BY <1>1, <1>6, <2>2 DEF EndedByDisplace
    <3>2. kind'[d] = kind[d] /\ step'[d] = step[d] /\ ends'[d] = 1
      BY <1>1, <1>2, <2>2, <3>1 DEF TypeOK
    <3> QED BY <3>1, <3>2 DEF CallInv
  <2>3. CASE d # c /\ d \notin EndedByDisplace(i)
    <3>1. kind'[d] = kind[d] /\ step'[d] = step[d] /\ ends'[d] = ends[d] /\ reported'[d] = reported[d]
      BY <1>1, <1>2, <2>3 DEF TypeOK
    <3> QED BY <3>1 DEF CallInv, Watched
  <2> QED BY <2>1, <2>2, <2>3
<1>10. AckInv'
  <2>1. \A d \in Conns : step'[d] = "acking" => d = c /\ Suspended(o)
    BY <1>1, <1>2 DEF AckInv, TypeOK
  <2>2. Suspended(o) => /\ rd'.step = "accept" /\ rd'.conn = c /\ step'[c] = "acking"
                        /\ routes'[i] = c /\ id'[c] = i /\ ends'[c] = 0 /\ ~reported'[c]
    BY <1>1, <1>2, <1>4, <1>6 DEF TypeOK, At, Suspended
  <2>3. ~Suspended(o) => rd'.step # "accept"
    BY <1>1, <1>2
  <2> QED BY <2>1, <2>2, <2>3 DEF AckInv
<1>11. RegInv'
  BY <1>1, <1>2, <1>4, SessionConstants DEF RegInv, TypeOK
<1>12. NoOrphanWaiter'
  <2> SUFFICES ASSUME NEW d \in Conns, step'[d] \in {"created", "syn", "wait"}
               PROVE  (\E j \in Ids : routes'[j] = d) \/ HasSentinel(d)'
    BY DEF NoOrphanWaiter, HasSentinel
  <2>1. CASE d = c
    <3>1. o # "raised"
      BY <1>2, <2>1 DEF TypeOK, Suspended
    <3> QED BY <1>2, <2>1, <3>1 DEF TypeOK
  <2>2. CASE d # c
    <3>1. (\E j \in Ids : routes[j] = d) \/ HasSentinel(d)
      BY <1>2, <2>2 DEF NoOrphanWaiter, HasSentinel, TypeOK
    <3>2. CASE HasSentinel(d)
      BY <1>1, <3>2, FailSentinels
    <3>3. CASE routes[i] = d
      BY <1>1, <1>5, <3>3, FailSentinels
    <3>4. CASE \E j \in Ids : j # i /\ routes[j] = d
      BY <1>2, <3>4 DEF TypeOK
    <3> QED BY <3>1, <3>2, <3>3, <3>4
  <2> QED BY <2>1, <2>2
<1> QED BY <1>8, <1>9, <1>10, <1>11, <1>12

-----------------------------------------------------------------------------
(* The other steps of the reader and of the teardown.                        *)

\* The acknowledgement of an INVITE goes on: the call is adopted, over, or,
\* after an error nobody expected, lost.
LEMMA AcceptInv ==
    ASSUME SessionConstants, TypeOK, Inv, NEW c \in Conns, AcceptResumes(c)
    PROVE  Inv'
<1> USE DEF Inv
<1>1. /\ rd.step = "accept" /\ rd.conn = c /\ step[c] = "acking"
      /\ UNCHANGED <<kind, id, inbox, reported, registration, previous, ctpp>>
  BY DEF AcceptResumes, AckInv
<1>2. /\ kind[c] = "inbound" /\ ends[c] = 0 /\ ~reported[c] /\ id[c] \in Ids
      /\ routes[id[c]] = c \/ (routes[id[c]] = NoConn /\ ~ctpp /\ HasSentinel(c))
  BY <1>1 DEF AckInv, CallInv
<1>3. \/ /\ step' = [step EXCEPT ![c] = "acking"]
         /\ UNCHANGED <<rd, routes, ends>>
      \/ /\ step' = [step EXCEPT ![c] = "created"] \/ step' = [step EXCEPT ![c] = "lost"]
         /\ rd' = At("idle") /\ UNCHANGED <<routes, ends>>
      \/ /\ step' = [step EXCEPT ![c] = "done"]
         /\ rd' = At("idle")
         /\ routes' = [routes EXCEPT ![id[c]] = NoConn]
         /\ ends' = [ends EXCEPT ![c] = @ + 1]
  <2>1. PICK o \in Resumes :
          /\ rd' = IF Suspended(o) THEN rd ELSE At("idle")
          /\ step' = [step EXCEPT ![c] = CASE Suspended(o) -> "acking" [] o = "done" -> "created"
                                           [] o = "raised" -> "done" [] o = "crashed" -> "lost"]
          /\ routes' = IF o = "raised" THEN [routes EXCEPT ![id[c]] = NoConn] ELSE routes
          /\ ends' = IF o = "raised" THEN [ends EXCEPT ![c] = @ + 1] ELSE ends
    BY DEF AcceptResumes
  <2>2. o \in Outcomes
    BY OutcomeTypes
  <2>3. CASE o \in {"queued", "draining"}
    BY <2>1, <2>3 DEF Suspended
  <2>4. CASE o = "done"
    BY <2>1, <2>4 DEF Suspended
  <2>5. CASE o = "raised"
    BY <2>1, <2>5 DEF Suspended
  <2>6. CASE o = "crashed"
    BY <2>1, <2>6 DEF Suspended
  <2> QED BY <2>2, <2>3, <2>4, <2>5, <2>6 DEF Outcomes
<1>4. /\ \A d \in Conns : d # c => step'[d] = step[d] /\ ends'[d] = ends[d]
      /\ \A i \in Ids : routes'[i] = routes[i] \/ (routes[i] \in {c, NoConn} /\ routes'[i] = NoConn)
      /\ step'[c] \in {"acking", "created", "lost", "done"}
      /\ rd'.step = "accept" => rd' = rd /\ step'[c] = "acking"
      /\ step'[c] = "acking" => rd' = rd
      /\ step'[c] # "done" => UNCHANGED <<routes, ends>>
      /\ ends'[c] \in {0, 1}
  BY <1>2, <1>3 DEF TypeOK, At
<1>5. RouteInv'
  <2> SUFFICES ASSUME NEW i \in Ids, NEW d \in Conns, routes'[i] = d
               PROVE  id'[d] = i /\ kind'[d] # "unused" /\ ends'[d] = 0
    BY DEF RouteInv
  <2>1. routes[i] = d
    BY <1>4, SessionConstants
  <2>2. d = c => UNCHANGED ends
    <3>1. d = c /\ step'[c] = "done" => routes' = [routes EXCEPT ![id[c]] = NoConn]
      BY <1>3 DEF TypeOK
    <3>2. d = c => id[c] = i
      BY <2>1 DEF RouteInv
    <3> QED BY <1>4, <3>1, <3>2, SessionConstants DEF TypeOK
  <2> QED BY <1>1, <1>4, <2>1, <2>2 DEF RouteInv
<1>6. CallInv'
  <2> SUFFICES ASSUME NEW d \in Conns
               PROVE  /\ ends'[d] \in {0, 1}
                      /\ Watched(d)' /\ ~reported'[d] => ends'[d] = 0
                      /\ kind'[d] = "unused" => step'[d] = "none" /\ ends'[d] = 0 /\ ~reported'[d]
                      /\ step'[d] \in {"acking", "created"} => kind'[d] = "inbound"
                      /\ step'[d] = "syn" => kind'[d] \in {"door", "register"}
    BY DEF CallInv
  <2>1. CASE d = c
    BY <1>1, <1>2, <1>4, <2>1 DEF Watched
  <2>2. CASE d # c
    BY <1>1, <1>4, <2>2 DEF CallInv, Watched
  <2> QED BY <2>1, <2>2
<1>7. AckInv'
  <2>1. \A d \in Conns : step'[d] = "acking" => d = c
    BY <1>1, <1>4 DEF AckInv
  <2>2. step'[c] = "acking" => UNCHANGED <<routes, ends, rd>>
    BY <1>4
  <2> QED BY <1>1, <1>2, <1>4, <2>1, <2>2 DEF AckInv, HasSentinel
<1>8. RegInv'
  BY <1>1, <1>4 DEF RegInv
<1>9. NoOrphanWaiter'
  <2> SUFFICES ASSUME NEW d \in Conns, step'[d] \in {"created", "syn", "wait"}
               PROVE  (\E j \in Ids : routes'[j] = d) \/ HasSentinel(d)
    BY <1>1 DEF NoOrphanWaiter, HasSentinel
  <2>1. CASE d = c
    BY <1>2, <1>4, <2>1
  <2>2. CASE d # c
    <3>1. (\E j \in Ids : routes[j] = d) \/ HasSentinel(d)
      BY <1>4, <2>2 DEF NoOrphanWaiter, HasSentinel
    <3>2. \A j \in Ids : routes[j] = d => routes'[j] = d
      BY <1>4, <2>2, SessionConstants
    <3> QED BY <3>1, <3>2
  <2> QED BY <2>1, <2>2
<1> QED BY <1>5, <1>6, <1>7, <1>8, <1>9

\* A teardown begins: the reader goes, and with it the call it was
\* acknowledging.
LEMMA BeginTeardownInv ==
    ASSUME TypeOK, Inv, NEW by, BeginTeardown(by)
    PROVE  Inv'
<1> USE DEF Inv
<1>1. /\ UNCHANGED <<kind, id, inbox, ends, reported, routes, registration, previous, ctpp>>
      /\ rd'.step = "off"
      /\ \A d \in Conns : step'[d] = IF step[d] = "acking" THEN "lost" ELSE step[d]
  BY DEF BeginTeardown, At, Unadopted, AckInv
<1>2. RouteInv' /\ CallInv'
  BY <1>1 DEF RouteInv, CallInv, Watched
<1>3. AckInv' /\ RegInv' /\ NoOrphanWaiter'
  BY <1>1 DEF AckInv, RegInv, NoOrphanWaiter
<1> QED BY <1>2, <1>3

\* The teardown fails every routed connection and clears the table.
LEMMA FinishInv ==
    ASSUME SessionConstants, TypeOK, Inv, FinishTeardown
    PROVE  Inv'
<1> USE DEF Inv
<1>1. /\ UNCHANGED <<kind, id, step, ends, reported, previous, rd>>
      /\ routes' = [i \in Ids |-> NoConn] /\ ~ctpp' /\ registration' = NoConn
      /\ Fails({routes[i] : i \in Ids} \ {NoConn})
  BY DEF FinishTeardown, linkVars
<1>2. \A d \in Conns : HasSentinel(d) \/ (\E i \in Ids : routes[i] = d) => HasSentinel(d)'
  <2>1. \A d \in Conns : (\E i \in Ids : routes[i] = d) => d \in {routes[i] : i \in Ids} \ {NoConn}
    BY SessionConstants
  <2> QED BY <1>1, <2>1, FailSentinels
<1>3. RouteInv' /\ CallInv' /\ RegInv'
  BY <1>1, SessionConstants DEF RouteInv, CallInv, Watched, RegInv
<1>4. AckInv'
  BY <1>1, <1>2 DEF AckInv
<1>5. NoOrphanWaiter'
  BY <1>1, <1>2 DEF NoOrphanWaiter, HasSentinel
<1> QED BY <1>3, <1>4, <1>5

\* A packet at the end of an inbox leaves the sentinel where it is.
LEMMA DeliveredSentinel ==
    ASSUME TypeOK, NEW h, NEW p, Delivered(h, p) \/ UNCHANGED inbox,
           NEW d \in Conns, HasSentinel(d)
    PROVE  HasSentinel(d)'
<1>1. inbox[d] \in Seq(Packets \cup {End})
  BY DEF TypeOK
<1>2. inbox'[d] = inbox[d] \/ (p \in Packets /\ inbox'[d] = Append(inbox[d], p))
  BY DEF Delivered, TypeOK
<1>3. PICK k \in 1..Len(inbox[d]) : inbox[d][k] = End
  BY DEF HasSentinel
<1>4. ASSUME p \in Packets, inbox'[d] = Append(inbox[d], p)
      PROVE  k \in 1..Len(inbox'[d]) /\ inbox'[d][k] = End
  BY <1>1, <1>3, <1>4
<1> QED BY <1>2, <1>3, <1>4 DEF HasSentinel

\* Taking another packet than the sentinel leaves the sentinel.
LEMMA TailSentinel ==
    ASSUME TypeOK, NEW c \in Conns, inbox[c] # <<>>, Head(inbox[c]) # End,
           inbox' = [inbox EXCEPT ![c] = Tail(@)],
           NEW d \in Conns, HasSentinel(d)
    PROVE  HasSentinel(d)'
<1>1. inbox \in [Conns -> Seq(Packets \cup {End})]
  BY DEF TypeOK
<1>2. CASE d # c
  BY <1>1, <1>2 DEF HasSentinel
<1>3. CASE d = c
  <2>1. PICK k \in 1..Len(inbox[c]) : inbox[c][k] = End
    BY <1>3 DEF HasSentinel
  <2>2. inbox[c] \in Seq(Packets \cup {End}) /\ inbox'[c] = Tail(inbox[c])
    BY <1>1
  <2>3. k # 1
    BY <2>1, <2>2
  <2>4. k - 1 \in 1..Len(Tail(inbox[c])) /\ Tail(inbox[c])[k - 1] = End
    BY <2>1, <2>2, <2>3
  <2> QED BY <1>3, <2>2, <2>4 DEF HasSentinel
<1> QED BY <1>2, <1>3

-----------------------------------------------------------------------------
(* Every step keeps the invariant.                                           *)

\* A task's own step.
LEMMA TaskStepInv ==
    ASSUME SessionConstants, TypeOK, Inv, NEW c \in Conns, TaskStep(c)
    PROVE  Inv'
<1>1. CASE SynResumes(c) \/ FinResumes(c)
  <2>1. step[c] \in {"syn", "fin"}
    BY <1>1 DEF SynResumes, FinResumes
  <2>2. UNCHANGED <<kind, id, inbox, reported, rd, ctpp, registration, previous>>
    BY <1>1 DEF SynResumes, FinResumes, linkVars
  <2>3. (\E s \in NextSteps(step[c]) : Goes(c, s)) \/ GiveUp(c) \/ Registered(c)
    BY <1>1 DEF SynResumes, FinResumes, AfterSyn, AfterFin, NextSteps
  <2> QED BY <2>1, <2>2, <2>3, TaskInv DEF HasSentinel
<1>2. CASE WakeWanted(c)
  <2>1. /\ step[c] = "wait" /\ inbox[c] # <<>>
        /\ inbox' = [inbox EXCEPT ![c] = Tail(@)]
        /\ UNCHANGED <<kind, id, reported, rd, ctpp, previous>>
    BY <1>2 DEF WakeWanted, Waits, linkVars
  <2>2. PICK o \in Starts(failed[c], lockq) : AfterFin(c, o)
    BY <1>2 DEF WakeWanted
  <2>3. o # "crashed"
    BY DEF Starts
  <2>4. Goes(c, "fin") \/ GiveUp(c) \/ (kind[c] = "register" /\ Registered(c))
    BY <2>2, <2>3 DEF AfterFin
  <2>5. step'[c] \in {"fin", "done"}
    BY <2>4 DEF Goes, GiveUp, Registered, Unwatch, LeaveDoor, FailRegister, TypeOK
  <2>6. \/ registration' = registration
        \/ registration' = c /\ kind[c] = "register"
    BY <1>2 DEF WakeWanted
  <2>7. \A d \in Conns : step'[d] \in {"acking", "created", "syn", "wait"} /\ HasSentinel(d)
                            => HasSentinel(d)'
    BY <2>1, <2>5 DEF HasSentinel, TypeOK
  <2>8. (\E s \in NextSteps(step[c]) : Goes(c, s)) \/ GiveUp(c) \/ Registered(c)
    BY <2>1, <2>4 DEF NextSteps
  <2> QED BY <2>1, <2>5, <2>6, <2>7, <2>8, TaskInv
<1>3. CASE WakeRefused(c) \/ Timeout(c)
  <2>1. /\ step[c] = "wait" /\ GiveUp(c)
        /\ UNCHANGED <<kind, id, reported, rd, ctpp, registration, previous>>
    BY <1>3 DEF WakeRefused, Timeout, Waits, linkVars
  <2>2. step'[c] = "done"
    BY <2>1 DEF GiveUp, Unwatch, LeaveDoor, FailRegister, TypeOK
  <2>3. UNCHANGED inbox \/ inbox' = [inbox EXCEPT ![c] = Tail(@)]
    BY <1>3 DEF WakeRefused, Timeout
  <2>4. \A d \in Conns : step'[d] \in {"acking", "created", "syn", "wait"} /\ HasSentinel(d)
                            => HasSentinel(d)'
    BY <2>2, <2>3 DEF HasSentinel, TypeOK
  <2> QED BY <2>1, <2>4, TaskInv
<1>4. CASE WakeIgnored(c)
  <2>1. /\ inbox[c] # <<>> /\ Head(inbox[c]) # End /\ inbox' = [inbox EXCEPT ![c] = Tail(@)]
        /\ UNCHANGED <<kind, id, step, routes, ends, reported, registration, previous, ctpp, rd>>
    BY <1>4 DEF WakeIgnored, Waits, Refused, taskVars, linkVars
  <2>2. \A d \in Conns : HasSentinel(d) => HasSentinel(d)'
    BY <2>1, TailSentinel
  <2> QED BY <2>1, <2>2, FrameInv
<1>5. CASE WatcherStarts(c)
  <2>1. /\ step[c] = "created" /\ Goes(c, "wait")
        /\ UNCHANGED <<kind, id, inbox, reported, registration, previous, ctpp, rd>>
    BY <1>5 DEF WatcherStarts, linkVars
  <2>2. \E s \in NextSteps(step[c]) : Goes(c, s)
    BY <2>1 DEF NextSteps
  <2> QED BY <2>1, <2>2, TaskInv DEF HasSentinel
<1> QED BY <1>1, <1>2, <1>3, <1>4, <1>5 DEF TaskStep

\* A step that cancels a task.
LEMMA CancelInv ==
    ASSUME SessionConstants, TypeOK, Inv, NEW c \in Conns, EndWatcher(c) \/ RegisterCancelled(c)
    PROVE  Inv'
<1>1. UNCHANGED <<kind, id, inbox, reported, registration, previous, ctpp, rd>>
  BY DEF EndWatcher, RegisterCancelled, linkVars
<1>2. \A d \in Conns : HasSentinel(d) => HasSentinel(d)'
  BY <1>1 DEF HasSentinel
<1>3. CASE UNCHANGED taskVars
  BY <1>1, <1>2, <1>3, FrameInv DEF taskVars
<1>4. CASE step[c] = "created" /\ Goes(c, "lost")
  <2>1. \E s \in NextSteps(step[c]) : Goes(c, s)
    BY <1>4 DEF NextSteps
  <2> QED BY <1>1, <1>2, <1>4, <2>1, TaskInv
<1>5. CASE step[c] \in {"wait", "fin"} /\ GiveUp(c)
  BY <1>1, <1>2, <1>5, TaskInv
<1>6. CASE step[c] \in {"syn", "wait", "fin"} /\ Goes(c, "left")
  <2>1. \E s \in NextSteps(step[c]) : Goes(c, s)
    BY <1>6 DEF NextSteps
  <2> QED BY <1>1, <1>2, <1>6, <2>1, TaskInv
<1> QED BY <1>3, <1>4, <1>5, <1>6
     DEF EndWatcher, RegisterCancelled, Registering, Watched, GiveUp

\* A step of the reader, of the teardown or of the owner that leaves the
\* tasks alone.
LEMMA OtherInv ==
    ASSUME TypeOK, Inv,
           \/ \E i \in Ids : Stray(i) \/ \E p \in Packets \cup {Repeat} : Route(i, p)
           \/ RouteResumes \/ FrameResumes
           \/ CloseSocket \/ OwnerCancelled \/ Opened \/ OpenFails \/ ChannelOpens \/ PeerGone
    PROVE  Inv'
<1>1. UNCHANGED <<kind, id, step, routes, ends, reported, registration, previous>>
  BY DEF Stray, Route, RouteResumes, FrameResumes, CloseSocket, OwnerCancelled, Opened,
         OpenFails, ChannelOpens, PeerGone, taskVars
<1>2. UNCHANGED inbox \/ \E h, p : Delivered(h, p)
  BY DEF Stray, Route, RouteResumes, FrameResumes, CloseSocket, OwnerCancelled, Opened,
         OpenFails, ChannelOpens, PeerGone
<1>3. \A d \in Conns : HasSentinel(d) => HasSentinel(d)'
  BY <1>2, DeliveredSentinel
<1>4. ctpp' => ctpp \/ rd.step # "accept"
  BY DEF Stray, Route, RouteResumes, FrameResumes, CloseSocket, OwnerCancelled, Opened,
         OpenFails, ChannelOpens, PeerGone
<1>5. rd' = rd \/ (rd.step # "accept" /\ rd'.step # "accept")
  <2>1. CASE RouteResumes \/ FrameResumes
    BY <2>1 DEF RouteResumes, FrameResumes, At
  <2>2. CASE \E i \in Ids : Stray(i) \/ \E p \in Packets \cup {Repeat} : Route(i, p)
    <3>1. rd.step = "idle"
      BY <2>2 DEF Stray, Route, Dispatching
    <3>2. \/ rd' = rd \/ rd' = At("stray")
          \/ \E h, p : rd' = [step |-> "route", conn |-> h, pkt |-> p]
          \/ \E h : rd' = [At("renew") EXCEPT !.conn = h]
      BY <2>2 DEF Stray, Route
    <3>3. rd' # rd => rd'.step \in {"stray", "route", "renew"}
      BY <3>2 DEF At
    <3> QED BY <3>1, <3>3
  <2>3. CASE CloseSocket \/ OwnerCancelled \/ Opened \/ OpenFails \/ ChannelOpens \/ PeerGone
    BY <2>3 DEF CloseSocket, OwnerCancelled, Opened, OpenFails, ChannelOpens, PeerGone, linkVars, At
  <2> QED BY <2>1, <2>2, <2>3
<1> QED BY <1>1, <1>3, <1>4, <1>5, FrameInv

\* A teardown begins, or whoever would begin one finds another in progress.
LEMMA StopInv ==
    ASSUME TypeOK, Inv, CloseBegins \/ ConnectBegins \/ ReaderStops
    PROVE  Inv'
<1>1. CASE \E by : BeginTeardown(by)
  BY <1>1, BeginTeardownInv
<1>2. CASE ~ \E by : BeginTeardown(by)
  <2>1. /\ UNCHANGED <<kind, id, step, inbox, routes, ends, reported, registration, previous, ctpp>>
        /\ rd' = rd \/ (rd.step = "idle" /\ rd' = At("dead"))
    BY <1>2 DEF CloseBegins, ConnectBegins, ReaderStops, taskVars, linkVars
  <2> QED BY <2>1, FrameInv DEF HasSentinel, At
<1> QED BY <1>1, <1>2

\* Every step of the session keeps the invariant.
LEMMA InvStep == TypeOK /\ Inv /\ [Next]_vars => Inv'
<1> SUFFICES ASSUME TypeOK, Inv, [Next]_vars PROVE Inv'
  OBVIOUS
<1> USE SessionConstants
<1>1. CASE UNCHANGED vars
  BY <1>1, FrameInv DEF vars, HasSentinel
<1>2. CASE Panel
  BY <1>2, InviteInv, OtherInv DEF Panel
<1>3. CASE Owner
  <2>1. \A c \in Conns, i \in Ids : Register(c, i) => ctpp
    BY DEF Register
  <2> QED BY <1>3, <2>1, StopInv, OtherInv, BeginInv, CancelInv DEF Owner
<1>4. CASE ReaderStep
  BY <1>4, AcceptInv, OtherInv, StopInv DEF ReaderStep
<1>5. CASE TeardownStep
  BY <1>5, CancelInv, OtherInv, FinishInv DEF TeardownStep
<1>6. ASSUME NEW c \in Conns, NEW i \in Ids, OpenDoor(c, i)
      PROVE  Inv'
  BY <1>6, BeginInv DEF OpenDoor
<1>7. ASSUME NEW c \in Conns, TaskStep(c)
      PROVE  Inv'
  BY <1>7, TaskStepInv
<1> QED BY <1>1, <1>2, <1>3, <1>4, <1>5, <1>6, <1>7 DEF Next

-----------------------------------------------------------------------------
(* The theorems.                                                             *)

\* The session starts with no call, no route and nobody waiting.
LEMMA InitInv == Init => IInv
<1> SUFFICES ASSUME Init PROVE TypeOK /\ Inv
  BY DEF IInv
<1> USE SessionConstants DEF Init
<1>1. TypeOK
  <2>1. kind \in [Conns -> Kinds] /\ step \in [Conns -> Steps]
    BY DEF Kinds, Steps
  <2>2. inbox \in [Conns -> Seq(Packets \cup {End})]
    OBVIOUS
  <2>3. lockq \in Seq(Conns \cup {Reader})
    OBVIOUS
  <2>4. rd \in [step : ReaderSteps, conn : Conns \cup {NoConn}, pkt : Packets \cup {End, Repeat}]
    BY DEF At, ReaderSteps
  <2>5. tear \in [by : {"none", "reader", "owner"}, step : {"none", "ending", "closing"}]
    BY DEF NoTear
  <2>6. /\ ends \in [Conns -> Nat] /\ links \in 0..MaxLinks
        /\ id \in [Conns -> Ids \cup {NoId}] /\ routes \in [Ids -> Conns \cup {NoConn}]
        /\ failed \in [Conns -> BOOLEAN] /\ reported \in [Conns -> BOOLEAN]
    OBVIOUS
  <2> QED BY <2>1, <2>2, <2>3, <2>4, <2>5, <2>6 DEF TypeOK
<1>2. RouteInv /\ CallInv
  BY DEF RouteInv, CallInv, Watched
<1>3. AckInv /\ RegInv /\ NoOrphanWaiter
  BY DEF AckInv, RegInv, NoOrphanWaiter, At
<1> QED BY <1>1, <1>2, <1>3 DEF Inv

\* The invariant holds in every reachable state.
LEMMA Invariance == Spec => []IInv
<1>1. IInv /\ [Next]_vars => IInv'
  BY TypeStep, InvStep DEF IInv
<1> QED BY <1>1, InitInv, PTL DEF Spec

\* Type correctness: every variable of the session stays in its type.
THEOREM TypeCorrect == Spec => []TypeOK
<1>1. IInv => TypeOK
  BY DEF IInv
<1> QED BY <1>1, Invariance, PTL

\* on_call_end is called at most once for every call, whichever of the
\* displacement, the failed acknowledgement, the watcher's finally and the
\* teardown comes first.
THEOREM EndsOnceHolds == Spec => []EndsOnce
<1>1. IInv => EndsOnce
  BY DEF IInv, Inv, CallInv, EndsOnce
<1> QED BY <1>1, Invariance, PTL

\* The routing table never names a call whose end was reported.
THEOREM EndedIsUnroutedHolds == Spec => []EndedIsUnrouted
<1>1. IInv => EndedIsUnrouted
  BY DEF IInv, Inv, RouteInv, EndedIsUnrouted
<1> QED BY <1>1, Invariance, PTL

\* Every task that waits on a connection, or is about to, is still routed or
\* has the sentinel of fail() in its inbox.
THEOREM NoOrphanWaiterHolds == Spec => []NoOrphanWaiter
<1>1. IInv => NoOrphanWaiter
  BY DEF IInv, Inv
<1> QED BY <1>1, Invariance, PTL

-----------------------------------------------------------------------------
(* The session implements the ledger.                                        *)

\* Task t is in queue q.
In(q, t) == \E k \in 1..Len(q) : q[k] = t

\* A task that joins a queue is in it, and pushes nobody out.
LEMMA InAppend ==
    ASSUME NEW S, NEW q \in Seq(S), NEW t \in S, NEW u
    PROVE  /\ In(q, u) => In(Append(q, t), u)
           /\ In(Append(q, t), t)
<1>1. ASSUME NEW k \in 1..Len(q), q[k] = u
      PROVE  k \in 1..Len(Append(q, t)) /\ Append(q, t)[k] = u
  BY <1>1
<1>2. Len(q) + 1 \in 1..Len(Append(q, t)) /\ Append(q, t)[Len(q) + 1] = t
  OBVIOUS
<1> QED BY <1>1, <1>2 DEF In

\* Only the head leaves with the head.
LEMMA InTail ==
    ASSUME NEW S, NEW q \in Seq(S), q # <<>>, NEW u, In(q, u), Head(q) # u
    PROVE  In(Tail(q), u)
<1>1. PICK k \in 1..Len(q) : q[k] = u
  BY DEF In
<1>2. k # 1
  BY <1>1
<1>3. k - 1 \in 1..Len(Tail(q)) /\ Tail(q)[k - 1] = u
  BY <1>1, <1>2
<1> QED BY <1>3 DEF In

\* A queue that a task leaves closes up behind it.
LEMMA WithoutAt ==
    ASSUME NEW S, NEW q \in Seq(S), NEW t, In(q, t)
    PROVE  \E k \in 1..Len(q) :
             /\ q[k] = t /\ Len(Without(q, t)) = Len(q) - 1
             /\ \A j \in 1..(Len(q) - 1) :
                   Without(q, t)[j] = IF j < k THEN q[j] ELSE q[j + 1]
<1> DEFINE k == CHOOSE k \in 1..Len(q) : q[k] = t
           a == SubSeq(q, 1, k - 1)
           b == SubSeq(q, k + 1, Len(q))
<1>1. k \in 1..Len(q) /\ q[k] = t
  BY DEF In
<1>2. Without(q, t) = a \o b
  BY DEF Without, In
<1> HIDE DEF k
<1>3. Len(q) \in Nat /\ k \in Nat /\ k - 1 \in Int /\ k + 1 \in Int
  BY <1>1, LenProperties
<1>4. /\ a \in Seq(S) /\ Len(a) = k - 1
      /\ \A j \in 1..(k - 1) : a[j] = q[j]
  <2>1. \A j \in 1..(k - 1) : q[j] \in S
    BY <1>1, <1>3
  <2>2. IF 1 <= k - 1 THEN Len(a) = (k - 1) - 1 + 1 ELSE Len(a) = 0
    BY <1>3, <2>1, SubSeqProperties
  <2> QED BY <1>1, <1>3, <2>1, <2>2, SubSeqProperties
<1>5. /\ b \in Seq(S) /\ Len(b) = Len(q) - k
      /\ \A j \in 1..(Len(q) - k) : b[j] = q[k + j]
  <2>1. \A j \in (k + 1)..Len(q) : q[j] \in S
    BY <1>1, <1>3
  <2>2. b \in Seq(S) /\ Len(b) = (IF k + 1 <= Len(q) THEN Len(q) - (k + 1) + 1 ELSE 0)
    BY <1>3, <2>1, SubSeqProperties
  <2>3. \A j \in 1..(Len(q) - (k + 1) + 1) : b[j] = q[(k + 1) + j - 1]
    BY <1>3, <2>1, SubSeqProperties
  <2>4. Len(b) = Len(q) - k
    BY <1>1, <1>3, <2>2
  <2>5. ASSUME NEW j \in 1..(Len(q) - k) PROVE b[j] = q[k + j]
    <3>1. j \in 1..(Len(q) - (k + 1) + 1) /\ (k + 1) + j - 1 = k + j
      BY <1>3
    <3> QED BY <2>3, <3>1
  <2> QED BY <2>2, <2>4, <2>5
<1> HIDE DEF a, b
<1>6. /\ Len(a \o b) = Len(a) + Len(b)
      /\ \A j \in 1..(Len(a) + Len(b)) :
            (a \o b)[j] = IF j <= Len(a) THEN a[j] ELSE b[j - Len(a)]
  BY <1>4, <1>5, ConcatProperties
<1>7. Len(a) + Len(b) = Len(q) - 1
  BY <1>3, <1>4, <1>5
<1>8. ASSUME NEW j \in 1..(Len(q) - 1)
      PROVE  (a \o b)[j] = IF j < k THEN q[j] ELSE q[j + 1]
  <2>1. CASE j < k
    <3>1. j \in 1..(k - 1) /\ j <= Len(a) /\ j \in 1..(Len(a) + Len(b))
      BY <1>3, <1>4, <1>7, <2>1
    <3> QED BY <1>4, <1>6, <2>1, <3>1
  <2>2. CASE ~(j < k)
    <3>1. /\ j \in 1..(Len(a) + Len(b)) /\ ~(j <= Len(a)) /\ j - Len(a) = j + 1 - k
          /\ j + 1 - k \in 1..(Len(q) - k) /\ k + (j + 1 - k) = j + 1
      BY <1>1, <1>3, <1>4, <1>7, <2>2
    <3> QED BY <1>5, <1>6, <2>2, <3>1
  <2> QED BY <2>1, <2>2
<1> QED BY <1>1, <1>2, <1>6, <1>7, <1>8

\* Only the task that leaves a queue leaves it.
LEMMA InWithout ==
    ASSUME NEW S, NEW q \in Seq(S), NEW t, NEW u, In(q, u), u # t
    PROVE  In(Without(q, t), u)
<1>1. CASE In(q, t)
  <2>1. PICK k \in 1..Len(q) :
          /\ q[k] = t /\ Len(Without(q, t)) = Len(q) - 1
          /\ \A j \in 1..(Len(q) - 1) : Without(q, t)[j] = IF j < k THEN q[j] ELSE q[j + 1]
    BY <1>1, WithoutAt
  <2>2. PICK j \in 1..Len(q) : q[j] = u
    BY DEF In
  <2>3. CASE j < k
    <3>1. j \in 1..(Len(q) - 1)
      BY <2>3
    <3> QED BY <2>1, <2>2, <2>3, <3>1 DEF In
  <2>4. CASE k < j
    <3>1. j - 1 \in 1..(Len(q) - 1) /\ ~(j - 1 < k) /\ (j - 1) + 1 = j
      BY <2>4
    <3> QED BY <2>1, <2>2, <3>1 DEF In
  <2> QED BY <2>1, <2>2, <2>3, <2>4
<1>2. CASE ~In(q, t)
  BY <1>2 DEF Without, In
<1> QED BY <1>1, <1>2

\* The reader that acknowledges an INVITE, and a watcher that sends its FIN,
\* hold the lock or wait for it.
QueueInv ==
    \A c \in Conns :
        /\ step[c] = "acking" => In(lockq, Reader)
        /\ kind[c] = "inbound" /\ step[c] = "fin" => In(lockq, c)

\* A call that has not ended is followed by a task or lost, and is routed as
\* long as it is followed and the CTPP channel stands.
RingInv ==
    \A c \in Conns : kind[c] = "inbound" =>
        /\ id[c] \in Ids
        /\ reported[c] => ends[c] = 1
        /\ ends[c] = 0 => step[c] \in {"acking", "created", "wait", "fin", "lost"}
        /\ ends[c] = 0 /\ step[c] # "lost" => routes[id[c]] = c \/ ~ctpp

\* What the step simulation needs to know.
FullInv == IInv /\ QueueInv /\ RingInv

\* What the ledger sees of a connection.
Phase(c) ==
    IF kind[c] # "inbound" THEN "none"
    ELSE IF ends[c] = 1 THEN "ended"
    ELSE IF ends[c] > 1 THEN "twice"
    ELSE IF step[c] = "lost" THEN "lost" ELSE "ringing"
Line(c) == IF kind[c] = "inbound" THEN id[c] ELSE NoId

\* A step of the session that is one of the ledger's, or none.
Simulates == [Ledger!Next]_(Ledger!vars)

\* A step that changes no call's phase is none of the ledger's.
LEMMA StutterSim ==
    ASSUME \A d \in Conns : Phase(d)' = Phase(d) /\ Line(d)' = Line(d)
    PROVE  Simulates
BY DEF Simulates, Ledger!vars, Phase, Line

\* A step that ends, or loses, one call.
LEMMA OneCallSim ==
    ASSUME NEW c \in Conns, Phase(c) = "ringing", Phase(c)' \in {"ended", "lost"},
           \A d \in Conns : d # c => Phase(d)' = Phase(d),
           \A d \in Conns : Line(d)' = Line(d)
    PROVE  Simulates
<1> DEFINE ph == [d \in Conns |-> Phase(d)]
           li == [d \in Conns |-> Line(d)]
<1>1. li' = li
  OBVIOUS
<1>2. ph[c] = "ringing" /\ ph' = [ph EXCEPT ![c] = Phase(c)']
  OBVIOUS
<1>3. Ledger!End(c) \/ Ledger!Lose(c)
  BY <1>1, <1>2 DEF Ledger!End, Ledger!Lose, Phase, Line
<1> QED BY <1>3 DEF Simulates, Ledger!Next

\* A run of a connection's task keeps what is known of the calls; it ends or
\* loses a call only if it is the call's watcher and nobody ended it before.
LEMMA TaskSim ==
    ASSUME SessionConstants, IInv, RingInv, NEW c \in Conns,
           UNCHANGED <<kind, id, reported, ctpp>>,
           \/ /\ Watched(c)
              /\ Unwatch(c) \/ \E s \in {"wait", "fin", "lost"} : Goes(c, s)
           \/ /\ kind[c] \in {"door", "register"}
              /\ \/ LeaveDoor(c) \/ FailRegister(c) \/ Registered(c)
                 \/ \E s : Goes(c, s)
    PROVE  RingInv' /\ Simulates
<1> USE DEF IInv, Inv
<1>1. CASE Watched(c) /\ Unwatch(c)
  <2>1. /\ kind[c] = "inbound" /\ step[c] \in {"created", "wait", "fin"}
        /\ step' = [step EXCEPT ![c] = "done"]
        /\ routes' = Release(routes, c)
        /\ ends' = IF reported[c] THEN ends ELSE [ends EXCEPT ![c] = @ + 1]
    BY <1>1 DEF Watched, Unwatch
  <2>2. ends[c] = (IF reported[c] THEN 1 ELSE 0)
    BY <1>1, <2>1 DEF RingInv, CallInv
  <2>3. /\ ends'[c] = 1
        /\ \A d \in Conns : d # c => ends'[d] = ends[d] /\ step'[d] = step[d]
        /\ \A i \in Ids, d \in Conns : d # c /\ routes[i] = d => routes'[i] = d
    BY <2>1, <2>2 DEF TypeOK, Release
  <2>4. RingInv'
    <3> SUFFICES ASSUME NEW d \in Conns, kind[d] = "inbound"
                 PROVE  /\ id[d] \in Ids
                        /\ reported[d] => ends'[d] = 1
                        /\ ends'[d] = 0 => step'[d] \in {"acking", "created", "wait", "fin", "lost"}
                        /\ ends'[d] = 0 /\ step'[d] # "lost" => routes'[id[d]] = d \/ ~ctpp
      BY DEF RingInv
    <3>1. CASE d = c
      BY <2>3, <3>1 DEF RingInv
    <3>2. CASE d # c
      BY <2>3, <3>2 DEF RingInv
    <3> QED BY <3>1, <3>2
  <2>5. \A d \in Conns : d # c => Phase(d)' = Phase(d)
    BY <2>3 DEF Phase
  <2>6. \A d \in Conns : Line(d)' = Line(d)
    BY DEF Line
  <2>7. Phase(c)' = "ended"
    BY <2>1, <2>3 DEF Phase
  <2>8. Phase(c) = "ended" \/ Phase(c) = "ringing"
    BY <2>1, <2>2 DEF Phase
  <2>9. Simulates
    BY <2>5, <2>6, <2>7, <2>8, OneCallSim, StutterSim
  <2> QED BY <2>4, <2>9
<1>2. CASE Watched(c) /\ \E s \in {"wait", "fin", "lost"} : Goes(c, s)
  <2>1. /\ kind[c] = "inbound" /\ step[c] \in {"created", "wait", "fin"}
        /\ UNCHANGED <<routes, ends>>
        /\ step'[c] \in {"wait", "fin", "lost"}
        /\ \A d \in Conns : d # c => step'[d] = step[d]
    BY <1>2 DEF Watched, Goes, TypeOK
  <2>2. RingInv'
    BY <2>1 DEF RingInv
  <2>3. \A d \in Conns : Line(d)' = Line(d) /\ (d # c => Phase(d)' = Phase(d))
    BY <2>1 DEF Phase, Line
  <2>4. ends[c] \in {0, 1}
    BY DEF CallInv
  <2>5. \/ Phase(c)' = Phase(c)
        \/ Phase(c) = "ringing" /\ Phase(c)' = "lost"
    BY <2>1, <2>4 DEF Phase
  <2>6. Simulates
    BY <2>3, <2>5, OneCallSim, StutterSim
  <2> QED BY <2>2, <2>6
<1>3. CASE /\ kind[c] \in {"door", "register"}
           /\ \/ LeaveDoor(c) \/ FailRegister(c) \/ Registered(c)
              \/ \E s : Goes(c, s)
  <2>1. /\ UNCHANGED ends
        /\ \A d \in Conns : kind[d] = "inbound" => d # c /\ step'[d] = step[d]
    BY <1>3 DEF LeaveDoor, FailRegister, Registered, Goes, TypeOK
  <2>2. \A i \in Ids, d \in Conns : kind[d] = "inbound" /\ routes[i] = d => routes'[i] = d
    <3>1. UNCHANGED routes \/ routes' = Release(routes, c) \/ routes' = Release(routes, previous)
      BY <1>3 DEF LeaveDoor, FailRegister, Registered, Goes
    <3>2. \A d \in Conns : kind[d] = "inbound" => d # c /\ d # previous
      BY <1>3 DEF RegInv
    <3> QED BY <3>1, <3>2 DEF Release
  <2>3. RingInv'
    BY <2>1, <2>2 DEF RingInv
  <2>4. \A d \in Conns : Phase(d)' = Phase(d) /\ Line(d)' = Line(d)
    BY <2>1 DEF Phase, Line
  <2> QED BY <2>3, <2>4, StutterSim
<1> QED BY <1>1, <1>2, <1>3

\* A step that leaves the calls alone keeps what is known of them.
LEMMA FrameSim ==
    ASSUME RingInv, UNCHANGED <<kind, id, step, ends, reported>>,
           UNCHANGED routes \/ ~ctpp',
           ctpp' => ctpp
    PROVE  RingInv' /\ Simulates
<1>1. RingInv'
  BY DEF RingInv
<1>2. \A d \in Conns : Phase(d)' = Phase(d) /\ Line(d)' = Line(d)
  BY DEF Phase, Line
<1> QED BY <1>1, <1>2, StutterSim

\* A door release or a registration begins: no call is touched.
LEMMA BeginSim ==
    ASSUME SessionConstants, IInv, RingInv, NEW c \in Conns, NEW i \in Ids,
           OpenDoor(c, i) \/ Register(c, i)
    PROVE  RingInv' /\ Simulates
<1> USE DEF IInv, Inv
<1>1. PICK k \in {"door", "register"}, o \in Outcomes : Begin(c, i, k, o)
  BY DEF OpenDoor, Register
<1>2. /\ kind[c] = "unused" /\ routes[i] = NoConn
      /\ kind' = [kind EXCEPT ![c] = k] /\ id' = [id EXCEPT ![c] = i]
      /\ UNCHANGED <<ends, reported, ctpp>>
      /\ \A j \in Ids : routes'[j] = routes[j] \/ j = i
      /\ \A d \in Conns : d # c => step'[d] = step[d]
  BY <1>1 DEF Begin, Unused, TypeOK
<1>3. \A d \in Conns : kind'[d] = "inbound" => d # c /\ kind[d] = "inbound" /\ id'[d] = id[d]
  BY <1>2 DEF TypeOK
<1>4. RingInv'
  BY <1>2, <1>3, SessionConstants DEF RingInv
<1>5. \A d \in Conns : Phase(d)' = Phase(d) /\ Line(d)' = Line(d)
  BY <1>2, <1>3 DEF Phase, Line, TypeOK
<1> QED BY <1>4, <1>5, StutterSim

\* An INVITE rings: the call that rang on its id until now ends, and so does
\* one that a teardown lost and that still has the id.
LEMMA InviteSim ==
    ASSUME SessionConstants, IInv, RingInv, NEW c \in Conns, NEW i \in Ids, Invite(c, i)
    PROVE  RingInv' /\ Simulates
<1> USE DEF IInv, Inv
<1>1. /\ kind[c] = "unused" /\ ctpp
      /\ kind' = [kind EXCEPT ![c] = "inbound"] /\ id' = [id EXCEPT ![c] = i]
      /\ reported' = [d \in Conns |-> reported[d] \/ d \in EndedByDisplace(i)]
      /\ UNCHANGED ctpp
  BY DEF Invite, Unused, Dispatching
<1>2. PICK o \in Starts(FALSE, lockq) :
        /\ ends' = [d \in Conns |-> IF d \in EndedByDisplace(i) \/ (d = c /\ o = "raised")
                                    THEN ends[d] + 1 ELSE ends[d]]
        /\ routes' = [routes EXCEPT ![i] = IF o = "raised" THEN NoConn ELSE c]
        /\ step' = [step EXCEPT ![c] = IF Suspended(o) THEN "acking"
                                       ELSE IF o = "done" THEN "created" ELSE "done"]
  BY DEF Invite
<1>3. o \in {"done", "raised", "queued", "draining"}
  BY DEF Starts
<1>4. step[c] = "none" /\ ends[c] = 0 /\ ~reported[c] /\ \A j \in Ids : routes[j] # c
  BY <1>1 DEF CallInv, RouteInv
<1>5. \A h \in Conns : h \in EndedByDisplace(i) <=> routes[i] = h /\ kind[h] = "inbound"
  BY SessionConstants DEF Displaced, EndedByDisplace
<1>6. \A h \in EndedByDisplace(i) : h \in Conns /\ h # c /\ ends[h] = 0 /\ id[h] = i
  <2>1. EndedByDisplace(i) \subseteq Conns
    BY SessionConstants DEF Displaced, EndedByDisplace, TypeOK
  <2> QED BY <1>4, <1>5, <2>1 DEF RouteInv
<1>7. /\ kind'[c] = "inbound" /\ id'[c] = i /\ ~reported'[c]
      /\ ends'[c] = (IF o = "raised" THEN 1 ELSE 0)
      /\ routes'[i] = (IF o = "raised" THEN NoConn ELSE c)
      /\ o # "raised" => step'[c] \in {"acking", "created"}
  BY <1>1, <1>2, <1>3, <1>4, <1>6 DEF TypeOK, Suspended
<1>8. \A d \in Conns : d # c =>
        /\ kind'[d] = kind[d] /\ id'[d] = id[d] /\ step'[d] = step[d]
        /\ d \in EndedByDisplace(i) => reported'[d] /\ ends'[d] = 1
        /\ d \notin EndedByDisplace(i) => (reported'[d] <=> reported[d]) /\ ends'[d] = ends[d]
  <2> SUFFICES ASSUME NEW d \in Conns, d # c
               PROVE  /\ kind'[d] = kind[d] /\ id'[d] = id[d] /\ step'[d] = step[d]
                      /\ d \in EndedByDisplace(i) => reported'[d] /\ ends'[d] = 1
                      /\ d \notin EndedByDisplace(i) =>
                            (reported'[d] <=> reported[d]) /\ ends'[d] = ends[d]
    OBVIOUS
  <2>1. kind'[d] = kind[d] /\ id'[d] = id[d] /\ step'[d] = step[d]
    BY <1>1, <1>2 DEF TypeOK
  <2>2. reported'[d] <=> reported[d] \/ d \in EndedByDisplace(i)
    BY <1>1
  <2>3. ends'[d] = IF d \in EndedByDisplace(i) THEN ends[d] + 1 ELSE ends[d]
    BY <1>2
  <2> QED BY <1>6, <2>1, <2>2, <2>3
<1>9. \A j \in Ids : j # i => routes'[j] = routes[j]
  BY <1>2 DEF TypeOK
<1>10. \A d \in Conns : d # c /\ kind[d] = "inbound" /\ id[d] = i /\ ends[d] = 0 /\ step[d] # "lost"
          => d \in EndedByDisplace(i)
  BY <1>1, <1>5 DEF RingInv
<1>11. RingInv'
  <2> SUFFICES ASSUME NEW d \in Conns, kind'[d] = "inbound"
               PROVE  /\ id'[d] \in Ids
                      /\ reported'[d] => ends'[d] = 1
                      /\ ends'[d] = 0 => step'[d] \in {"acking", "created", "wait", "fin", "lost"}
                      /\ ends'[d] = 0 /\ step'[d] # "lost" => routes'[id'[d]] = d \/ ~ctpp'
    BY DEF RingInv
  <2>1. CASE d = c
    BY <1>7, <2>1
  <2>2. CASE d # c /\ d \in EndedByDisplace(i)
    BY <1>6, <1>8, <2>2
  <2>3. CASE d # c /\ d \notin EndedByDisplace(i)
    <3>1. /\ id'[d] = id[d] /\ kind[d] = "inbound" /\ ends'[d] = ends[d] /\ step'[d] = step[d]
          /\ reported'[d] <=> reported[d]
      BY <1>8, <2>3
    <3>2. ends[d] = 0 /\ step[d] # "lost" => id[d] # i
      BY <1>10, <2>3, <3>1
    <3> QED BY <1>1, <1>9, <3>1, <3>2 DEF RingInv
  <2> QED BY <2>1, <2>2, <2>3
<1>12. Simulates
  <2> DEFINE ph == [d \in Conns |-> Phase(d)]
             li == [d \in Conns |-> Line(d)]
             late == {d \in EndedByDisplace(i) : step[d] = "lost"}
             On(p) == {d \in Conns : li[d] = i /\ ph[d] = p}
  <2>1. Phase(c) = "none" /\ Phase(c)' = (IF o = "raised" THEN "ended" ELSE "ringing")
    BY <1>1, <1>7 DEF Phase
  <2>2. li' = [li EXCEPT ![c] = i]
    BY <1>7, <1>8 DEF Line
  <2>3. \A d \in EndedByDisplace(i) : Phase(d)' = "ended" /\ Line(d) = i
                                      /\ Phase(d) = IF step[d] = "lost" THEN "lost" ELSE "ringing"
    BY <1>5, <1>6, <1>8 DEF Phase, Line
  <2>4. \A d \in Conns : d # c /\ d \notin EndedByDisplace(i) => Phase(d)' = Phase(d)
    BY <1>8 DEF Phase
  <2>5. late \in SUBSET On("lost")
    BY <1>6, <2>3
  <2>6. \A d \in Conns : d \in On("ringing") \cup late <=> d \in EndedByDisplace(i)
    <3>1. \A d \in Conns : Phase(d) = "ringing" /\ Line(d) = i => d \in EndedByDisplace(i)
      <4>1. \A d \in Conns : Phase(d) = "ringing" =>
              kind[d] = "inbound" /\ ends[d] = 0 /\ step[d] # "lost" /\ d # c
        BY <1>1 DEF Phase, CallInv
      <4> QED BY <1>10, <4>1 DEF Line
    <3> QED BY <1>6, <2>3, <3>1
  <2>7. ph' = [d \in Conns |-> IF d = c THEN Phase(c)'
                               ELSE IF d \in On("ringing") \cup late THEN "ended" ELSE ph[d]]
    <3>1. \A d \in Conns : d # c => Phase(d)' = IF d \in EndedByDisplace(i) THEN "ended" ELSE Phase(d)
      BY <2>3, <2>4
    <3> QED BY <2>6, <3>1
  <2>8. Phase(c)' \in {"ringing", "ended"} /\ ph[c] = "none"
    BY <2>1
  <2>9. On("lost") = Ledger!On(i, "lost") /\ On("ringing") = Ledger!On(i, "ringing")
    BY DEF Ledger!On, Phase, Line
  <2>10. ph[c] = "none" /\ li' = [li EXCEPT ![c] = i]
    BY <2>2, <2>8
  <2>11. \E l \in SUBSET Ledger!On(i, "lost"), p \in {"ringing", "ended"} :
            ph' = [d \in Conns |-> IF d = c THEN p
                                   ELSE IF d \in Ledger!On(i, "ringing") \cup l
                                        THEN "ended" ELSE ph[d]]
    <3> HIDE DEF ph, li, late, On
    <3> QED BY <2>5, <2>7, <2>8, <2>9
  <2>12. Ledger!Ring(c, i)
    BY <2>10, <2>11 DEF Ledger!Ring, Phase, Line
  <2> QED BY <2>12 DEF Simulates, Ledger!Next
<1> QED BY <1>11, <1>12

\* The acknowledgement of an INVITE goes on: it may end its own call, or lose
\* it, and no other.
LEMMA AcceptSim ==
    ASSUME SessionConstants, IInv, RingInv, NEW c \in Conns, AcceptResumes(c)
    PROVE  RingInv' /\ Simulates
<1> USE DEF IInv, Inv
<1>1. /\ step[c] = "acking" /\ kind[c] = "inbound" /\ ends[c] = 0 /\ ~reported[c] /\ id[c] \in Ids
      /\ routes[id[c]] \in {c, NoConn}
      /\ UNCHANGED <<kind, id, reported, ctpp>>
  BY DEF AcceptResumes, AckInv, CallInv
<1>2. PICK o \in Resumes :
          /\ step' = [step EXCEPT ![c] = CASE Suspended(o) -> "acking" [] o = "done" -> "created"
                                           [] o = "raised" -> "done" [] o = "crashed" -> "lost"]
          /\ routes' = IF o = "raised" THEN [routes EXCEPT ![id[c]] = NoConn] ELSE routes
          /\ ends' = IF o = "raised" THEN [ends EXCEPT ![c] = @ + 1] ELSE ends
  BY DEF AcceptResumes
<1>3. o \in Outcomes
  BY OutcomeTypes
<1>4. /\ o = "raised" => step'[c] = "done" /\ ends'[c] = 1
      /\ o # "raised" => step'[c] \in {"acking", "created", "lost"} /\ ends'[c] = 0
                         /\ UNCHANGED routes
      /\ \A d \in Conns : d # c => step'[d] = step[d] /\ ends'[d] = ends[d]
  BY <1>1, <1>2, <1>3 DEF TypeOK, Outcomes, Suspended
<1>5. \A i \in Ids, d \in Conns : d # c /\ routes[i] = d => routes'[i] = d
  BY <1>1, <1>2, SessionConstants DEF TypeOK
<1>6. RingInv'
  <2> SUFFICES ASSUME NEW d \in Conns, kind[d] = "inbound"
               PROVE  /\ id[d] \in Ids
                      /\ reported[d] => ends'[d] = 1
                      /\ ends'[d] = 0 => step'[d] \in {"acking", "created", "wait", "fin", "lost"}
                      /\ ends'[d] = 0 /\ step'[d] # "lost" => routes'[id[d]] = d \/ ~ctpp
    BY <1>1 DEF RingInv
  <2>1. CASE d = c
    BY <1>1, <1>4, <2>1 DEF RingInv
  <2>2. CASE d # c
    BY <1>4, <1>5, <2>2 DEF RingInv
  <2> QED BY <2>1, <2>2
<1>7. \A d \in Conns : Line(d)' = Line(d) /\ (d # c => Phase(d)' = Phase(d))
  BY <1>1, <1>4 DEF Phase, Line
<1>8. Phase(c) = "ringing" /\ Phase(c)' \in {"ringing", "ended", "lost"}
  BY <1>1, <1>4 DEF Phase
<1>9. Simulates
  BY <1>7, <1>8, OneCallSim, StutterSim
<1> QED BY <1>6, <1>9

\* A teardown that begins loses the call whose INVITE was being acknowledged.
LEMMA BeginTeardownSim ==
    ASSUME IInv, RingInv, NEW by, BeginTeardown(by)
    PROVE  RingInv' /\ Simulates
<1> USE DEF IInv, Inv
<1>1. /\ UNCHANGED <<kind, id, ends, reported, routes, ctpp>>
      /\ \A d \in Conns : step'[d] = IF step[d] = "acking" THEN "lost" ELSE step[d]
  BY DEF BeginTeardown, Unadopted, AckInv
<1>2. RingInv'
  BY <1>1 DEF RingInv
<1>3. \A d \in Conns : Line(d)' = Line(d) /\ (step[d] # "acking" => Phase(d)' = Phase(d))
  BY <1>1 DEF Phase, Line
<1>4. CASE \A d \in Conns : step[d] # "acking"
  <2>1. \A d \in Conns : Phase(d)' = Phase(d) /\ Line(d)' = Line(d)
    BY <1>3, <1>4
  <2> QED BY <1>2, <2>1, StutterSim
<1>5. ASSUME NEW c \in Conns, step[c] = "acking"
      PROVE  Simulates
  <2>1. \A d \in Conns : d # c => step[d] # "acking"
    BY <1>5 DEF AckInv
  <2>2. kind[c] = "inbound" /\ ends[c] = 0
    BY <1>5 DEF AckInv, CallInv
  <2>3. Phase(c) = "ringing" /\ Phase(c)' = "lost"
    BY <1>1, <1>5, <2>2 DEF Phase
  <2> QED BY <1>3, <2>1, <2>3, OneCallSim
<1> QED BY <1>2, <1>4, <1>5

\* The CTPP channel opens when nobody is ready and nobody has the lock: every
\* call that is followed waits, with no sentinel, and so is routed.
LEMMA ChannelSim ==
    ASSUME SessionConstants, FullInv, ChannelOpens
    PROVE  RingInv' /\ Simulates
<1> USE DEF FullInv, IInv, Inv
<1>1. /\ UNCHANGED <<kind, id, step, ends, reported, routes>>
      /\ lockq = <<>> /\ NobodyReady
  BY DEF ChannelOpens, taskVars
<1>2. \A t : ~In(lockq, t)
  BY <1>1 DEF In
<1>3. ASSUME NEW d \in Conns, kind[d] = "inbound", ends[d] = 0, step[d] # "lost"
      PROVE  routes[id[d]] = d
  <2>1. step[d] = "wait"
    BY <1>1, <1>2, <1>3 DEF RingInv, QueueInv, NobodyReady
  <2>2. inbox[d] = <<>>
    BY <1>1, <2>1 DEF NobodyReady
  <2>3. ~ \E k \in 1..Len(inbox[d]) : inbox[d][k] = End
    BY <2>2
  <2>4. \E i \in Ids : routes[i] = d
    BY <2>1, <2>3 DEF NoOrphanWaiter
  <2> QED BY <2>4 DEF RouteInv
<1>4. RingInv'
  BY <1>1, <1>3 DEF RingInv
<1>5. \A d \in Conns : Phase(d)' = Phase(d) /\ Line(d)' = Line(d)
  BY <1>1 DEF Phase, Line
<1> QED BY <1>4, <1>5, StutterSim

\* Every step keeps what is known of the calls, and is a step of the ledger's
\* or none of its own.
LEMMA RingStep ==
    ASSUME FullInv, [Next]_vars
    PROVE  RingInv' /\ Simulates
<1> USE SessionConstants DEF FullInv, IInv, Inv
<1>1. CASE UNCHANGED vars
  BY <1>1, FrameSim DEF vars
<1>2. ASSUME NEW c \in Conns, NEW i \in Ids, Invite(c, i)
      PROVE  RingInv' /\ Simulates
  BY <1>2, InviteSim
<1>3. ASSUME NEW c \in Conns, NEW i \in Ids, OpenDoor(c, i) \/ Register(c, i)
      PROVE  RingInv' /\ Simulates
  BY <1>3, BeginSim
<1>4. ASSUME NEW c \in Conns, AcceptResumes(c)
      PROVE  RingInv' /\ Simulates
  BY <1>4, AcceptSim
<1>5. CASE CloseBegins \/ ConnectBegins \/ ReaderStops
  <2>1. CASE \E by : BeginTeardown(by)
    BY <2>1, BeginTeardownSim
  <2>2. CASE ~ \E by : BeginTeardown(by)
    <3>1. UNCHANGED <<kind, id, step, routes, ends, reported, ctpp>>
      BY <1>5, <2>2 DEF CloseBegins, ConnectBegins, ReaderStops, taskVars
    <3> QED BY <3>1, FrameSim
  <2> QED BY <2>1, <2>2
<1>6. ASSUME NEW c \in Conns, TaskStep(c)
      PROVE  RingInv' /\ Simulates
  <2>1. UNCHANGED <<kind, id, reported, ctpp>>
    BY <1>6 DEF TaskStep, SynResumes, FinResumes, WakeWanted, WakeRefused, WakeIgnored, Timeout,
                WatcherStarts
  <2>2. kind[c] \in {"inbound", "door", "register"} \/ step[c] = "none"
    BY DEF TypeOK, Kinds, CallInv
  <2>3. CASE kind[c] = "inbound"
    <3>1. step[c] # "syn"
      BY <2>3 DEF CallInv
    <3>2. CASE UNCHANGED taskVars
      BY <2>1, <3>2, FrameSim DEF taskVars
    <3>3. CASE ~UNCHANGED taskVars
      <4>1. Watched(c)
        BY <1>6, <2>3, <3>1 DEF TaskStep, SynResumes, FinResumes, WakeWanted, WakeRefused,
              WakeIgnored, Timeout, WatcherStarts, Waits, Watched
      <4>2. Unwatch(c) \/ \E s \in {"wait", "fin", "lost"} : Goes(c, s)
        BY <1>6, <2>3, <3>1, <3>3 DEF TaskStep, SynResumes, FinResumes, WakeWanted, WakeRefused,
              WakeIgnored, Timeout, WatcherStarts, AfterFin, GiveUp
      <4> QED BY <2>1, <4>1, <4>2, TaskSim
    <3> QED BY <3>2, <3>3
  <2>4. CASE kind[c] \in {"door", "register"}
    <3>1. CASE UNCHANGED taskVars
      BY <2>1, <3>1, FrameSim DEF taskVars
    <3>2. CASE ~UNCHANGED taskVars
      <4>1. LeaveDoor(c) \/ FailRegister(c) \/ Registered(c) \/ \E s : Goes(c, s)
        BY <1>6, <2>4, <3>2 DEF TaskStep, SynResumes, FinResumes, WakeWanted, WakeRefused,
              WakeIgnored, Timeout, WatcherStarts, AfterSyn, AfterFin, GiveUp
      <4> QED BY <2>1, <2>4, <4>1, TaskSim
    <3> QED BY <3>1, <3>2
  <2>5. step[c] # "none"
    BY <1>6 DEF TaskStep, SynResumes, FinResumes, WakeWanted, WakeRefused, WakeIgnored, Timeout,
                WatcherStarts, Waits
  <2> QED BY <2>2, <2>3, <2>4, <2>5
<1>7. ASSUME NEW c \in Conns, EndWatcher(c) \/ RegisterCancelled(c)
      PROVE  RingInv' /\ Simulates
  <2>1. UNCHANGED <<kind, id, reported, ctpp>>
    BY <1>7 DEF EndWatcher, RegisterCancelled
  <2>2. CASE UNCHANGED taskVars
    BY <2>1, <2>2, FrameSim DEF taskVars
  <2>3. CASE Watched(c) /\ (Unwatch(c) \/ Goes(c, "lost"))
    BY <2>1, <2>3, TaskSim
  <2>4. CASE kind[c] = "register" /\ Goes(c, "left")
    BY <2>1, <2>4, TaskSim
  <2>5. step[c] = "created" => Watched(c)
    BY DEF CallInv, Watched
  <2> QED BY <1>7, <2>2, <2>3, <2>4, <2>5 DEF EndWatcher, RegisterCancelled, Registering
<1>8. CASE ChannelOpens
  BY <1>8, ChannelSim
<1>9. CASE FinishTeardown
  <2>1. UNCHANGED <<kind, id, step, ends, reported>> /\ ~ctpp'
    BY <1>9 DEF FinishTeardown
  <2> QED BY <2>1, FrameSim
<1>10. CASE \/ \E i \in Ids : Stray(i) \/ \E p \in Packets \cup {Repeat} : Route(i, p)
            \/ RouteResumes \/ FrameResumes
            \/ CloseSocket \/ OwnerCancelled \/ Opened \/ OpenFails \/ PeerGone
  <2>1. UNCHANGED <<kind, id, step, routes, ends, reported, ctpp>>
    BY <1>10 DEF Stray, Route, RouteResumes, FrameResumes, CloseSocket, OwnerCancelled, Opened,
                 OpenFails, PeerGone, taskVars
  <2> QED BY <2>1, FrameSim
<1> QED
  BY <1>1, <1>2, <1>3, <1>4, <1>5, <1>6, <1>7, <1>8, <1>9, <1>10
     DEF Next, Panel, Owner, ReaderStep, TeardownStep

\* Who stays in the lock, or in the line for it.
LEMMA QueueMoves ==
    ASSUME TypeOK, NEW t \in Conns \cup {Reader}, NEW o
    PROVE  /\ StartSend(t, o) =>
                /\ \A u : In(lockq, u) => In(lockq', u)
                /\ Suspended(o) => In(lockq', t)
           /\ Holds(t) /\ ResumeSend(o) =>
                /\ \A u : In(lockq, u) /\ u # t => In(lockq', u)
                /\ Suspended(o) => In(lockq', t)
           /\ DropSend(t) => \A u : In(lockq, u) /\ u # t => In(lockq', u)
<1> DEFINE S == Conns \cup {Reader}
<1>1. lockq \in Seq(S)
  BY DEF TypeOK
<1>2. ASSUME StartSend(t, o)
      PROVE  /\ \A u : In(lockq, u) => In(lockq', u)
             /\ Suspended(o) => In(lockq', t)
  BY <1>1, <1>2, InAppend DEF StartSend
<1>3. ASSUME Holds(t), ResumeSend(o)
      PROVE  /\ \A u : In(lockq, u) /\ u # t => In(lockq', u)
             /\ Suspended(o) => In(lockq', t)
  <2>1. lockq # <<>> /\ Head(lockq) = t
    BY <1>3 DEF Holds
  <2>2. In(lockq, t)
    BY <1>1, <2>1 DEF In
  <2> QED BY <1>1, <1>3, <2>1, <2>2, InTail DEF ResumeSend
<1>4. ASSUME DropSend(t)
      PROVE  \A u : In(lockq, u) /\ u # t => In(lockq', u)
  BY <1>1, <1>4, InWithout DEF DropSend
<1> QED BY <1>2, <1>3, <1>4

\* A step in which only task t of the lock may leave it, and no other task
\* comes to need it.
LEMMA QueueFrame ==
    ASSUME QueueInv, UNCHANGED kind, NEW t,
           \A u : In(lockq, u) /\ u # t => In(lockq', u),
           \A c \in Conns : step'[c] = "acking" =>
              step[c] = "acking" /\ (t # Reader \/ In(lockq', Reader)),
           \A c \in Conns : kind[c] = "inbound" /\ step'[c] = "fin" =>
              In(lockq', c) \/ (step[c] = "fin" /\ t # c)
    PROVE  QueueInv'
BY DEF QueueInv

\* Every step keeps the tasks that must have the lock in the line for it.
LEMMA QueueStep ==
    ASSUME FullInv, [Next]_vars
    PROVE  QueueInv'
<1> USE SessionConstants DEF FullInv, IInv, Inv
<1>1. CASE UNCHANGED <<kind, step, lockq>>
  BY <1>1 DEF QueueInv
<1>2. ASSUME NEW c \in Conns, NEW i \in Ids, Invite(c, i)
      PROVE  QueueInv'
  <2>1. PICK o \in Starts(FALSE, lockq) :
          /\ StartSend(Reader, o)
          /\ step' = [step EXCEPT ![c] = IF Suspended(o) THEN "acking"
                                         ELSE IF o = "done" THEN "created" ELSE "done"]
    BY <1>2 DEF Invite
  <2>2. kind' = [kind EXCEPT ![c] = "inbound"]
    BY <1>2 DEF Invite
  <2>3. (\A u : In(lockq, u) => In(lockq', u)) /\ (Suspended(o) => In(lockq', Reader))
    BY <2>1, QueueMoves
  <2>4. step'[c] # "fin" /\ (step'[c] = "acking" => Suspended(o))
    BY <2>1 DEF TypeOK
  <2>5. \A d \in Conns : d # c => kind'[d] = kind[d] /\ step'[d] = step[d]
    BY <2>1, <2>2 DEF TypeOK
  <2> QED BY <2>3, <2>4, <2>5 DEF QueueInv
<1>3. ASSUME NEW c \in Conns, NEW i \in Ids, OpenDoor(c, i) \/ Register(c, i)
      PROVE  QueueInv'
  <2>1. PICK k \in {"door", "register"}, o \in Outcomes : Begin(c, i, k, o)
    BY <1>3 DEF OpenDoor, Register
  <2>2. /\ \A d \in Conns : d # c => kind'[d] = kind[d] /\ step'[d] = step[d]
        /\ kind'[c] # "inbound" /\ step'[c] # "acking"
        /\ StartSend(c, o)
    BY <2>1 DEF Begin, TypeOK
  <2>3. \A u : In(lockq, u) => In(lockq', u)
    BY <2>2, QueueMoves
  <2> QED BY <2>2, <2>3 DEF QueueInv
<1>4. ASSUME NEW c \in Conns, AcceptResumes(c)
      PROVE  QueueInv'
  <2>1. PICK o \in Resumes :
          /\ ResumeSend(o)
          /\ step' = [step EXCEPT ![c] = CASE Suspended(o) -> "acking" [] o = "done" -> "created"
                                           [] o = "raised" -> "done" [] o = "crashed" -> "lost"]
    BY <1>4 DEF AcceptResumes
  <2>2. o \in Outcomes
    BY OutcomeTypes
  <2>3. /\ step[c] = "acking" /\ Holds(Reader) /\ UNCHANGED kind
        /\ \A d \in Conns : d # c => step[d] # "acking" /\ step'[d] = step[d]
    BY <1>4, <2>1 DEF AcceptResumes, AckInv, TypeOK
  <2>4. step'[c] # "fin" /\ (step'[c] = "acking" => Suspended(o))
    BY <2>1, <2>2 DEF TypeOK, Outcomes, Suspended
  <2>5. /\ \A u : In(lockq, u) /\ u # Reader => In(lockq', u)
        /\ Suspended(o) => In(lockq', Reader)
    BY <2>1, <2>3, QueueMoves
  <2> QED BY <2>3, <2>4, <2>5, QueueFrame
<1>5. CASE \E by : BeginTeardown(by)
  <2>1. /\ \A d \in Conns : step'[d] = IF step[d] = "acking" THEN "lost" ELSE step[d]
        /\ UNCHANGED kind /\ DropSend(Reader)
    BY <1>5 DEF BeginTeardown, Unadopted, AckInv
  <2>2. \A u : In(lockq, u) /\ u # Reader => In(lockq', u)
    BY <2>1, QueueMoves
  <2> QED BY <2>1, <2>2, QueueFrame
<1>6. CASE (CloseBegins \/ ConnectBegins \/ ReaderStops) /\ ~ \E by : BeginTeardown(by)
  <2>1. UNCHANGED <<kind, step, lockq>>
    BY <1>6 DEF CloseBegins, ConnectBegins, ReaderStops, taskVars, lockVars
  <2> QED BY <1>1, <2>1
<1>7. ASSUME NEW c \in Conns, SynResumes(c) \/ FinResumes(c)
      PROVE  QueueInv'
  <2>1. PICK o \in Resumes : ResumeSend(o) /\ (AfterSyn(c, o) \/ AfterFin(c, o))
    BY <1>7 DEF SynResumes, FinResumes
  <2>2. /\ Holds(c) /\ UNCHANGED kind
        /\ \A d \in Conns : d # c => step'[d] = step[d]
        /\ step'[c] # "acking" /\ (step'[c] = "fin" => Suspended(o))
    BY <1>7, <2>1 DEF SynResumes, FinResumes, AfterSyn, AfterFin, Goes, GiveUp, Unwatch, LeaveDoor,
                      FailRegister, Registered, TypeOK
  <2>3. (\A u : In(lockq, u) /\ u # c => In(lockq', u)) /\ (Suspended(o) => In(lockq', c))
    BY <2>1, <2>2, QueueMoves
  <2> QED BY <2>2, <2>3, QueueFrame
<1>8. ASSUME NEW c \in Conns, WakeWanted(c)
      PROVE  QueueInv'
  <2>1. PICK o \in Starts(failed[c], lockq) : StartSend(c, o) /\ AfterFin(c, o)
    BY <1>8 DEF WakeWanted
  <2>2. /\ UNCHANGED kind
        /\ \A d \in Conns : d # c => step'[d] = step[d]
        /\ step'[c] # "acking" /\ (step'[c] = "fin" => Suspended(o))
    BY <1>8, <2>1 DEF WakeWanted, AfterFin, Goes, GiveUp, Unwatch, LeaveDoor, FailRegister,
                      Registered, TypeOK
  <2>3. (\A u : In(lockq, u) => In(lockq', u)) /\ (Suspended(o) => In(lockq', c))
    BY <2>1, QueueMoves
  <2> QED BY <2>2, <2>3 DEF QueueInv
<1>9. ASSUME NEW c \in Conns, WakeRefused(c) \/ WakeIgnored(c) \/ Timeout(c) \/ WatcherStarts(c)
      PROVE  QueueInv'
  <2>1. /\ UNCHANGED <<kind, lockq>>
        /\ \A d \in Conns : step'[d] = step[d] \/ step'[d] \notin {"acking", "fin"}
    BY <1>9 DEF WakeRefused, WakeIgnored, Timeout, WatcherStarts, Goes, GiveUp, Unwatch, LeaveDoor,
                FailRegister, taskVars, lockVars, TypeOK
  <2> QED BY <2>1 DEF QueueInv
<1>10. ASSUME NEW c \in Conns, EndWatcher(c) \/ RegisterCancelled(c)
       PROVE  QueueInv'
  <2>1. DropSend(c) /\ UNCHANGED kind
    BY <1>10 DEF EndWatcher, RegisterCancelled
  <2>2. /\ \A d \in Conns : d # c => step'[d] = step[d]
        /\ step'[c] = step[c] \/ step'[c] \notin {"acking", "fin"}
        /\ kind[c] = "inbound" => step'[c] # "fin"
    BY <1>10 DEF EndWatcher, RegisterCancelled, Registering, Watched, Goes, Unwatch, taskVars, TypeOK
  <2>3. \A u : In(lockq, u) /\ u # c => In(lockq', u)
    BY <2>1, QueueMoves
  <2> QED BY <2>1, <2>2, <2>3, QueueFrame
<1>11. ASSUME NEW i \in Ids, Stray(i) \/ \E p \in Packets \cup {Repeat} : Route(i, p)
       PROVE  QueueInv'
  <2>1. UNCHANGED <<kind, step>>
    BY <1>11 DEF Stray, Route, taskVars
  <2>2. UNCHANGED lockq \/ \E o : StartSend(Reader, o)
    BY <1>11 DEF Stray, Route, lockVars
  <2>3. \A u : In(lockq, u) => In(lockq', u)
    BY <2>2, QueueMoves
  <2> QED BY <2>1, <2>3 DEF QueueInv
<1>12. CASE RouteResumes \/ FrameResumes
  <2>1. /\ UNCHANGED <<kind, step>> /\ Holds(Reader)
        /\ \A d \in Conns : step[d] # "acking"
    BY <1>12 DEF RouteResumes, FrameResumes, taskVars, AckInv
  <2>2. \/ \E o : ResumeSend(o)
        \/ lockq' = Tail(lockq) \/ lockq' = Append(Tail(lockq), Reader)
    BY <1>12 DEF RouteResumes, FrameResumes
  <2>3. \A u : In(lockq, u) /\ u # Reader => In(lockq', u)
    <3>1. lockq \in Seq(Conns \cup {Reader}) /\ lockq # <<>> /\ Head(lockq) = Reader
      BY <2>1 DEF TypeOK, Holds
    <3>2. Tail(lockq) \in Seq(Conns \cup {Reader})
      BY <3>1
    <3>3. \A u : In(lockq, u) /\ u # Reader => In(Tail(lockq), u)
      BY <3>1, InTail
    <3>4. CASE \E o : ResumeSend(o)
      BY <2>1, <3>4, QueueMoves
    <3>5. CASE lockq' = Tail(lockq)
      BY <3>3, <3>5
    <3>6. CASE lockq' = Append(Tail(lockq), Reader)
      <4> DEFINE S == Conns \cup {Reader}
      <4>1. Reader \in S /\ Tail(lockq) \in Seq(S)
        BY <3>2
      <4> HIDE DEF S
      <4>2. \A u : In(Tail(lockq), u) => In(Append(Tail(lockq), Reader), u)
        BY <4>1, InAppend
      <4> QED BY <3>3, <3>6, <4>2
    <3> QED BY <2>2, <3>4, <3>5, <3>6
  <2> QED BY <2>1, <2>3, QueueFrame
<1>13. CASE CloseSocket \/ FinishTeardown \/ OwnerCancelled \/ Opened \/ OpenFails
            \/ ChannelOpens \/ PeerGone \/ UNCHANGED vars
  <2>1. UNCHANGED <<kind, step, lockq>>
    BY <1>13 DEF CloseSocket, FinishTeardown, OwnerCancelled, Opened, OpenFails, ChannelOpens,
                 PeerGone, taskVars, lockVars, vars
  <2> QED BY <1>1, <2>1
<1> QED
  BY <1>2, <1>3, <1>4, <1>5, <1>6, <1>7, <1>8, <1>9, <1>10, <1>11, <1>12, <1>13
     DEF Next, Panel, Owner, ReaderStep, TeardownStep, TaskStep

\* What is known of the calls holds in every reachable state.
LEMMA FullInvariance == Spec => []FullInv
<1>1. Init => FullInv
  <2>1. Init => QueueInv /\ RingInv
    BY DEF Init, QueueInv, RingInv
  <2> QED BY <2>1, InitInv DEF FullInv
<1>2. FullInv /\ [Next]_vars => FullInv'
  <2>1. IInv /\ [Next]_vars => IInv'
    BY TypeStep, InvStep DEF IInv
  <2> QED BY <2>1, RingStep, QueueStep DEF FullInv
<1> QED BY <1>1, <1>2, PTL DEF Spec

\* The session keeps the promise it makes its owner (CallLedger), for any
\* number of calls and ids: _displace ends the call that rang on an id before
\* the next rings on it, each call is ended once, by the task that follows it,
\* and lost only with that task.
THEOREM LedgerHolds == Spec => LedgerSpec
<1>1. Init => Ledger!Init
  BY DEF Init, Ledger!Init
<1>2. FullInv /\ [Next]_vars => [Ledger!Next]_(Ledger!vars)
  BY RingStep DEF Simulates
<1> QED BY <1>1, <1>2, FullInvariance, PTL DEF Spec, LedgerSpec, Ledger!Spec

\* So no two calls ring on one connection id: CallLedgerProofs proves it of
\* the ledger, and here of the session.
THEOREM OneRingPerIdHolds == Spec => []Ledger!OneCallPerLine
<1> DEFINE ph == [c \in Conns |-> Phase(c)]
           li == [c \in Conns |-> Line(c)]
           Apart == \A c, d \in Conns :
                       ph[c] = "ringing" /\ ph[d] = "ringing" /\ li[c] = li[d] => c = d
<1>1. Ledger!OneCallPerLine <=> Apart
  BY DEF Ledger!OneCallPerLine, Phase, Line
<1>2. Init => Apart
  BY DEF Init, Phase
<1>3. FullInv /\ Apart /\ [Next]_vars => Apart'
  <2> SUFFICES ASSUME Apart, Simulates PROVE Apart'
    BY RingStep
  <2>1. ASSUME NEW c \in Conns, NEW i \in Ids, Ledger!Ring(c, i) PROVE Apart'
    <3>1. PICK late \in SUBSET Ledger!On(i, "lost"), p \in {"ringing", "ended"} :
            ph' = [d \in Conns |-> IF d = c THEN p
                                   ELSE IF d \in Ledger!On(i, "ringing") \cup late
                                        THEN "ended" ELSE ph[d]]
      BY <2>1 DEF Ledger!Ring, Phase, Line
    <3>2. li' = [li EXCEPT ![c] = i]
      BY <2>1 DEF Ledger!Ring, Phase, Line
    <3>3. Ledger!On(i, "ringing") = {d \in Conns : li[d] = i /\ ph[d] = "ringing"}
      BY DEF Ledger!On, Phase, Line
    <3> HIDE DEF ph, li
    <3>4. ASSUME NEW d \in Conns, d # c, ph'[d] = "ringing"
          PROVE  ph[d] = "ringing" /\ li[d] # i
      BY <3>1, <3>3, <3>4
    <3>5. \A d \in Conns : li'[d] = IF d = c THEN i ELSE li[d]
      BY <3>2 DEF li
    <3> QED BY <3>4, <3>5
  <2>2. ASSUME NEW c \in Conns, Ledger!End(c) \/ Ledger!Lose(c) PROVE Apart'
    <3>1. ph' = [ph EXCEPT ![c] = "ended"] \/ ph' = [ph EXCEPT ![c] = "lost"]
      BY <2>2 DEF Ledger!End, Ledger!Lose, Phase, Line
    <3>2. li' = li
      BY <2>2 DEF Ledger!End, Ledger!Lose, Phase, Line
    <3> HIDE DEF ph, li
    <3> QED BY <3>1, <3>2 DEF ph
  <2>3. CASE UNCHANGED Ledger!vars
    <3>1. ph' = ph /\ li' = li
      BY <2>3 DEF Ledger!vars, Phase, Line
    <3> HIDE DEF ph, li
    <3> QED BY <3>1
  <2> QED BY <2>1, <2>2, <2>3 DEF Simulates, Ledger!Next
<1> QED BY <1>1, <1>2, <1>3, FullInvariance, PTL DEF Spec

\* A call's end goes unreported only if a teardown cancelled the task that
\* follows it, or had taken the writer from under its acknowledgement.
THEOREM LostOnlyInTeardownHolds == Spec => LostOnlyInTeardown
<1>1. FullInv /\ [Next]_vars =>
        [\A c \in Conns : step[c] # "lost" /\ step'[c] = "lost" =>
          tear' # NoTear \/ sock = "none"]_vars
  <2> SUFFICES ASSUME FullInv, [Next]_vars, NEW c \in Conns, step[c] # "lost", step'[c] = "lost"
               PROVE  tear' # NoTear \/ sock = "none"
    OBVIOUS
  <2> USE SessionConstants DEF FullInv, IInv, Inv
  <2>1. ASSUME NEW d \in Conns, AcceptResumes(d)
        PROVE  sock = "none"
    <3>1. PICK o \in Resumes :
            step' = [step EXCEPT ![d] = CASE Suspended(o) -> "acking" [] o = "done" -> "created"
                                           [] o = "raised" -> "done" [] o = "crashed" -> "lost"]
      BY <2>1 DEF AcceptResumes
    <3>2. c = d
      BY <3>1 DEF TypeOK
    <3>3. o = "crashed"
      BY <3>1, <3>2, OutcomeTypes DEF TypeOK, Outcomes, Suspended
    <3> QED BY <3>3 DEF Resumes
  <2>2. CASE \E by : BeginTeardown(by)
    BY <2>2 DEF BeginTeardown, NoTear
  <2>3. ASSUME NEW d \in Conns, EndWatcher(d)
        PROVE  tear' # NoTear
    BY <2>3 DEF EndWatcher, NoTear
  <2>4. ASSUME NEW d \in Conns, TaskStep(d) \/ RegisterCancelled(d)
        PROVE  FALSE
    BY <2>4 DEF TaskStep, SynResumes, FinResumes, WakeWanted, WakeRefused, WakeIgnored, Timeout,
                WatcherStarts, AfterSyn, AfterFin, Goes, GiveUp, Unwatch, LeaveDoor, FailRegister,
                Registered, RegisterCancelled, taskVars, TypeOK
  <2>5. ASSUME NEW d \in Conns, NEW i \in Ids, Invite(d, i) \/ OpenDoor(d, i) \/ Register(d, i)
        PROVE  FALSE
    <3>1. \A e \in Conns : step'[e] = step[e] \/ step'[e] \in {"acking", "created", "syn", "wait", "done"}
      <4>1. \E s \in {"acking", "created", "syn", "wait", "done"} : step' = [step EXCEPT ![d] = s]
        BY <2>5 DEF Invite, OpenDoor, Register, Begin
      <4> QED BY <4>1 DEF TypeOK
    <3> QED BY <3>1
  <2>6. CASE (CloseBegins \/ ConnectBegins \/ ReaderStops) /\ ~ \E by : BeginTeardown(by)
    BY <2>6 DEF CloseBegins, ConnectBegins, ReaderStops, taskVars
  <2>7. CASE \/ \E i \in Ids : Stray(i) \/ \E p \in Packets \cup {Repeat} : Route(i, p)
             \/ RouteResumes \/ FrameResumes \/ FinishTeardown
             \/ CloseSocket \/ OwnerCancelled \/ Opened \/ OpenFails \/ ChannelOpens \/ PeerGone
             \/ UNCHANGED vars
    BY <2>7 DEF Stray, Route, RouteResumes, FrameResumes, FinishTeardown, CloseSocket,
                OwnerCancelled, Opened, OpenFails, ChannelOpens, PeerGone, taskVars, vars
  <2> QED
    BY <2>1, <2>2, <2>3, <2>4, <2>5, <2>6, <2>7
       DEF Next, Panel, Owner, ReaderStep, TeardownStep
<1> QED BY <1>1, FullInvariance, PTL DEF Spec, LostOnlyInTeardown

-----------------------------------------------------------------------------
(* The write lock.                                                           *)

\* The tasks that are suspended in a send.
Sends(t) ==
    IF t = Reader THEN rd.step \in {"accept", "route", "renew", "stray"}
    ELSE step[t] \in {"syn", "fin"}

\* No task is twice in the queue.
Once(q) == \A i, j \in 1..Len(q) : q[i] = q[j] => i = j

\* Whoever holds _write_lock or waits for it is a task suspended in a send,
\* and every such task is there, once: no lock is held by a task that is gone,
\* and no task waits to be woken by a lock that does not know it.
WriteLock ==
    /\ Once(lockq)
    /\ \A t \in Conns \cup {Reader} : In(lockq, t) <=> Sends(t)
    /\ draining => lockq # <<>>

\* What a teardown waits for are watchers of calls.
WatchersInv == \A c \in callTasks \cup pending : kind[c] = "inbound"

\* A task that joins a queue for the first time is once in it.
LEMMA OnceAppend ==
    ASSUME NEW S, NEW q \in Seq(S), Once(q), NEW t \in S, ~In(q, t)
    PROVE  /\ Once(Append(q, t)) /\ Append(q, t) # <<>>
           /\ \A u : In(Append(q, t), u) <=> In(q, u) \/ u = t
<1>1. /\ Len(q) \in Nat /\ Len(Append(q, t)) = Len(q) + 1
      /\ \A k \in 1..Len(q) : Append(q, t)[k] = q[k]
      /\ Append(q, t)[Len(q) + 1] = t
  OBVIOUS
<1>2. Once(Append(q, t))
  <2> SUFFICES ASSUME NEW i \in 1..(Len(q) + 1), NEW j \in 1..(Len(q) + 1),
                      Append(q, t)[i] = Append(q, t)[j]
               PROVE  i = j
    BY <1>1 DEF Once
  <2>1. CASE i \in 1..Len(q) /\ j \in 1..Len(q)
    BY <1>1, <2>1 DEF Once
  <2>2. CASE i = Len(q) + 1 /\ j \in 1..Len(q)
    BY <1>1, <2>2 DEF In
  <2>3. CASE i \in 1..Len(q) /\ j = Len(q) + 1
    BY <1>1, <2>3 DEF In
  <2> QED BY <1>1, <2>1, <2>2, <2>3
<1>3. ASSUME NEW u, In(Append(q, t), u) PROVE In(q, u) \/ u = t
  <2>1. PICK k \in 1..(Len(q) + 1) : Append(q, t)[k] = u
    BY <1>1, <1>3 DEF In
  <2> QED BY <1>1, <2>1 DEF In
<1>4. ASSUME NEW u, In(q, u) \/ u = t PROVE In(Append(q, t), u)
  BY <1>4, InAppend
<1> QED BY <1>1, <1>2, <1>3, <1>4

\* The head is not in what is left.
LEMMA OnceTail ==
    ASSUME NEW S, NEW q \in Seq(S), Once(q), q # <<>>
    PROVE  /\ Tail(q) \in Seq(S) /\ Once(Tail(q))
           /\ \A u : In(Tail(q), u) <=> In(q, u) /\ u # Head(q)
<1>1. /\ Tail(q) \in Seq(S) /\ Len(q) \in Nat /\ Len(q) > 0 /\ Len(Tail(q)) = Len(q) - 1
      /\ \A k \in 1..(Len(q) - 1) : Tail(q)[k] = q[k + 1]
      /\ Head(q) = q[1]
  OBVIOUS
<1>2. Once(Tail(q))
  <2> SUFFICES ASSUME NEW i \in 1..(Len(q) - 1), NEW j \in 1..(Len(q) - 1),
                      Tail(q)[i] = Tail(q)[j]
               PROVE  i = j
    BY <1>1 DEF Once
  <2>1. i + 1 \in 1..Len(q) /\ j + 1 \in 1..Len(q) /\ q[i + 1] = q[j + 1]
    BY <1>1
  <2>2. i + 1 = j + 1
    BY <2>1 DEF Once
  <2> QED BY <1>1, <2>2
<1>3. ASSUME NEW u, In(Tail(q), u) PROVE In(q, u) /\ u # Head(q)
  <2>1. PICK k \in 1..(Len(q) - 1) : Tail(q)[k] = u
    BY <1>1, <1>3 DEF In
  <2>2. k + 1 \in 1..Len(q) /\ 1 \in 1..Len(q) /\ k + 1 # 1 /\ q[k + 1] = u
    BY <1>1, <2>1
  <2> QED BY <1>1, <2>2 DEF In, Once
<1>4. ASSUME NEW u, In(q, u) /\ u # Head(q) PROVE In(Tail(q), u)
  BY <1>4, InTail
<1> QED BY <1>1, <1>2, <1>3, <1>4

\* A task that leaves the queue is not in it any more.
LEMMA OnceWithout ==
    ASSUME NEW S, NEW q \in Seq(S), Once(q), NEW t
    PROVE  /\ Once(Without(q, t))
           /\ \A u : In(Without(q, t), u) <=> In(q, u) /\ u # t
<1>1. CASE In(q, t)
  <2>1. PICK k \in 1..Len(q) :
          /\ q[k] = t /\ Len(Without(q, t)) = Len(q) - 1
          /\ \A j \in 1..(Len(q) - 1) : Without(q, t)[j] = IF j < k THEN q[j] ELSE q[j + 1]
    BY <1>1, WithoutAt
  <2> DEFINE w == Without(q, t)
             From(j) == IF j < k THEN j ELSE j + 1
  <2>2. Len(q) \in Nat /\ k \in Nat
    OBVIOUS
  <2>3. \A j \in 1..(Len(q) - 1) : From(j) \in 1..Len(q) /\ From(j) # k /\ w[j] = q[From(j)]
    BY <2>1, <2>2
  <2>4. \A i, j \in 1..(Len(q) - 1) : From(i) = From(j) => i = j
    BY <2>2
  <2> HIDE DEF w, From
  <2>5. Once(w)
    BY <2>1, <2>3, <2>4 DEF Once, w
  <2>6. ASSUME NEW u, In(w, u) PROVE In(q, u) /\ u # t
    <3>1. PICK j \in 1..(Len(q) - 1) : w[j] = u
      BY <2>1, <2>6 DEF In, w
    <3>2. From(j) \in 1..Len(q) /\ From(j) # k /\ q[From(j)] = u
      BY <2>3, <3>1
    <3> QED BY <2>1, <3>2 DEF In, Once
  <2>7. ASSUME NEW u, In(q, u), u # t PROVE In(w, u)
    BY <2>7, InWithout DEF w
  <2> QED BY <2>5, <2>6, <2>7 DEF w
<1>2. CASE ~In(q, t)
  <2>1. Without(q, t) = q
    BY <1>2 DEF Without, In
  <2> QED BY <1>2, <2>1
<1> QED BY <1>1, <1>2

\* What sending, going on and giving up make of the queue.
LEMMA LockMoves ==
    ASSUME TypeOK, Once(lockq), draining => lockq # <<>>, NEW t \in Conns \cup {Reader}, NEW o
    PROVE  /\ StartSend(t, o) /\ ~In(lockq, t) =>
                /\ Once(lockq') /\ (draining' => lockq' # <<>>)
                /\ \A u : In(lockq', u) <=> In(lockq, u) \/ (u = t /\ Suspended(o))
           /\ Holds(t) /\ ResumeSend(o) =>
                /\ Once(lockq') /\ (draining' => lockq' # <<>>)
                /\ \A u : In(lockq', u) <=> In(lockq, u) /\ (u # t \/ Suspended(o))
           /\ DropSend(t) =>
                /\ Once(lockq') /\ (draining' => lockq' # <<>>)
                /\ \A u : In(lockq', u) <=> In(lockq, u) /\ u # t
<1> DEFINE S == Conns \cup {Reader}
<1>1. lockq \in Seq(S) /\ t \in S /\ draining \in BOOLEAN
  BY DEF TypeOK
<1> HIDE DEF S
<1>2. ASSUME StartSend(t, o), ~In(lockq, t)
      PROVE  /\ Once(lockq') /\ (draining' => lockq' # <<>>)
             /\ \A u : In(lockq', u) <=> In(lockq, u) \/ (u = t /\ Suspended(o))
  <2>1. CASE Suspended(o)
    <3>1. lockq' = Append(lockq, t)
      BY <1>2, <2>1 DEF StartSend
    <3> QED BY <1>1, <1>2, <2>1, <3>1, OnceAppend
  <2>2. CASE ~Suspended(o)
    BY <1>2, <2>2 DEF StartSend, Suspended
  <2> QED BY <2>1, <2>2
<1>3. ASSUME Holds(t), ResumeSend(o)
      PROVE  /\ Once(lockq') /\ (draining' => lockq' # <<>>)
             /\ \A u : In(lockq', u) <=> In(lockq, u) /\ (u # t \/ Suspended(o))
  <2>1. lockq # <<>> /\ Head(lockq) = t
    BY <1>3 DEF Holds
  <2>2. CASE Suspended(o)
    BY <1>3, <2>1, <2>2 DEF ResumeSend
  <2>3. CASE ~Suspended(o)
    <3>1. lockq' = Tail(lockq) /\ ~draining'
      BY <1>3, <2>3 DEF ResumeSend, Suspended
    <3> QED BY <1>1, <2>1, <2>3, <3>1, OnceTail
  <2> QED BY <2>2, <2>3
<1>4. ASSUME DropSend(t)
      PROVE  /\ Once(lockq') /\ (draining' => lockq' # <<>>)
             /\ \A u : In(lockq', u) <=> In(lockq, u) /\ u # t
  <2>1. lockq' = Without(lockq, t)
    BY <1>4 DEF DropSend
  <2>2. Once(lockq') /\ \A u : In(lockq', u) <=> In(lockq, u) /\ u # t
    BY <1>1, <2>1, OnceWithout
  <2>3. ASSUME draining' PROVE lockq' # <<>>
    <3>1. lockq # <<>> /\ Head(lockq) # t
      BY <1>4, <2>3 DEF DropSend, Holds
    <3>2. In(lockq, Head(lockq))
      BY <1>1, <3>1 DEF In
    <3>3. In(lockq', Head(lockq))
      BY <2>2, <3>1, <3>2
    <3> QED BY <3>3 DEF In
  <2> QED BY <2>2, <2>3
<1> QED BY <1>2, <1>3, <1>4

\* A step in which task t alone takes or leaves the lock, and needs it after it
\* exactly if it is in the queue then.
LEMMA LockFrame ==
    ASSUME WriteLock, NEW t, Once(lockq'), draining' => lockq' # <<>>,
           \A u \in Conns \cup {Reader} : u # t =>
              (In(lockq', u) <=> In(lockq, u)) /\ (Sends(u)' <=> Sends(u)),
           t \in Conns \cup {Reader} => (In(lockq', t) <=> Sends(t)')
    PROVE  WriteLock'
BY DEF WriteLock

\* Every step keeps the lock with the tasks that send.
LEMMA WriteLockStep ==
    ASSUME FullInv, WatchersInv, WriteLock, [Next]_vars
    PROVE  WriteLock'
<1> USE SessionConstants DEF FullInv, IInv, Inv
<1>0. Once(lockq) /\ (draining => lockq # <<>>)
      /\ \A u \in Conns \cup {Reader} : In(lockq, u) <=> Sends(u)
  BY DEF WriteLock
<1>1. CASE UNCHANGED <<step, rd, lockq, draining>>
  BY <1>1 DEF WriteLock, Sends
<1>2. ASSUME NEW c \in Conns, NEW i \in Ids, Invite(c, i)
      PROVE  WriteLock'
  <2>1. PICK o \in Starts(FALSE, lockq) :
          /\ StartSend(Reader, o)
          /\ step' = [step EXCEPT ![c] = IF Suspended(o) THEN "acking"
                                         ELSE IF o = "done" THEN "created" ELSE "done"]
          /\ rd' = IF Suspended(o) THEN [At("accept") EXCEPT !.conn = c] ELSE rd
    BY <1>2 DEF Invite
  <2>2. rd.step = "idle" /\ step[c] = "none"
    BY <1>2 DEF Invite, Dispatching, Unused, CallInv
  <2>3. ~In(lockq, Reader)
    BY <1>0, <2>2 DEF Sends
  <2>4. /\ Once(lockq') /\ (draining' => lockq' # <<>>)
        /\ \A u : In(lockq', u) <=> In(lockq, u) \/ (u = Reader /\ Suspended(o))
    BY <1>0, <2>1, <2>3, LockMoves
  <2>5. Sends(Reader)' <=> Suspended(o)
    BY <2>1, <2>2 DEF Sends, At
  <2>6. ASSUME NEW u \in Conns PROVE Sends(u)' <=> Sends(u)
    BY <2>1, <2>2 DEF Sends, TypeOK
  <2> QED BY <2>3, <2>4, <2>5, <2>6, LockFrame
<1>3. ASSUME NEW c \in Conns, NEW i \in Ids, OpenDoor(c, i) \/ Register(c, i)
      PROVE  WriteLock'
  <2>1. PICK k \in {"door", "register"}, o \in Outcomes : Begin(c, i, k, o)
    BY <1>3 DEF OpenDoor, Register
  <2>2. /\ StartSend(c, o) /\ UNCHANGED rd /\ step[c] = "none"
        /\ step' = [step EXCEPT ![c] = IF Suspended(o) THEN "syn"
                                       ELSE IF o = "done" THEN "wait" ELSE "done"]
    BY <2>1 DEF Begin, Unused, CallInv, linkVars
  <2>3. ~In(lockq, c)
    BY <1>0, <2>2 DEF Sends
  <2>4. /\ Once(lockq') /\ (draining' => lockq' # <<>>)
        /\ \A u : In(lockq', u) <=> In(lockq, u) \/ (u = c /\ Suspended(o))
    BY <1>0, <2>2, <2>3, LockMoves
  <2>5. Sends(c)' <=> Suspended(o)
    BY <2>2 DEF Sends, TypeOK
  <2>6. ASSUME NEW u \in Conns \cup {Reader}, u # c PROVE Sends(u)' <=> Sends(u)
    BY <2>2, <2>6 DEF Sends, TypeOK
  <2> QED BY <2>3, <2>4, <2>5, <2>6, LockFrame
<1>4. ASSUME NEW c \in Conns, AcceptResumes(c)
      PROVE  WriteLock'
  <2>1. PICK o \in Resumes :
          /\ ResumeSend(o)
          /\ rd' = IF Suspended(o) THEN rd ELSE At("idle")
          /\ step' = [step EXCEPT ![c] = CASE Suspended(o) -> "acking" [] o = "done" -> "created"
                                           [] o = "raised" -> "done" [] o = "crashed" -> "lost"]
    BY <1>4 DEF AcceptResumes
  <2>2. /\ step[c] = "acking" /\ rd.step = "accept" /\ Holds(Reader) /\ o \in Outcomes
    BY <1>4, OutcomeTypes DEF AcceptResumes, AckInv
  <2>3. /\ Once(lockq') /\ (draining' => lockq' # <<>>)
        /\ \A u : In(lockq', u) <=> In(lockq, u) /\ (u # Reader \/ Suspended(o))
    BY <1>0, <2>1, <2>2, LockMoves
  <2>4. In(lockq, Reader) /\ (Sends(Reader)' <=> Suspended(o))
    BY <1>0, <2>1, <2>2 DEF Sends, At
  <2>5. step'[c] \in {"acking", "created", "done", "lost"}
    BY <2>1, <2>2 DEF TypeOK, Outcomes, Suspended
  <2>6. ASSUME NEW u \in Conns PROVE Sends(u)' <=> Sends(u)
    BY <2>1, <2>2, <2>5 DEF Sends, TypeOK
  <2> QED BY <2>3, <2>4, <2>6, LockFrame
<1>5. CASE \E by : BeginTeardown(by)
  <2>1. /\ \A d \in Conns : step'[d] = IF step[d] = "acking" THEN "lost" ELSE step[d]
        /\ rd' = At("off") /\ DropSend(Reader)
    BY <1>5 DEF BeginTeardown, Unadopted, AckInv
  <2>2. /\ Once(lockq') /\ (draining' => lockq' # <<>>)
        /\ \A u : In(lockq', u) <=> In(lockq, u) /\ u # Reader
    BY <1>0, <2>1, LockMoves
  <2>3. ~Sends(Reader)' /\ \A u \in Conns : Sends(u)' <=> Sends(u)
    BY <2>1 DEF Sends, At
  <2> QED BY <2>2, <2>3, LockFrame
<1>6. CASE (CloseBegins \/ ConnectBegins \/ ReaderStops) /\ ~ \E by : BeginTeardown(by)
  <2>1. /\ UNCHANGED <<step, lockq, draining>>
        /\ rd' = rd \/ (rd.step = "idle" /\ rd' = At("dead"))
    BY <1>6 DEF CloseBegins, ConnectBegins, ReaderStops, taskVars, lockVars, linkVars
  <2> QED BY <2>1 DEF WriteLock, Sends, At
<1>7. ASSUME NEW c \in Conns, SynResumes(c) \/ FinResumes(c)
      PROVE  WriteLock'
  <2>1. PICK o \in Resumes : ResumeSend(o) /\ (AfterSyn(c, o) \/ AfterFin(c, o))
    BY <1>7 DEF SynResumes, FinResumes
  <2>2. /\ Holds(c) /\ UNCHANGED rd /\ o \in Outcomes /\ step[c] \in {"syn", "fin"}
        /\ \A d \in Conns : d # c => step'[d] = step[d]
        /\ step'[c] \in {"syn", "fin"} <=> Suspended(o)
    <3>1. Holds(c) /\ UNCHANGED rd /\ o \in Outcomes /\ step[c] \in {"syn", "fin"}
      BY <1>7, OutcomeTypes DEF SynResumes, FinResumes, linkVars
    <3>2. CASE AfterSyn(c, o)
      BY <3>1, <3>2 DEF AfterSyn, Goes, GiveUp, Unwatch, LeaveDoor, FailRegister, TypeOK,
                        Suspended
    <3>3. CASE AfterFin(c, o)
      BY <3>1, <3>3 DEF AfterFin, Goes, GiveUp, Unwatch, LeaveDoor, FailRegister, Registered,
                        TypeOK, Suspended
    <3> QED BY <2>1, <3>1, <3>2, <3>3
  <2>3. /\ Once(lockq') /\ (draining' => lockq' # <<>>)
        /\ \A u : In(lockq', u) <=> In(lockq, u) /\ (u # c \/ Suspended(o))
    BY <1>0, <2>1, <2>2, LockMoves
  <2>4. In(lockq, c) /\ (Sends(c)' <=> Suspended(o))
    BY <1>0, <2>2 DEF Sends
  <2>5. ASSUME NEW u \in Conns \cup {Reader}, u # c PROVE Sends(u)' <=> Sends(u)
    BY <2>2, <2>5 DEF Sends
  <2> QED BY <2>3, <2>4, <2>5, LockFrame
<1>8. ASSUME NEW c \in Conns, WakeWanted(c)
      PROVE  WriteLock'
  <2>1. PICK o \in Starts(failed[c], lockq) : StartSend(c, o) /\ AfterFin(c, o)
    BY <1>8 DEF WakeWanted
  <2>2. /\ UNCHANGED rd /\ o \in Outcomes /\ step[c] = "wait"
        /\ \A d \in Conns : d # c => step'[d] = step[d]
        /\ step'[c] \in {"syn", "fin"} <=> Suspended(o)
    BY <1>8, <2>1, OutcomeTypes
       DEF WakeWanted, Waits, AfterFin, Goes, GiveUp, Unwatch, LeaveDoor,
           FailRegister, Registered, TypeOK, linkVars, Outcomes, Suspended
  <2>3. ~In(lockq, c)
    BY <1>0, <2>2 DEF Sends
  <2>4. /\ Once(lockq') /\ (draining' => lockq' # <<>>)
        /\ \A u : In(lockq', u) <=> In(lockq, u) \/ (u = c /\ Suspended(o))
    BY <1>0, <2>1, <2>3, LockMoves
  <2>5. Sends(c)' <=> Suspended(o)
    BY <2>2 DEF Sends
  <2>6. ASSUME NEW u \in Conns \cup {Reader}, u # c PROVE Sends(u)' <=> Sends(u)
    BY <2>2, <2>6 DEF Sends
  <2> QED BY <2>3, <2>4, <2>5, <2>6, LockFrame
<1>9. ASSUME NEW c \in Conns, WakeRefused(c) \/ WakeIgnored(c) \/ Timeout(c) \/ WatcherStarts(c)
      PROVE  WriteLock'
  <2>1. /\ UNCHANGED <<rd, lockq, draining>> /\ step[c] \in {"wait", "created"}
        /\ \A d \in Conns : d # c => step'[d] = step[d]
        /\ step'[c] \in {"wait", "done"}
    BY <1>9 DEF WakeRefused, WakeIgnored, Timeout, WatcherStarts, Waits, Goes, GiveUp, Unwatch,
                LeaveDoor, FailRegister, taskVars, lockVars, linkVars, TypeOK
  <2>2. ASSUME NEW u \in Conns \cup {Reader} PROVE Sends(u)' <=> Sends(u)
    BY <2>1 DEF Sends
  <2> QED BY <1>0, <2>1, <2>2 DEF WriteLock
<1>10. ASSUME NEW c \in Conns, EndWatcher(c) \/ RegisterCancelled(c)
       PROVE  WriteLock'
  <2>1. DropSend(c) /\ UNCHANGED rd
    BY <1>10 DEF EndWatcher, RegisterCancelled, linkVars
  <2>2. /\ \A d \in Conns : d # c => step'[d] = step[d]
        /\ step'[c] \notin {"syn", "fin"}
    <3>1. CASE EndWatcher(c)
      <4>1. kind[c] = "inbound" /\ step[c] # "syn"
        BY <3>1 DEF EndWatcher, WatchersInv, CallInv
      <4> QED BY <3>1, <4>1 DEF EndWatcher, Watched, Goes, Unwatch, taskVars, TypeOK
    <3>2. CASE RegisterCancelled(c)
      BY <3>2 DEF RegisterCancelled, Goes, TypeOK
    <3> QED BY <1>10, <3>1, <3>2
  <2>3. /\ Once(lockq') /\ (draining' => lockq' # <<>>)
        /\ \A u : In(lockq', u) <=> In(lockq, u) /\ u # c
    BY <1>0, <2>1, LockMoves
  <2>4. ~Sends(c)'
    BY <2>2 DEF Sends
  <2>5. ASSUME NEW u \in Conns \cup {Reader}, u # c PROVE Sends(u)' <=> Sends(u)
    BY <2>1, <2>2, <2>5 DEF Sends
  <2> QED BY <2>3, <2>4, <2>5, LockFrame
<1>11. ASSUME NEW i \in Ids, Stray(i) \/ \E p \in Packets \cup {Repeat} : Route(i, p)
       PROVE  WriteLock'
  <2>1. UNCHANGED step /\ rd.step = "idle"
    BY <1>11 DEF Stray, Route, Dispatching, taskVars
  <2>2. ~In(lockq, Reader)
    BY <1>0, <2>1 DEF Sends
  <2>3. CASE UNCHANGED <<rd, lockq, draining>>
    BY <1>1, <2>1, <2>3
  <2>4. CASE \E o : /\ StartSend(Reader, o)
                    /\ rd'.step \in {"accept", "route", "renew", "stray"} <=> Suspended(o)
    <3>1. PICK o : /\ StartSend(Reader, o)
                   /\ rd'.step \in {"accept", "route", "renew", "stray"} <=> Suspended(o)
      BY <2>4
    <3>2. /\ Once(lockq') /\ (draining' => lockq' # <<>>)
          /\ \A u : In(lockq', u) <=> In(lockq, u) \/ (u = Reader /\ Suspended(o))
      BY <1>0, <2>2, <3>1, LockMoves
    <3>3. Sends(Reader)' <=> Suspended(o)
      BY <3>1 DEF Sends
    <3>4. ASSUME NEW u \in Conns PROVE Sends(u)' <=> Sends(u)
      BY <2>1 DEF Sends
    <3> QED BY <2>2, <3>2, <3>3, <3>4, LockFrame
  <2>5. CASE Stray(i)
    BY <2>4, <2>5 DEF Stray, At
  <2>6. ASSUME NEW p \in Packets \cup {Repeat}, Route(i, p)
        PROVE  \/ UNCHANGED <<rd, lockq, draining>>
               \/ \E o : /\ StartSend(Reader, o)
                         /\ rd' = IF Suspended(o) THEN [step |-> "route", conn |-> routes[i], pkt |-> p]
                                  ELSE rd
               \/ \E o : /\ StartSend(Reader, o)
                         /\ rd' = IF Suspended(o) THEN [At("renew") EXCEPT !.conn = routes[i]] ELSE rd
    BY <2>6 DEF Route, lockVars
  <2> QED BY <1>11, <2>1, <2>3, <2>4, <2>5, <2>6 DEF At
<1>12. CASE RouteResumes \/ FrameResumes
  <2>1. /\ UNCHANGED step /\ Holds(Reader) /\ rd.step \in {"route", "renew", "stray"}
    BY <1>12 DEF RouteResumes, FrameResumes, taskVars
  <2>2. In(lockq, Reader)
    BY <1>0, <2>1 DEF Sends
  <2>3. ASSUME NEW u \in Conns PROVE Sends(u)' <=> Sends(u)
    BY <2>1 DEF Sends
  <2>4. CASE \E o : /\ ResumeSend(o)
                    /\ rd' = IF Suspended(o) THEN rd ELSE At("idle")
    <3>1. PICK o : /\ ResumeSend(o)
                   /\ rd' = IF Suspended(o) THEN rd ELSE At("idle")
      BY <2>4
    <3>2. /\ Once(lockq') /\ (draining' => lockq' # <<>>)
          /\ \A u : In(lockq', u) <=> In(lockq, u) /\ (u # Reader \/ Suspended(o))
      BY <1>0, <2>1, <3>1, LockMoves
    <3>3. Sends(Reader)' <=> Suspended(o)
      BY <2>1, <3>1 DEF Sends, At
    <3> QED BY <2>2, <2>3, <3>2, <3>3, LockFrame
  <2>5. CASE \E f : /\ lockq' = IF Suspended(f) THEN Append(Tail(lockq), Reader) ELSE Tail(lockq)
                    /\ draining' = (f = "draining")
                    /\ rd'.step = IF Suspended(f) THEN "renew" ELSE "idle"
    <3>1. PICK f : /\ lockq' = IF Suspended(f) THEN Append(Tail(lockq), Reader) ELSE Tail(lockq)
                   /\ draining' = (f = "draining")
                   /\ rd'.step = IF Suspended(f) THEN "renew" ELSE "idle"
      BY <2>5
    <3> DEFINE S == Conns \cup {Reader}
    <3>2. lockq \in Seq(S) /\ lockq # <<>> /\ Head(lockq) = Reader /\ Reader \in S
      BY <2>1 DEF TypeOK, Holds
    <3> HIDE DEF S
    <3>3. /\ Tail(lockq) \in Seq(S) /\ Once(Tail(lockq))
          /\ \A u : In(Tail(lockq), u) <=> In(lockq, u) /\ u # Reader
      BY <1>0, <3>2, OnceTail
    <3>4. /\ Once(lockq') /\ (draining' => lockq' # <<>>)
          /\ \A u : In(lockq', u) <=> (In(lockq, u) /\ u # Reader) \/ (u = Reader /\ Suspended(f))
      <4>1. CASE Suspended(f)
        <5> DEFINE q == Tail(lockq)
        <5>1. q \in Seq(S) /\ Once(q) /\ ~In(q, Reader) /\ Reader \in S
          BY <3>2, <3>3
        <5>2. lockq' = Append(q, Reader)
          BY <3>1, <4>1
        <5> HIDE DEF q
        <5>3. /\ Once(Append(q, Reader)) /\ Append(q, Reader) # <<>>
              /\ \A u : In(Append(q, Reader), u) <=> In(q, u) \/ u = Reader
          BY ONLY <5>1, OnceAppend
        <5> QED BY <3>3, <4>1, <5>2, <5>3 DEF q
      <4>2. CASE ~Suspended(f)
        BY <3>1, <3>3, <4>2 DEF Suspended
      <4> QED BY <4>1, <4>2
    <3>5. Sends(Reader)' <=> Suspended(f)
      BY <3>1 DEF Sends
    <3> QED BY <2>3, <3>4, <3>5, LockFrame
  <2> QED BY <1>12, <2>4, <2>5 DEF RouteResumes, FrameResumes, At
<1>13. CASE CloseSocket \/ FinishTeardown \/ OwnerCancelled \/ Opened \/ OpenFails
            \/ ChannelOpens \/ PeerGone \/ UNCHANGED vars
  <2>1. /\ UNCHANGED <<step, lockq, draining>>
        /\ rd' = rd \/ (rd.step \in {"off", "dead"} /\ rd' = At("idle"))
    BY <1>13 DEF CloseSocket, FinishTeardown, OwnerCancelled, Opened, OpenFails, ChannelOpens,
                 PeerGone, taskVars, lockVars, linkVars, vars
  <2> QED BY <2>1 DEF WriteLock, Sends, At
<1> QED
  BY <1>2, <1>3, <1>4, <1>5, <1>6, <1>7, <1>8, <1>9, <1>10, <1>11, <1>12, <1>13
     DEF Next, Panel, Owner, ReaderStep, TeardownStep, TaskStep

\* A teardown waits for watchers only: those of the calls that are followed.
LEMMA WatchersStep ==
    ASSUME IInv, WatchersInv, [Next]_vars
    PROVE  WatchersInv'
<1> USE DEF IInv, Inv, WatchersInv
<1>1. \A d \in Conns : kind[d] = "inbound" => kind'[d] = "inbound"
  <2>1. CASE UNCHANGED kind
    BY <2>1
  <2>2. CASE \E c \in Conns, k \in Kinds : Unused(c) /\ kind' = [kind EXCEPT ![c] = k]
    BY <2>2 DEF Unused, TypeOK
  <2>3. ASSUME NEW c \in Conns, NEW i \in Ids, Invite(c, i) \/ OpenDoor(c, i) \/ Register(c, i)
        PROVE  \E k \in Kinds : Unused(c) /\ kind' = [kind EXCEPT ![c] = k]
    <3>1. CASE Invite(c, i)
      BY <3>1 DEF Invite, Kinds
    <3>2. CASE OpenDoor(c, i)
      BY <3>2 DEF OpenDoor, Begin, Kinds
    <3>3. CASE Register(c, i)
      BY <3>3 DEF Register, Begin, Kinds
    <3> QED BY <2>3, <3>1, <3>2, <3>3
  <2>4. CASE \E c \in Conns : TaskStep(c) \/ EndWatcher(c) \/ RegisterCancelled(c) \/ AcceptResumes(c)
    BY <2>1, <2>4 DEF TaskStep, SynResumes, FinResumes, WakeWanted, WakeRefused, WakeIgnored,
       Timeout, WatcherStarts, EndWatcher, RegisterCancelled, AcceptResumes
  <2>5. CASE CloseBegins \/ ConnectBegins \/ ReaderStops
    BY <2>1, <2>5 DEF CloseBegins, ConnectBegins, ReaderStops, BeginTeardown
  <2>6. CASE \/ \E i \in Ids : Stray(i) \/ \E p \in Packets \cup {Repeat} : Route(i, p)
             \/ RouteResumes \/ FrameResumes \/ CloseSocket \/ FinishTeardown \/ OwnerCancelled
             \/ Opened \/ OpenFails \/ ChannelOpens \/ PeerGone \/ UNCHANGED vars
    BY <2>1, <2>6 DEF Stray, Route, RouteResumes, FrameResumes, CloseSocket, FinishTeardown,
       OwnerCancelled, Opened, OpenFails, ChannelOpens, PeerGone, vars
  <2> QED BY <2>2, <2>3, <2>4, <2>5, <2>6 DEF Next, Panel, Owner, ReaderStep, TeardownStep
<1>2. CASE callTasks' \cup pending' \subseteq callTasks \cup pending
  BY <1>1, <1>2 DEF TypeOK
<1>3. ASSUME NEW c \in Conns, NEW i \in Ids, Invite(c, i)
      PROVE  WatchersInv'
  <2>1. kind'[c] = "inbound" /\ callTasks' \subseteq callTasks \cup {c} /\ pending' = pending
    BY <1>3 DEF Invite, tearVars, TypeOK
  <2> QED BY <1>1, <2>1 DEF TypeOK
<1>4. ASSUME NEW c \in Conns, AcceptResumes(c)
      PROVE  WatchersInv'
  <2>1. kind'[c] = "inbound" /\ callTasks' \subseteq callTasks \cup {c} /\ pending' = pending
    BY <1>4 DEF AcceptResumes, AckInv, CallInv, tearVars
  <2> QED BY <1>1, <2>1 DEF TypeOK
<1>5. CASE CloseBegins \/ ConnectBegins \/ ReaderStops
  BY <1>2, <1>5 DEF CloseBegins, ConnectBegins, ReaderStops, BeginTeardown, taskVars, tearVars
<1>6. ASSUME NEW c \in Conns, TaskStep(c) \/ EndWatcher(c) \/ RegisterCancelled(c)
      PROVE  WatchersInv'
  BY <1>2, <1>6 DEF TaskStep, SynResumes, FinResumes, WakeWanted, WakeRefused, WakeIgnored,
     Timeout, WatcherStarts, AfterSyn, AfterFin, Goes, GiveUp, Unwatch, LeaveDoor, FailRegister,
     Registered, EndWatcher, RegisterCancelled, taskVars, tearVars
<1>7. CASE \/ \E c \in Conns, i \in Ids : OpenDoor(c, i) \/ Register(c, i)
           \/ \E i \in Ids : Stray(i) \/ \E p \in Packets \cup {Repeat} : Route(i, p)
           \/ RouteResumes \/ FrameResumes \/ UNCHANGED vars
  <2>1. UNCHANGED <<callTasks, pending>>
    <3>1. CASE \E c \in Conns, i \in Ids : OpenDoor(c, i) \/ Register(c, i)
      <4>1. \E c, i, k, o : Begin(c, i, k, o)
        BY <3>1 DEF OpenDoor, Register
      <4> QED BY <4>1 DEF Begin, tearVars
    <3>2. CASE \E i \in Ids : Stray(i) \/ \E p \in Packets \cup {Repeat} : Route(i, p)
      BY <3>2 DEF Stray, Route, taskVars, tearVars
    <3>3. CASE RouteResumes \/ FrameResumes \/ UNCHANGED vars
      BY <3>3 DEF RouteResumes, FrameResumes, taskVars, tearVars, vars
    <3> QED BY <1>7, <3>1, <3>2, <3>3
  <2> QED BY <1>2, <2>1
<1>8. CASE CloseSocket \/ FinishTeardown \/ OwnerCancelled \/ Opened \/ OpenFails
           \/ ChannelOpens \/ PeerGone
  <2>1. callTasks' = callTasks /\ pending' \subseteq pending
    BY <1>8 DEF CloseSocket, FinishTeardown, OwnerCancelled, Opened, OpenFails, ChannelOpens,
       PeerGone, taskVars, tearVars
  <2> QED BY <1>2, <2>1
<1> QED BY <1>3, <1>4, <1>5, <1>6, <1>7, <1>8
  DEF Next, Panel, Owner, ReaderStep, TeardownStep

\* The write lock is held by nobody who is gone, and nobody waits for it who
\* is not in the line for it: whichever task a teardown, a displacement, an
\* error of the transport or a cancellation ends: _send_frame, end_task.
THEOREM WriteLockHolds == Spec => []WriteLock
<1>1. Init => WatchersInv /\ WriteLock
  BY DEF Init, WatchersInv, WriteLock, Once, In, Sends, At
<1>2. FullInv /\ WatchersInv /\ WriteLock /\ [Next]_vars => WatchersInv' /\ WriteLock'
  BY WriteLockStep, WatchersStep DEF FullInv
<1> QED BY <1>1, <1>2, FullInvariance, PTL DEF Spec

-----------------------------------------------------------------------------
(* Failed connections.                                                      *)

\* A connection that has failed keeps its sentinel, and the sentinel is in no
\* other inbox; no id is routed to it; and one that is not in use has not
\* failed.
FailedInv ==
    \A c \in Conns :
        /\ failed[c] <=> HasSentinel(c)
        /\ failed[c] => kind[c] # "unused" /\ \A i \in Ids : routes[i] # c

\* Only fail() leaves the sentinel, and nobody takes it away.
LEMMA SentinelStays ==
    ASSUME TypeOK, NEW d \in Conns,
           \/ UNCHANGED inbox
           \/ \E c \in Conns : /\ inbox[c] # <<>> /\ Head(inbox[c]) # End
                               /\ inbox' = [inbox EXCEPT ![c] = Tail(@)]
           \/ \E h, p : Delivered(h, p)
    PROVE  HasSentinel(d)' <=> HasSentinel(d)
<1>1. CASE UNCHANGED inbox
  BY <1>1 DEF HasSentinel
<1>2. ASSUME NEW c \in Conns, inbox[c] # <<>>, Head(inbox[c]) # End,
             inbox' = [inbox EXCEPT ![c] = Tail(@)]
      PROVE  HasSentinel(d)' <=> HasSentinel(d)
  <2>1. HasSentinel(d) => HasSentinel(d)'
    BY <1>2, TailSentinel
  <2>2. ASSUME HasSentinel(d)' PROVE HasSentinel(d)
    <3>1. CASE d # c
      BY <1>2, <2>2, <3>1 DEF HasSentinel, TypeOK
    <3>2. CASE d = c
      <4>1. inbox[c] \in Seq(Packets \cup {End}) /\ inbox'[c] = Tail(inbox[c])
        BY <1>2 DEF TypeOK
      <4>2. PICK k \in 1..Len(Tail(inbox[c])) : Tail(inbox[c])[k] = End
        BY <2>2, <3>2, <4>1 DEF HasSentinel
      <4>3. k + 1 \in 1..Len(inbox[c]) /\ inbox[c][k + 1] = End
        BY <1>2, <4>1, <4>2
      <4> QED BY <3>2, <4>3 DEF HasSentinel
    <3> QED BY <3>1, <3>2
  <2> QED BY <2>1, <2>2
<1>3. ASSUME NEW h, NEW p, Delivered(h, p)
      PROVE  HasSentinel(d)' <=> HasSentinel(d)
  <2>1. HasSentinel(d) => HasSentinel(d)'
    BY <1>3, DeliveredSentinel
  <2>2. ASSUME HasSentinel(d)' PROVE HasSentinel(d)
    <3>1. inbox[d] \in Seq(Packets \cup {End})
      BY DEF TypeOK
    <3>2. inbox'[d] = inbox[d] \/ (p \in Packets /\ inbox'[d] = Append(inbox[d], p))
      BY <1>3 DEF Delivered, TypeOK
    <3>3. PICK k \in 1..Len(inbox'[d]) : inbox'[d][k] = End
      BY <2>2 DEF HasSentinel
    <3>4. ASSUME p \in Packets, inbox'[d] = Append(inbox[d], p)
          PROVE  k \in 1..Len(inbox[d]) /\ inbox[d][k] = End
      <4>1. p # End
        BY <3>4 DEF Packets, End
      <4> QED BY <3>1, <3>3, <3>4, <4>1
    <3> QED BY <3>2, <3>3, <3>4 DEF HasSentinel
  <2> QED BY <2>1, <2>2
<1> QED BY <1>1, <1>2, <1>3

\* The sentinel comes to those that fail, and to nobody else.
LEMMA FailsExactly ==
    ASSUME TypeOK, NEW S, Fails(S), NEW d \in Conns
    PROVE  /\ HasSentinel(d)' <=> HasSentinel(d) \/ d \in S
           /\ failed'[d] <=> failed[d] \/ d \in S
<1>1. HasSentinel(d) \/ d \in S => HasSentinel(d)'
  BY FailSentinels
<1>2. d \notin S => (HasSentinel(d)' <=> HasSentinel(d))
  BY DEF Fails, HasSentinel
<1>3. failed'[d] = (failed[d] \/ d \in S)
  BY DEF Fails
<1> QED BY <1>1, <1>2, <1>3

\* A step that fails nobody and routes to nobody new.
LEMMA FailedFrame ==
    ASSUME TypeOK, FailedInv, UNCHANGED failed,
           \/ UNCHANGED inbox
           \/ \E c \in Conns : /\ inbox[c] # <<>> /\ Head(inbox[c]) # End
                               /\ inbox' = [inbox EXCEPT ![c] = Tail(@)]
           \/ \E h, p : Delivered(h, p),
           \A c \in Conns : kind'[c] = "unused" => kind[c] = "unused",
           \A c \in Conns, i \in Ids : routes'[i] = c => routes[i] = c \/ kind[c] = "unused"
    PROVE  FailedInv'
<1> SUFFICES ASSUME NEW c \in Conns
             PROVE  /\ failed'[c] <=> HasSentinel(c)'
                    /\ failed'[c] => kind'[c] # "unused" /\ \A i \in Ids : routes'[i] # c
  BY DEF FailedInv
<1>1. HasSentinel(c)' <=> HasSentinel(c)
  BY SentinelStays
<1> QED BY <1>1 DEF FailedInv

\* What a task does leaves no connection routed that was not.
LEMMA TaskRoutes ==
    ASSUME SessionConstants, NEW c \in Conns,
           (\E s \in Steps : Goes(c, s)) \/ GiveUp(c) \/ Registered(c)
    PROVE  \A d \in Conns, i \in Ids : routes'[i] = d => routes[i] = d
BY DEF Goes, GiveUp, Unwatch, LeaveDoor, FailRegister, Registered, Release, SessionConstants

LEMMA FailedStep ==
    ASSUME SessionConstants, IInv, FailedInv, [Next]_vars
    PROVE  FailedInv'
<1> USE DEF IInv, Inv
<1>1. ASSUME NEW c \in Conns, TaskStep(c) \/ EndWatcher(c) \/ RegisterCancelled(c)
      PROVE  FailedInv'
  <2>1. UNCHANGED <<kind, failed>>
    BY <1>1 DEF TaskStep, SynResumes, FinResumes, WakeWanted, WakeRefused, WakeIgnored,
       Timeout, WatcherStarts, EndWatcher, RegisterCancelled
  <2>2. \/ UNCHANGED inbox
        \/ /\ inbox[c] # <<>> /\ Head(inbox[c]) # End
           /\ inbox' = [inbox EXCEPT ![c] = Tail(@)]
    BY <1>1 DEF TaskStep, SynResumes, FinResumes, WakeWanted, WakeRefused, WakeIgnored,
       Timeout, WatcherStarts, EndWatcher, RegisterCancelled, Waits, Wanted, Refused, End
  <2>3. UNCHANGED routes \/ (\E s \in Steps : Goes(c, s)) \/ GiveUp(c) \/ Registered(c)
    BY <1>1 DEF TaskStep, SynResumes, FinResumes, WakeWanted, WakeRefused, WakeIgnored,
       Timeout, WatcherStarts, EndWatcher, RegisterCancelled, AfterSyn, AfterFin, taskVars,
       GiveUp, Watched, Steps
  <2>4. \A d \in Conns, i \in Ids : routes'[i] = d => routes[i] = d
    BY <2>3, TaskRoutes
  <2> QED BY <2>1, <2>2, <2>4, FailedFrame
<1>2. ASSUME NEW c \in Conns, NEW i \in Ids, OpenDoor(c, i) \/ Register(c, i)
      PROVE  FailedInv'
  <2>1. PICK k \in {"door", "register"}, o \in Outcomes : Begin(c, i, k, o)
    BY <1>2 DEF OpenDoor, Register
  <2>2. /\ UNCHANGED <<inbox, failed>> /\ kind[c] = "unused"
        /\ kind' = [kind EXCEPT ![c] = k]
        /\ UNCHANGED routes \/ routes' = [routes EXCEPT ![i] = c]
    BY <2>1 DEF Begin, Unused
  <2> QED BY <2>2, FailedFrame DEF TypeOK
<1>3. ASSUME NEW c \in Conns, NEW i \in Ids, Invite(c, i)
      PROVE  FailedInv'
  <2>1. /\ kind[c] = "unused" /\ kind' = [kind EXCEPT ![c] = "inbound"]
        /\ Fails(Displaced(i))
        /\ routes' = [routes EXCEPT ![i] = NoConn] \/ routes' = [routes EXCEPT ![i] = c]
    BY <1>3 DEF Invite, Unused
  <2>2. \A d \in Displaced(i) : d \in Conns => d # c /\ \A j \in Ids : routes[j] = d => j = i
    BY <2>1 DEF Displaced, RouteInv
  <2> SUFFICES ASSUME NEW d \in Conns
               PROVE  /\ failed'[d] <=> HasSentinel(d)'
                      /\ failed'[d] => kind'[d] # "unused" /\ \A j \in Ids : routes'[j] # d
    BY DEF FailedInv
  <2>3. /\ HasSentinel(d)' <=> HasSentinel(d) \/ d \in Displaced(i)
        /\ failed'[d] <=> failed[d] \/ d \in Displaced(i)
    BY <2>1, FailsExactly
  <2>4. CASE d \in Displaced(i)
    <3>1. d # c /\ \A j \in Ids : routes[j] = d => j = i
      BY <2>2, <2>4
    <3>2. routes[i] = d
      BY <2>4 DEF Displaced
    <3>3. kind[d] # "unused"
      BY <3>2 DEF RouteInv
    <3> QED BY <2>1, <2>3, <2>4, <3>1, <3>3, SessionConstants DEF TypeOK
  <2>5. CASE d \notin Displaced(i)
    <3>1. failed[d] => d # c
      BY <2>1 DEF FailedInv
    <3> QED BY <2>1, <2>3, <2>5, <3>1, SessionConstants DEF FailedInv, TypeOK
  <2> QED BY <2>4, <2>5
<1>4. ASSUME NEW c \in Conns, AcceptResumes(c)
      PROVE  FailedInv'
  <2>1. /\ UNCHANGED <<kind, inbox, failed>>
        /\ UNCHANGED routes \/ routes' = [routes EXCEPT ![id[c]] = NoConn]
    BY <1>4 DEF AcceptResumes
  <2> QED BY <2>1, FailedFrame, SessionConstants DEF TypeOK
<1>5. CASE CloseBegins \/ ConnectBegins \/ ReaderStops
  <2>1. UNCHANGED <<kind, inbox, failed, routes>>
    BY <1>5 DEF CloseBegins, ConnectBegins, ReaderStops, BeginTeardown, taskVars
  <2> QED BY <2>1, FailedFrame
<1>6. CASE FinishTeardown
  <2>1. /\ Fails({routes[i] : i \in Ids} \ {NoConn}) /\ UNCHANGED kind
        /\ \A i \in Ids : routes'[i] = NoConn
    BY <1>6 DEF FinishTeardown
  <2> SUFFICES ASSUME NEW d \in Conns
               PROVE  /\ failed'[d] <=> HasSentinel(d)'
                      /\ failed'[d] => kind'[d] # "unused" /\ \A j \in Ids : routes'[j] # d
    BY DEF FailedInv
  <2>2. /\ HasSentinel(d)' <=> HasSentinel(d) \/ d \in ({routes[i] : i \in Ids} \ {NoConn})
        /\ failed'[d] <=> failed[d] \/ d \in ({routes[i] : i \in Ids} \ {NoConn})
    BY <2>1, FailsExactly
  <2>3. d \in ({routes[i] : i \in Ids} \ {NoConn}) => kind[d] # "unused"
    BY DEF RouteInv
  <2> QED BY <2>1, <2>2, <2>3, SessionConstants DEF FailedInv
<1>7. CASE \/ \E i \in Ids : Stray(i) \/ \E p \in Packets \cup {Repeat} : Route(i, p)
           \/ RouteResumes \/ FrameResumes \/ CloseSocket \/ OwnerCancelled
           \/ Opened \/ OpenFails \/ ChannelOpens \/ PeerGone \/ UNCHANGED vars
  <2>1. UNCHANGED <<kind, failed, routes>>
    BY <1>7 DEF Stray, Route, RouteResumes, FrameResumes, CloseSocket, OwnerCancelled, Opened,
       OpenFails, ChannelOpens, PeerGone, taskVars, vars
  <2>2. UNCHANGED inbox \/ \E h, p : Delivered(h, p)
    BY <1>7 DEF Stray, Route, RouteResumes, FrameResumes, CloseSocket, OwnerCancelled, Opened,
       OpenFails, ChannelOpens, PeerGone, vars
  <2> QED BY <2>1, <2>2, FailedFrame
<1> QED BY <1>1, <1>2, <1>3, <1>4, <1>5, <1>6, <1>7
  DEF Next, Panel, Owner, ReaderStep, TeardownStep

\* A connection that has been displaced, or failed by a teardown, has no id and
\* keeps the None that says so, however often its task takes it from the inbox
\* and whatever the panel sends afterwards; nobody else ever finds one there:
\* CtpConnection.fail and wait, _displace, _teardown.
FailedForGood ==
    \A c \in Conns :
        /\ failed[c] <=> HasSentinel(c)
        /\ failed[c] => \A i \in Ids : routes[i] # c

THEOREM FailedForGoodHolds == Spec => []FailedForGood
<1>1. Init => FailedInv
  BY DEF Init, FailedInv, HasSentinel
<1>2. IInv /\ FailedInv /\ [Next]_vars => FailedInv'
  BY FailedStep, SessionConstants
<1>3. FailedInv => FailedForGood
  BY DEF FailedInv, FailedForGood
<1> QED BY <1>1, <1>2, <1>3, Invariance, PTL DEF Spec

=============================================================================
