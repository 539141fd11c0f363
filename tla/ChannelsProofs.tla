----------------------------- MODULE ChannelsProofs -----------------------------
(***************************************************************************)
(* That handles stay apart, nothing but a cancellation leaks and a dead    *)
(* link leaves nobody waiting, for every width of a handle, any handles    *)
(* the panel names and any number of requesters and calls.  The three are  *)
(* inductive only together, and with what IInv adds: while a teardown      *)
(* closes the socket the handles are apart as before, a waiter is in the   *)
(* table for as long as its task waits for the ack, and only a dead link   *)
(* refuses.  What reserve_handle and the panel's OPEN put in the pool      *)
(* while it was there, clash, is excepted throughout; the leaks are not.   *)
(***************************************************************************)
EXTENDS Channels, TLAPS

\* u is about to have, or has just got, the channel it opens.
Opens(u) == at[u] \in {"opening", "early", "acking", "acked"}

\* h is one of the channels of u.
Has(u, h) ==
    \/ h \in held[u] \/ h \in media[u] \/ h \in remote[u]
    \/ Opens(u) /\ h = mine[u]

\* u opened h, has it reserved, or is opening it: what nobody but u takes away.
Keeping(u, h) ==
    \/ h \in held[u] \/ h \in media[u]
    \/ Opens(u) /\ h = mine[u]

\* u opened h and has it, or is about to close it.
Minds(u, h) ==
    \/ h \in held[u]
    \/ (Opens(u) \/ at[u] = "shutting") /\ h = mine[u]

\* But for those of clash, the handles of the users are in the pool, and theirs
\* alone, and a user has each of them once.
Apart ==
    link # "down" => \A h \in Handles \ clash :
        /\ h \in theirs => h \in pool
        /\ \A u \in Users :
              /\ Has(u, h) => h \in pool /\ h # MGMT
              /\ Opens(u) /\ h = mine[u] =>
                    h \notin held[u] /\ h \notin media[u] /\ h \notin remote[u] /\ h \notin theirs
              /\ ~(h \in held[u] /\ h \in media[u])
              /\ ~(h \in held[u] /\ h \in remote[u])
              /\ ~(h \in media[u] /\ h \in remote[u])
              /\ \A v \in Users : u # v => ~(Has(u, h) /\ Has(v, h))

\* The waiter of an open is in the table, unless another took its handle; only a
\* dead link refuses, and leaves nobody else waiting; a requester has one channel
\* at a time.
Waiting ==
    \A u \in Users :
        /\ at[u] \in {"opening", "acking"} /\ link # "down" => u \in openw \/ mine[u] \in clash
        /\ at[u] = "acking" /\ link = "down" => mine[u] \in clash
        /\ u \in openw => at[u] \in {"opening", "acking"}
        /\ at[u] = "refused" => link = "down"
        /\ at[u] = "answering" => link # "down"
        /\ u \in Requesters => /\ media[u] = {} /\ remote[u] = {}
                               /\ at[u] = "idle" \/ Opens(u) => held[u] = {}

\* What is in the pool, and what the panel has or was asked for.
Known ==
    /\ link # "up" => asked = {} /\ open = {} /\ theirs = {}
    /\ link = "up" =>
          /\ \A h \in pool : h \in lost \/ h \in theirs \/ \E u \in Users : Keeping(u, h)
          /\ \A h \in asked \cup open : h \in late \/ h \in lost \/ \E u \in Users : Minds(u, h)

\* The inductive invariant.
IInv == TypeOK /\ Apart /\ Waiting /\ Known

\* Whatever a user does, or has done to it.
UserActs(u) ==
    \/ OpenBegins(u) \/ OpenWritten(u) \/ OpenCrashes(u) \/ OpenFails(u)
    \/ OpenTimesOut(u) \/ OpenCancelled(u) \/ Keeps(u) \/ RequestBegins(u)
    \/ RequestWritten(u) \/ RequestTimesOut(u) \/ RequestReturns(u)
    \/ RequestCancelled(u) \/ CloseBegins(u) \/ CloseChannel(u)
    \/ CloseWritten(u) \/ CloseCut(u) \/ PanelAnswers(u)

-----------------------------------------------------------------------------
(* Types.                                                                   *)

\* Handles are cut to their width.
LEMMA CutHandle ==
    ASSUME NEW h \in Handles
    PROVE  (h + 1) % W \in Handles
BY ChannelConstants, SMT DEF Handles

\* The management handle is a handle.
LEMMA ManagementHandle == MGMT \in Handles /\ First \in Handles
BY ChannelConstants, SMT DEF Handles, MGMT

\* What a user does keeps the types.
LEMMA UsersTypeOK ==
    ASSUME IInv, NEW u \in Users,
           UserActs(u)
    PROVE  TypeOK'
<1>1. CASE OpenBegins(u)
  BY CutHandle, ManagementHandle, <1>1, SMT
     DEF IInv, TypeOK, OpenBegins, Free, WaitersOf, Handles, panelVars, holdVars
<1>2. CASE OpenWritten(u)
  BY CutHandle, ManagementHandle, <1>2, SMT
     DEF IInv, TypeOK, OpenWritten, Goes, panelVars, holdVars
<1>3. CASE OpenCrashes(u)
  BY CutHandle, ManagementHandle, <1>3, SMT
     DEF IInv, TypeOK, OpenCrashes, Leaves, Ends, Holds, panelVars, holdVars
<1>4. CASE OpenFails(u)
  BY CutHandle, ManagementHandle, <1>4, SMT
     DEF IInv, TypeOK, OpenFails, Leaves, Ends, Holds, Forgets, WaitersOf, panelVars, holdVars
<1>5. CASE OpenTimesOut(u)
  BY CutHandle, ManagementHandle, <1>5, SMT
     DEF IInv, TypeOK, OpenTimesOut, Leaves, Ends, Holds, Forgets, WaitersOf, panelVars, holdVars
<1>6. CASE OpenCancelled(u)
  BY CutHandle, ManagementHandle, <1>6, SMT
     DEF IInv, TypeOK, OpenCancelled, Leaves, Ends, Holds, GivesUp, panelVars, holdVars
<1>7. CASE Keeps(u)
  BY CutHandle, ManagementHandle, <1>7, SMT
     DEF IInv, TypeOK, Keeps, Leaves, Media, Takes, panelVars
<1>8. CASE RequestBegins(u)
  BY CutHandle, ManagementHandle, <1>8, SMT
     DEF IInv, TypeOK, RequestBegins, panelVars
<1>9. CASE RequestWritten(u)
  BY CutHandle, ManagementHandle, <1>9, SMT
     DEF IInv, TypeOK, RequestWritten, Goes, panelVars, holdVars
<1>10. CASE RequestTimesOut(u)
  BY CutHandle, ManagementHandle, <1>10, SMT
     DEF IInv, TypeOK, RequestTimesOut, Leaves, panelVars, holdVars
<1>11. CASE RequestReturns(u)
  BY CutHandle, ManagementHandle, <1>11, SMT
     DEF IInv, TypeOK, RequestReturns, Leaves, panelVars, holdVars
<1>12. CASE RequestCancelled(u)
  BY CutHandle, ManagementHandle, <1>12, SMT
     DEF IInv, TypeOK, RequestCancelled, Leaves, panelVars, holdVars
<1>13. CASE CloseBegins(u)
  BY CutHandle, ManagementHandle, <1>13, SMT
     DEF IInv, TypeOK, CloseBegins, Goes, Holds, panelVars, holdVars
<1>14. CASE CloseChannel(u)
  BY CutHandle, ManagementHandle, <1>14, SMT
     DEF IInv, TypeOK, CloseChannel, Holds, panelVars
<1>15. CASE CloseWritten(u)
  BY CutHandle, ManagementHandle, <1>15, SMT
     DEF IInv, TypeOK, CloseWritten, Leaves, Ends, Holds, panelVars, holdVars
<1>16. CASE CloseCut(u)
  BY CutHandle, ManagementHandle, <1>16, SMT
     DEF IInv, TypeOK, CloseCut, Leaves, GivesUp, Holds, panelVars
<1>17. CASE PanelAnswers(u)
  BY CutHandle, ManagementHandle, <1>17, SMT
     DEF IInv, TypeOK, PanelAnswers, Goes, panelVars, holdVars
<1> QED
  BY <1>1, <1>2, <1>3, <1>4, <1>5, <1>6, <1>7, <1>8, <1>9, <1>10, <1>11, <1>12,
     <1>13, <1>14, <1>15, <1>16, <1>17 DEF UserActs

\* So does what the panel does.
LEMMA PanelTypeOK ==
    ASSUME IInv, NEW h \in Handles,
           PanelAcks(h) \/ PanelOpens(h)
    PROVE  TypeOK'
<1>1. CASE PanelAcks(h)
  BY CutHandle, ManagementHandle, <1>1, SMT
     DEF IInv, TypeOK, PanelAcks, WaitersOf, panelVars, holdVars
<1>2. CASE PanelOpens(h)
  BY CutHandle, ManagementHandle, <1>2, SMT
     DEF IInv, TypeOK, PanelOpens, Takes, panelVars
<1> QED BY <1>1, <1>2

\* So do a teardown and a connection.
LEMMA LinkTypeOK ==
    ASSUME IInv,
           TeardownBegins \/ TeardownEnds \/ Connects
    PROVE  TypeOK'
<1>1. CASE TeardownBegins
  BY CutHandle, ManagementHandle, <1>1, SMT
     DEF IInv, TypeOK, TeardownBegins, userVars, panelVars, holdVars
<1>2. CASE TeardownEnds
  BY CutHandle, ManagementHandle, <1>2, SMT
     DEF IInv, TypeOK, TeardownEnds, panelVars, holdVars, FailsWaiter
<1>3. CASE Connects
  BY CutHandle, ManagementHandle, <1>3, SMT
     DEF IInv, TypeOK, Connects, Holds, userVars, panelVars, holdVars
<1> QED BY <1>1, <1>2, <1>3

-----------------------------------------------------------------------------
(* Apart.                                                                   *)

\* What a user does keeps the handles apart: the one it takes is free, and it
\* gives back none but its own.  A video channel's media handle is the one it
\* takes without an open.
LEMMA UsersApart ==
    ASSUME IInv, NEW u \in Users,
           UserActs(u)
    PROVE  Apart'
<1>1. CASE OpenBegins(u)
  BY <1>1, SMT DEF IInv, TypeOK, Apart, Waiting, Known, Has, Opens,
         OpenBegins, Free, WaitersOf, Handles, panelVars, holdVars
<1>2. CASE OpenWritten(u)
  BY <1>2, SMT DEF IInv, TypeOK, Apart, Waiting, Known, Has, Opens,
         OpenWritten, Goes, panelVars, holdVars
<1>3. CASE OpenCrashes(u)
  BY <1>3, SMT DEF IInv, TypeOK, Apart, Waiting, Known, Has, Opens,
         OpenCrashes, Leaves, Ends, Holds, panelVars, holdVars
<1>4. CASE OpenFails(u)
  BY <1>4, SMT DEF IInv, TypeOK, Apart, Waiting, Known, Has, Opens,
         OpenFails, Leaves, Ends, Holds, Forgets, WaitersOf, panelVars, holdVars
<1>5. CASE OpenTimesOut(u)
  BY <1>5, SMT DEF IInv, TypeOK, Apart, Waiting, Known, Has, Opens,
         OpenTimesOut, Leaves, Ends, Holds, Forgets, WaitersOf, panelVars, holdVars
<1>6. CASE OpenCancelled(u)
  BY <1>6, SMT DEF IInv, TypeOK, Apart, Waiting, Known, Has, Opens,
         OpenCancelled, Leaves, Ends, Holds, GivesUp, panelVars, holdVars
<1>7. CASE Keeps(u)
  BY CutHandle, <1>7, SMT DEF IInv, TypeOK, Apart, Waiting, Known, Has, Opens,
         Keeps, Leaves, Media, Takes, panelVars
<1>8. CASE RequestBegins(u)
  BY <1>8, SMT DEF IInv, TypeOK, Apart, Waiting, Known, Has, Opens,
         RequestBegins, panelVars
<1>9. CASE RequestWritten(u)
  BY <1>9, SMT DEF IInv, TypeOK, Apart, Waiting, Known, Has, Opens,
         RequestWritten, Goes, panelVars, holdVars
<1>10. CASE RequestTimesOut(u)
  BY <1>10, SMT DEF IInv, TypeOK, Apart, Waiting, Known, Has, Opens,
         RequestTimesOut, Leaves, panelVars, holdVars
<1>11. CASE RequestReturns(u)
  BY <1>11, SMT DEF IInv, TypeOK, Apart, Waiting, Known, Has, Opens,
         RequestReturns, Leaves, panelVars, holdVars
<1>12. CASE RequestCancelled(u)
  BY <1>12, SMT DEF IInv, TypeOK, Apart, Waiting, Known, Has, Opens,
         RequestCancelled, Leaves, panelVars, holdVars
<1>13. CASE CloseBegins(u)
  BY <1>13, SMT DEF IInv, TypeOK, Apart, Waiting, Known, Has, Opens,
         CloseBegins, Goes, Holds, panelVars, holdVars
<1>14. CASE CloseChannel(u)
  BY <1>14, SMT DEF IInv, TypeOK, Apart, Waiting, Known, Has, Opens,
         CloseChannel, Holds, panelVars
<1>15. CASE CloseWritten(u)
  BY <1>15, SMT DEF IInv, TypeOK, Apart, Waiting, Known, Has, Opens,
         CloseWritten, Leaves, Ends, Holds, panelVars, holdVars
<1>16. CASE CloseCut(u)
  BY <1>16, SMT DEF IInv, TypeOK, Apart, Waiting, Known, Has, Opens,
         CloseCut, Leaves, GivesUp, Holds, panelVars
<1>17. CASE PanelAnswers(u)
  BY <1>17, SMT DEF IInv, TypeOK, Apart, Waiting, Known, Has, Opens,
         PanelAnswers, Goes, panelVars, holdVars
<1> QED
  BY <1>1, <1>2, <1>3, <1>4, <1>5, <1>6, <1>7, <1>8, <1>9, <1>10, <1>11, <1>12,
     <1>13, <1>14, <1>15, <1>16, <1>17 DEF UserActs

\* A handle the panel opens is free.
LEMMA PanelApart ==
    ASSUME IInv, NEW h \in Handles,
           PanelAcks(h) \/ PanelOpens(h)
    PROVE  Apart'
<1>1. CASE PanelAcks(h)
  BY <1>1, SMT DEF IInv, TypeOK, Apart, Waiting, Known, Has, Opens,
         PanelAcks, WaitersOf, panelVars, holdVars
<1>2. CASE PanelOpens(h)
  BY <1>2, SMT DEF IInv, TypeOK, Apart, Waiting, Known, Has, Opens,
         PanelOpens, Takes, panelVars
<1> QED BY <1>1, <1>2

\* A teardown that is over empties the pool when no handle is used any more.
LEMMA LinkApart ==
    ASSUME IInv,
           TeardownBegins \/ TeardownEnds \/ Connects
    PROVE  Apart'
<1>1. CASE TeardownBegins
  BY <1>1, SMT DEF IInv, TypeOK, Apart, Waiting, Known, Has, Opens,
         TeardownBegins, userVars, panelVars, holdVars
<1>2. CASE TeardownEnds
  BY <1>2, SMT DEF IInv, TypeOK, Apart, Waiting, Known, Has, Opens,
         TeardownEnds, panelVars, holdVars, FailsWaiter
<1>3. CASE Connects
  BY <1>3, SMT DEF IInv, TypeOK, Apart, Waiting, Known, Has, Opens,
         Connects, Holds, userVars, panelVars, holdVars
<1> QED BY <1>1, <1>2, <1>3

-----------------------------------------------------------------------------
(* Waiting.                                                                 *)

\* An open waits with its waiter in the table.
LEMMA UsersWaiting ==
    ASSUME IInv, NEW u \in Users,
           UserActs(u)
    PROVE  Waiting'
<1>1. CASE OpenBegins(u)
  BY <1>1, SMT DEF IInv, TypeOK, Apart, Waiting, Known, Has, Opens,
         OpenBegins, Free, WaitersOf, Handles, panelVars, holdVars
<1>2. CASE OpenWritten(u)
  BY <1>2, SMT DEF IInv, TypeOK, Apart, Waiting, Known, Has, Opens,
         OpenWritten, Goes, panelVars, holdVars
<1>3. CASE OpenCrashes(u)
  BY <1>3, SMT DEF IInv, TypeOK, Apart, Waiting, Known, Has, Opens,
         OpenCrashes, Leaves, Ends, Holds, panelVars, holdVars
<1>4. CASE OpenFails(u)
  BY <1>4, SMT DEF IInv, TypeOK, Apart, Waiting, Known, Has, Opens,
         OpenFails, Leaves, Ends, Holds, Forgets, WaitersOf, panelVars, holdVars
<1>5. CASE OpenTimesOut(u)
  BY <1>5, SMT DEF IInv, TypeOK, Apart, Waiting, Known, Has, Opens,
         OpenTimesOut, Leaves, Ends, Holds, Forgets, WaitersOf, panelVars, holdVars
<1>6. CASE OpenCancelled(u)
  BY <1>6, SMT DEF IInv, TypeOK, Apart, Waiting, Known, Has, Opens,
         OpenCancelled, Leaves, Ends, Holds, GivesUp, panelVars, holdVars
<1>7. CASE Keeps(u)
  BY ChannelConstants, <1>7, SMT DEF IInv, TypeOK, Apart, Waiting, Known, Has, Opens,
         Keeps, Leaves, Media, Takes, panelVars
<1>8. CASE RequestBegins(u)
  BY <1>8, SMT DEF IInv, TypeOK, Apart, Waiting, Known, Has, Opens,
         RequestBegins, panelVars
<1>9. CASE RequestWritten(u)
  BY <1>9, SMT DEF IInv, TypeOK, Apart, Waiting, Known, Has, Opens,
         RequestWritten, Goes, panelVars, holdVars
<1>10. CASE RequestTimesOut(u)
  BY <1>10, SMT DEF IInv, TypeOK, Apart, Waiting, Known, Has, Opens,
         RequestTimesOut, Leaves, panelVars, holdVars
<1>11. CASE RequestReturns(u)
  BY <1>11, SMT DEF IInv, TypeOK, Apart, Waiting, Known, Has, Opens,
         RequestReturns, Leaves, panelVars, holdVars
<1>12. CASE RequestCancelled(u)
  BY <1>12, SMT DEF IInv, TypeOK, Apart, Waiting, Known, Has, Opens,
         RequestCancelled, Leaves, panelVars, holdVars
<1>13. CASE CloseBegins(u)
  BY <1>13, SMT DEF IInv, TypeOK, Apart, Waiting, Known, Has, Opens,
         CloseBegins, Goes, Holds, panelVars, holdVars
<1>14. CASE CloseChannel(u)
  BY <1>14, SMT DEF IInv, TypeOK, Apart, Waiting, Known, Has, Opens,
         CloseChannel, Holds, panelVars
<1>15. CASE CloseWritten(u)
  BY <1>15, SMT DEF IInv, TypeOK, Apart, Waiting, Known, Has, Opens,
         CloseWritten, Leaves, Ends, Holds, panelVars, holdVars
<1>16. CASE CloseCut(u)
  BY <1>16, SMT DEF IInv, TypeOK, Apart, Waiting, Known, Has, Opens,
         CloseCut, Leaves, GivesUp, Holds, panelVars
<1>17. CASE PanelAnswers(u)
  BY <1>17, SMT DEF IInv, TypeOK, Apart, Waiting, Known, Has, Opens,
         PanelAnswers, Goes, panelVars, holdVars
<1> QED
  BY <1>1, <1>2, <1>3, <1>4, <1>5, <1>6, <1>7, <1>8, <1>9, <1>10, <1>11, <1>12,
     <1>13, <1>14, <1>15, <1>16, <1>17 DEF UserActs

\* An ack that takes a waiter from the table ends the wait.
LEMMA PanelWaiting ==
    ASSUME IInv, NEW h \in Handles,
           PanelAcks(h) \/ PanelOpens(h)
    PROVE  Waiting'
<1>1. CASE PanelAcks(h)
  BY <1>1, SMT DEF IInv, TypeOK, Apart, Waiting, Known, Has, Opens,
         PanelAcks, WaitersOf, panelVars, holdVars
<1>2. CASE PanelOpens(h)
  BY ChannelConstants, <1>2, SMT DEF IInv, TypeOK, Apart, Waiting, Known, Has, Opens,
         PanelOpens, Takes, panelVars
<1> QED BY <1>1, <1>2

\* A teardown fails whoever waits; a connection finds nobody waiting.
LEMMA LinkWaiting ==
    ASSUME IInv,
           TeardownBegins \/ TeardownEnds \/ Connects
    PROVE  Waiting'
<1>1. CASE TeardownBegins
  BY <1>1, SMT DEF IInv, TypeOK, Apart, Waiting, Known, Has, Opens,
         TeardownBegins, userVars, panelVars, holdVars
<1>2. CASE TeardownEnds
  BY <1>2, SMT DEF IInv, TypeOK, Apart, Waiting, Known, Has, Opens,
         TeardownEnds, panelVars, holdVars, FailsWaiter
<1>3. CASE Connects
  BY <1>3, SMT DEF IInv, TypeOK, Apart, Waiting, Known, Has, Opens,
         Connects, Holds, userVars, panelVars, holdVars
<1> QED BY <1>1, <1>2, <1>3

-----------------------------------------------------------------------------
(* Known.                                                                   *)

\* What a user takes it has, and what it lets go of it closes, or it came too
\* late or was left by a cancellation.
LEMMA UsersKnown ==
    ASSUME IInv, NEW u \in Users,
           UserActs(u)
    PROVE  Known'
<1>1. CASE OpenBegins(u)
  BY <1>1, SMT DEF IInv, TypeOK, Apart, Waiting, Known, Has, Minds, Keeping, Opens,
         OpenBegins, Free, WaitersOf, Handles, panelVars, holdVars
<1>2. CASE OpenWritten(u)
  BY <1>2, SMT DEF IInv, TypeOK, Apart, Waiting, Known, Has, Minds, Keeping, Opens,
         OpenWritten, Goes, panelVars, holdVars
<1>3. CASE OpenCrashes(u)
  BY <1>3, SMT DEF IInv, TypeOK, Apart, Waiting, Known, Has, Minds, Keeping, Opens,
         OpenCrashes, Leaves, Ends, Holds, panelVars, holdVars
<1>4. CASE OpenFails(u)
  BY <1>4, SMT DEF IInv, TypeOK, Apart, Waiting, Known, Has, Minds, Keeping, Opens,
         OpenFails, Leaves, Ends, Holds, Forgets, WaitersOf, panelVars, holdVars
<1>5. CASE OpenTimesOut(u)
  BY <1>5, SMT DEF IInv, TypeOK, Apart, Waiting, Known, Has, Minds, Keeping, Opens,
         OpenTimesOut, Leaves, Ends, Holds, Forgets, WaitersOf, panelVars, holdVars
<1>6. CASE OpenCancelled(u)
  BY <1>6, SMT DEF IInv, TypeOK, Apart, Waiting, Known, Has, Minds, Keeping, Opens,
         OpenCancelled, Leaves, Ends, Holds, GivesUp, panelVars, holdVars
<1>7. CASE Keeps(u)
  BY <1>7, SMT DEF IInv, TypeOK, Apart, Waiting, Known, Has, Minds, Keeping, Opens,
         Keeps, Leaves, Media, Takes, panelVars
<1>8. CASE RequestBegins(u)
  BY <1>8, SMT DEF IInv, TypeOK, Apart, Waiting, Known, Has, Minds, Keeping, Opens,
         RequestBegins, panelVars
<1>9. CASE RequestWritten(u)
  BY <1>9, SMT DEF IInv, TypeOK, Apart, Waiting, Known, Has, Minds, Keeping, Opens,
         RequestWritten, Goes, panelVars, holdVars
<1>10. CASE RequestTimesOut(u)
  BY <1>10, SMT DEF IInv, TypeOK, Apart, Waiting, Known, Has, Minds, Keeping, Opens,
         RequestTimesOut, Leaves, panelVars, holdVars
<1>11. CASE RequestReturns(u)
  BY <1>11, SMT DEF IInv, TypeOK, Apart, Waiting, Known, Has, Minds, Keeping, Opens,
         RequestReturns, Leaves, panelVars, holdVars
<1>12. CASE RequestCancelled(u)
  BY <1>12, SMT DEF IInv, TypeOK, Apart, Waiting, Known, Has, Minds, Keeping, Opens,
         RequestCancelled, Leaves, panelVars, holdVars
<1>13. CASE CloseBegins(u)
  BY <1>13, SMT DEF IInv, TypeOK, Apart, Waiting, Known, Has, Minds, Keeping, Opens,
         CloseBegins, Goes, Holds, panelVars, holdVars
<1>14. CASE CloseChannel(u)
  BY <1>14, SMT DEF IInv, TypeOK, Apart, Waiting, Known, Has, Minds, Keeping, Opens,
         CloseChannel, Holds, panelVars
<1>15. CASE CloseWritten(u)
  BY <1>15, SMT DEF IInv, TypeOK, Apart, Waiting, Known, Has, Minds, Keeping, Opens,
         CloseWritten, Leaves, Ends, Holds, panelVars, holdVars
<1>16. CASE CloseCut(u)
  BY <1>16, SMT DEF IInv, TypeOK, Apart, Waiting, Known, Has, Minds, Keeping, Opens,
         CloseCut, Leaves, GivesUp, Holds, panelVars
<1>17. CASE PanelAnswers(u)
  BY <1>17, SMT DEF IInv, TypeOK, Apart, Waiting, Known, Has, Minds, Keeping, Opens,
         PanelAnswers, Goes, panelVars, holdVars
<1> QED
  BY <1>1, <1>2, <1>3, <1>4, <1>5, <1>6, <1>7, <1>8, <1>9, <1>10, <1>11, <1>12,
     <1>13, <1>14, <1>15, <1>16, <1>17 DEF UserActs

\* What the panel opens is its own or was asked for.
LEMMA PanelKnown ==
    ASSUME IInv, NEW h \in Handles,
           PanelAcks(h) \/ PanelOpens(h)
    PROVE  Known'
<1>1. CASE PanelAcks(h)
  BY <1>1, SMT DEF IInv, TypeOK, Apart, Waiting, Known, Has, Minds, Keeping, Opens,
         PanelAcks, WaitersOf, panelVars, holdVars
<1>2. CASE PanelOpens(h)
  BY <1>2, SMT DEF IInv, TypeOK, Apart, Waiting, Known, Has, Minds, Keeping, Opens,
         PanelOpens, Takes, panelVars
<1> QED BY <1>1, <1>2

\* A connection starts with nothing in the pool.
LEMMA LinkKnown ==
    ASSUME IInv,
           TeardownBegins \/ TeardownEnds \/ Connects
    PROVE  Known'
<1>1. CASE TeardownBegins
  BY <1>1, SMT DEF IInv, TypeOK, Apart, Waiting, Known, Has, Minds, Keeping, Opens,
         TeardownBegins, userVars, panelVars, holdVars
<1>2. CASE TeardownEnds
  BY <1>2, SMT DEF IInv, TypeOK, Apart, Waiting, Known, Has, Minds, Keeping, Opens,
         TeardownEnds, panelVars, holdVars, FailsWaiter
<1>3. CASE Connects
  BY <1>3, SMT DEF IInv, TypeOK, Apart, Waiting, Known, Has, Minds, Keeping, Opens,
         Connects, Holds, userVars, panelVars, holdVars
<1> QED BY <1>1, <1>2, <1>3

-----------------------------------------------------------------------------
(* The invariant.                                                           *)

\* It holds at first.
LEMMA Initially == Init => IInv
BY ChannelConstants, ManagementHandle, SMT
   DEF Init, IInv, TypeOK, Apart, Waiting, Known, Has, Minds, Keeping, Opens, Users

\* It stays if nothing happens.
LEMMA Stuttering == IInv /\ UNCHANGED vars => IInv'
BY SMT DEF IInv, TypeOK, Apart, Waiting, Known, Has, Minds, Keeping, Opens,
         vars, userVars, panelVars, holdVars

\* Every step keeps it.
LEMMA Inductive == IInv /\ [Next]_vars => IInv'
<1> SUFFICES ASSUME IInv, [Next]_vars PROVE IInv'
  OBVIOUS
<1>1. ASSUME NEW u \in Users,
             \/ Steps(u) \/ OpenBegins(u) \/ OpenCancelled(u)
             \/ RequestCancelled(u) \/ CloseBegins(u) \/ CloseCut(u)
             \/ PanelAnswers(u)
      PROVE  IInv'
  <2>1. UserActs(u)
    BY <1>1 DEF Steps, UserActs
  <2> QED BY <2>1, UsersTypeOK, UsersApart, UsersWaiting, UsersKnown DEF IInv
<1>2. ASSUME NEW h \in Handles, PanelAcks(h) \/ PanelOpens(h)
      PROVE  IInv'
  BY <1>2, PanelTypeOK, PanelApart, PanelWaiting, PanelKnown DEF IInv
<1>3. ASSUME TeardownBegins \/ TeardownEnds \/ Connects
      PROVE  IInv'
  BY <1>3, LinkTypeOK, LinkApart, LinkWaiting, LinkKnown DEF IInv
<1>4. CASE UNCHANGED vars
  BY <1>4, Stuttering
<1>5. Named \subseteq Handles
  BY ChannelConstants DEF Handles
<1> QED BY <1>1, <1>2, <1>3, <1>4, <1>5 DEF Next

\* The handles are apart, the waiters where they should be and everything in the
\* pool accounted for in every state, whatever the width of a handle.
THEOREM Invariance == Spec => []IInv
BY Initially, Inductive, PTL DEF Spec

-----------------------------------------------------------------------------
(* What follows from it.                                                    *)

\* Every handle in the tables is one of the W handles.
THEOREM TypeCorrect == Spec => []TypeOK
<1>1. IInv => TypeOK
  BY DEF IInv
<1> QED BY <1>1, Invariance, PTL

\* What a user owns, by element.
LEMMA Owns ==
    ASSUME NEW u \in Users, NEW h
    PROVE  h \in Owned(u) <=> Has(u, h)
BY DEF Owned, Holds, Opening, Has, Opens

\* What a user owns are handles.
LEMMA OwnsHandles ==
    ASSUME NEW u \in Users, IInv
    PROVE  Owned(u) \subseteq Handles
BY DEF IInv, TypeOK, Owned, Holds, Opening

\* But for a handle that reserve_handle or the panel's OPEN took while it was in
\* use or the management's, no two users ever have one handle, and none that is in
\* use is handed out: _next_handle, open_channel, close_channel, the teardown.
THEOREM HandlesStayApart == Spec => []HandlesApart
<1>1. IInv => HandlesApart
  <2> SUFFICES ASSUME IInv, link = "up", NEW u \in Users, NEW h \in Owned(u), h \notin clash
               PROVE  /\ h \in pool /\ h # MGMT
                      /\ h \in Opening(u) => h \notin Holds(u) \cup theirs
                      /\ \A v \in Users \ {u} : h \notin Owned(v)
    BY DEF HandlesApart, Owned
  <2>1. h \in Handles \ clash /\ Has(u, h)
    BY Owns, OwnsHandles
  <2>2. h \in pool /\ h # MGMT
    BY <2>1 DEF IInv, Apart
  <2>3. h \in Opening(u) => h \notin Holds(u) \cup theirs
    BY <2>1 DEF IInv, Apart, Opening, Opens, Holds
  <2>4. ASSUME NEW v \in Users \ {u} PROVE h \notin Owned(v)
    BY <2>1, Owns DEF IInv, Apart
  <2> QED BY <2>2, <2>3, <2>4
<1> QED BY <1>1, Invariance, PTL

\* Nothing stays in the pool or open at the panel but what a user has, what came
\* too late and what a cancellation left: the error paths of open_channel,
\* request and close_channel.
THEOREM NothingEverLeaks == Spec => []NothingLeaks
<1>1. IInv => NothingLeaks
  <2> SUFFICES ASSUME IInv, link = "up"
               PROVE  /\ asked \cup open \subseteq late \cup lost
                             \cup UNION {Owned(u) \cup Shutting(u) : u \in Users}
                      /\ pool \subseteq lost \cup theirs \cup UNION {Owned(u) : u \in Users}
    BY DEF NothingLeaks
  <2>1. ASSUME NEW h \in asked \cup open
        PROVE  h \in late \cup lost \cup UNION {Owned(u) \cup Shutting(u) : u \in Users}
    <3>1. h \in late \/ h \in lost \/ \E u \in Users : Minds(u, h)
      BY <2>1 DEF IInv, Known
    <3>2. ASSUME NEW u \in Users, Minds(u, h) PROVE h \in Owned(u) \cup Shutting(u)
      BY <3>2, Owns DEF Minds, Has, Shutting
    <3> QED BY <3>1, <3>2
  <2>2. ASSUME NEW h \in pool
        PROVE  h \in lost \cup theirs \cup UNION {Owned(u) : u \in Users}
    <3>1. h \in lost \/ h \in theirs \/ \E u \in Users : Keeping(u, h)
      BY <2>2 DEF IInv, Known
    <3>2. ASSUME NEW u \in Users, Keeping(u, h) PROVE h \in Owned(u)
      BY <3>2, Owns DEF Keeping, Has
    <3> QED BY <3>1, <3>2
  <2> QED BY <2>1, <2>2
<1> QED BY <1>1, Invariance, PTL

\* After a teardown nobody waits for an answer, nor for an ack but on a handle
\* taken twice: _teardown with _fail_waiters.
THEOREM DeadLinkIsDeaf == Spec => []DownIsDeaf
<1>1. IInv => DownIsDeaf
  BY DEF IInv, Waiting, DownIsDeaf
<1> QED BY <1>1, Invariance, PTL

\* Whoever waits for an ack has its waiter in _open_waiters for as long as the
\* link lives, where the ack, or a teardown, finds it, unless its handle was taken
\* twice; and a waiter is failed by nothing but the end of the link: open_channel,
\* _dispatch, _fail_waiters.
THEOREM WaitersListed == Spec => []Waiting
<1>1. IInv => Waiting
  BY DEF IInv
<1> QED BY <1>1, Invariance, PTL
================================================================================
