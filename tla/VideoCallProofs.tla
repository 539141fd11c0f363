---------------------------- MODULE VideoCallProofs ----------------------------
(***************************************************************************)
(* That a call which is closed hears nothing more, sends nothing after its *)
(* RELEASE and forgets nothing the panel has still to be told, wherever    *)
(* open() or close() is cut short and however long the queue may grow, and *)
(* that the end of its packets is never lost.                              *)
(*                                                                         *)
(* Where the panel opens a second media channel in a call the first is     *)
(* left routed and open: _on_incoming_channel keeps the last handle only.  *)
(* What the theorems say of the panel's channels is therefore said of a    *)
(* call in which it has opened one (OneChannel); what they say of the      *)
(* call's own holds whatever it opens.                                     *)
(***************************************************************************)
EXTENDS VideoCall, SequenceTheorems, TLAPS

\* So far the panel has opened at most one media channel in the call.
OneChannel == \A r, s \in given \cap Remotes : r = s

\* The iteration of the packets is over, or will be.
Sentinel == consumer = "done" \/ \E n \in DOMAIN queue : queue[n] = "end"

\* The types of the flags, of the sequences, of the places and of the sets.
Flags ==
    /\ cancelled \in BOOLEAN /\ closed \in BOOLEAN
    /\ incoming \in BOOLEAN /\ routed \in BOOLEAN /\ failed \in BOOLEAN
    /\ owed \in BOOLEAN /\ told \in BOOLEAN /\ quiet \in BOOLEAN

Lines ==
    /\ pending \in Seq(Handles)
    /\ queue \in Seq({"media", "end"}) /\ Len(queue) <= QueueSize

Places ==
    /\ stage \in Opening \cup Closing \cup {"new", "up", "closed", "cut"}
    /\ frame \in {"none", "queued", "sent", "answered", "raised"}
    /\ hangup \in {"no", "release", "fin"}
    /\ tasks \in [Tasks -> {"none", "waiting", "queued", "sent", "done"}]
    /\ consumer \in {"none", "reading", "done"}
    /\ link \in {"up", "broken", "lost"}
    /\ call \in {"none", "on", "over"}

Sets ==
    /\ known \subseteq Own
    /\ remote \in Remotes \cup {NoHandle}
    /\ handlers \subseteq Handles /\ panel \subseteq Handles /\ given \subseteq Handles

\* close() has begun, or it has not and owes nothing yet.
Begun ==
    /\ closed <=> stage \in Closing \cup {"closed", "cut"}
    /\ ~closed => pending = <<>>
    /\ stage = "channels" /\ frame # "none" => pending # <<>>

\* The watchers are created with the consumer.  What they queue to end it, and
\* what close() does, is not lost to the media that still come.
Ends ==
    /\ consumer = "none" => \A t \in Tasks : tasks[t] = "none"
    /\ tasks["release"] = "done" \/ tasks["silence"] = "done" => Sentinel
    /\ closed /\ (OneChannel \/ consumer # "none") => Sentinel

\* Once close() has begun the call is out of the tables, but for a channel of
\* the panel that another has replaced; before, every other handler is one that
\* it will withdraw.
Deaf ==
    /\ closed => handlers \subseteq Remotes /\ ~incoming /\ ~routed
    /\ closed /\ OneChannel => handlers = {}
    /\ ~closed => handlers \subseteq known \cup Remotes
    /\ ~closed /\ OneChannel => handlers \subseteq known \cup ({remote} \cap Remotes)
    /\ ~closed => known \cup ({remote} \cap Remotes) \subseteq given

\* The RELEASE is sent when the tasks have ended, and nothing starts one then.
Still ==
    /\ ReleaseIsLast
    /\ told => closed
    /\ stage \in {"release", "channels"} => AllEnded

\* A channel the panel has is known, to be closed, or one of its own that was
\* replaced.  The CLOSE or RELEASE that is being sent is off the list when it is
\* written.
Kept ==
    /\ link = "up" =>
          /\ \A h \in given \cap panel :
                h \notin Remotes \/ OneChannel => h \in known \/ h = remote \/ InPending(h)
          /\ closed /\ call = "on" /\ ~failed => owed
          /\ stage = "release" /\ frame = "sent" => call = "over"
          /\ stage = "channels" /\ frame = "sent" => Head(pending) \notin panel
    /\ ~closed => given \subseteq known \cup Remotes
    /\ ~closed /\ OneChannel => given \subseteq known \cup ({remote} \cap Remotes)

\* The inductive invariant.
Base == Flags /\ Lines /\ Places /\ Sets /\ Begun /\ Still
IInv == Base /\ Ends /\ Deaf /\ Kept

\* They are the type invariant.
LEMMA Types == TypeOK <=> Flags /\ Lines /\ Places /\ Sets
BY DEF TypeOK, Flags, Lines, Places, Sets

-----------------------------------------------------------------------------
(* The queue and the list.                                                  *)

\* What is put on the queue is on it, and the queue keeps its bound.
LEMMA Putting ==
    ASSUME NEW q \in Seq({"media", "end"}), Len(q) <= QueueSize, NEW x \in {"media", "end"}
    PROVE  /\ Put(q, x) \in Seq({"media", "end"}) /\ Len(Put(q, x)) <= QueueSize
           /\ \E n \in DOMAIN Put(q, x) : Put(q, x)[n] = x
<1> DEFINE r == IF Len(q) = QueueSize THEN Tail(q) ELSE q
<1>1. r \in Seq({"media", "end"}) /\ Len(r) < QueueSize
  BY CallConstants, SMT
<1>2. Put(q, x) = Append(r, x)
  BY DEF Put
<1> HIDE DEF r
<1>3. Len(Append(r, x)) = Len(r) + 1 /\ Append(r, x)[Len(r) + 1] = x
  BY <1>1, SMT
<1> QED BY <1>1, <1>2, <1>3, CallConstants, SMT

\* What is left of it after the sentinel.
LEMMA Emptying ==
    ASSUME Lines, NEW n \in DOMAIN queue
    PROVE  /\ SubSeq(queue, n + 1, Len(queue)) \in Seq({"media", "end"})
           /\ Len(SubSeq(queue, n + 1, Len(queue))) <= QueueSize
<1>1. n \in 1..Len(queue) /\ Len(queue) \in Nat /\ \A i \in 1..Len(queue) : queue[i] \in {"media", "end"}
  BY DEF Lines
<1>2. n + 1 \in Int /\ Len(queue) \in Int /\ \A i \in (n + 1)..Len(queue) : queue[i] \in {"media", "end"}
  BY <1>1
<1>3. /\ SubSeq(queue, n + 1, Len(queue)) \in Seq({"media", "end"})
      /\ Len(SubSeq(queue, n + 1, Len(queue)))
            = IF n + 1 <= Len(queue) THEN Len(queue) - (n + 1) + 1 ELSE 0
  BY <1>2, SubSeqProperties
<1> QED BY <1>1, <1>3, CallConstants DEF Lines

\* Two lists one after the other hold what each of them holds.
LEMMA Joining ==
    ASSUME NEW s \in Seq(Handles), NEW t \in Seq(Handles)
    PROVE  /\ s \o t \in Seq(Handles)
           /\ \A h : (\E n \in DOMAIN s : s[n] = h) \/ (\E n \in DOMAIN t : t[n] = h)
                     => \E n \in DOMAIN (s \o t) : (s \o t)[n] = h
<1>1. /\ s \o t \in Seq(Handles) /\ Len(s \o t) = Len(s) + Len(t)
      /\ \A i \in 1..(Len(s) + Len(t)) :
            (s \o t)[i] = IF i <= Len(s) THEN s[i] ELSE t[i - Len(s)]
  BY ConcatProperties
<1>2. /\ Len(s) \in Nat /\ Len(t) \in Nat /\ DOMAIN s = 1..Len(s) /\ DOMAIN t = 1..Len(t)
      /\ DOMAIN (s \o t) = 1..(Len(s) + Len(t))
  BY <1>1
<1>3. ASSUME NEW n \in DOMAIN s PROVE n \in DOMAIN (s \o t) /\ (s \o t)[n] = s[n]
  BY <1>1, <1>2
<1>4. ASSUME NEW n \in DOMAIN t
      PROVE  n + Len(s) \in DOMAIN (s \o t) /\ (s \o t)[n + Len(s)] = t[n]
  BY <1>1, <1>2
<1> QED BY <1>1, <1>3, <1>4

\* The list holds the handle.
On(s, h) == \E n \in DOMAIN s : s[n] = h

LEMMA Joined ==
    ASSUME NEW s \in Seq(Handles), NEW t \in Seq(Handles)
    PROVE  s \o t \in Seq(Handles) /\ \A h : On(s, h) \/ On(t, h) => On(s \o t, h)
BY Joining DEF On

\* A list of one.
LEMMA Single ==
    ASSUME NEW h \in Handles
    PROVE  <<h>> \in Seq(Handles) /\ On(<<h>>, h)
<1>1. 1 \in DOMAIN <<h>> /\ <<h>>[1] = h
  OBVIOUS
<1> QED BY <1>1 DEF On

\* Every handle the call has at hand is on the list that close() makes.
LEMMA Listing ==
    ASSUME Sets
    PROVE  /\ Attributes \in Seq(Handles)
           /\ \A h \in known \cup ({remote} \cap Remotes) :
                 \E n \in DOMAIN Attributes : Attributes[n] = h
<1> DEFINE Set(h) == IF h \in known THEN <<h>> ELSE <<>>
           rem == IF remote = NoHandle THEN <<>> ELSE <<remote>>
           s1 == Set("audio") \o Set("video")
           s2 == s1 \o Set("media")
           s3 == s2 \o rem
           s4 == s3 \o Set("udp")
<1>1. Attributes = s4
  BY DEF Attributes
<1>2. \A h \in Own : Set(h) \in Seq(Handles) /\ (h \in known => On(Set(h), h))
  <2>1. ASSUME NEW h \in Own, h \in known PROVE Set(h) \in Seq(Handles) /\ On(Set(h), h)
    BY <2>1, Single DEF Handles
  <2>2. ASSUME NEW h \in Own, h \notin known PROVE Set(h) \in Seq(Handles)
    BY <2>2
  <2> QED BY <2>1, <2>2
<1>3. rem \in Seq(Handles) /\ (remote \in Remotes => On(rem, remote))
  <2>1. CASE remote \in Remotes
    BY <2>1, CallConstants, Single DEF Handles
  <2>2. CASE remote = NoHandle
    BY <2>2, CallConstants
  <2> QED BY <2>1, <2>2 DEF Sets
<1>4. "audio" \in Own /\ "video" \in Own /\ "media" \in Own /\ "udp" \in Own
  BY DEF Own
<1> HIDE DEF Set, rem
<1>5. s1 \in Seq(Handles) /\ \A h : On(Set("audio"), h) \/ On(Set("video"), h) => On(s1, h)
  BY <1>2, <1>4, Joined
<1> HIDE DEF s1
<1>6. s2 \in Seq(Handles) /\ \A h : On(s1, h) \/ On(Set("media"), h) => On(s2, h)
  BY <1>2, <1>4, <1>5, Joined
<1> HIDE DEF s2
<1>7. s3 \in Seq(Handles) /\ \A h : On(s2, h) \/ On(rem, h) => On(s3, h)
  BY <1>3, <1>6, Joined
<1> HIDE DEF s3
<1>8. s4 \in Seq(Handles) /\ \A h : On(s3, h) \/ On(Set("udp"), h) => On(s4, h)
  BY <1>2, <1>4, <1>7, Joined
<1> HIDE DEF s4
<1>9. known \subseteq {"udp", "audio", "video", "media"}
  BY DEF Sets, Own
<1>10. \A h \in known \cup ({remote} \cap Remotes) : On(s4, h)
  BY <1>2, <1>3, <1>4, <1>5, <1>6, <1>7, <1>8, <1>9
<1> QED BY <1>1, <1>8, <1>10 DEF On

\* The handles there are.
LEMMA Members ==
    /\ Own \subseteq Handles /\ Remotes \subseteq Handles
    /\ {"udp"} \subseteq Own /\ {"audio"} \subseteq Own /\ {"video", "media"} \subseteq Own
    /\ \A s \in OverChannel : s \in Own
BY DEF Own, Handles, OverChannel

\* What is left of a list is a list, and lacks its head only.
LEMMA Rest ==
    ASSUME Lines, pending # <<>>
    PROVE  Tail(pending) \in Seq(Handles) /\ Head(pending) \in Handles
BY HeadTailProperties DEF Lines

\* Whatever is on the list is its head or still on what is left.
LEMMA Left ==
    ASSUME Lines, pending # <<>>, NEW n \in DOMAIN pending
    PROVE  \/ pending[n] = Head(pending)
           \/ \E m \in DOMAIN Tail(pending) : Tail(pending)[m] = pending[n]
<1>1. /\ Tail(pending) \in Seq(Handles) /\ Len(Tail(pending)) = Len(pending) - 1
      /\ \A i \in 1..Len(Tail(pending)) : Tail(pending)[i] = pending[i + 1]
  BY HeadTailProperties DEF Lines
<1>2. /\ Len(pending) \in Nat /\ DOMAIN pending = 1..Len(pending) /\ Head(pending) = pending[1]
      /\ DOMAIN Tail(pending) = 1..(Len(pending) - 1)
  BY <1>1 DEF Lines
<1>3. ASSUME n # 1
      PROVE  n - 1 \in DOMAIN Tail(pending) /\ Tail(pending)[n - 1] = pending[n]
  BY <1>1, <1>2, <1>3
<1> QED BY <1>2, <1>3

\* What may be put on the queue.
LEMMA Puts ==
    ASSUME Lines
    PROVE  \A x \in {"media", "end"} :
              /\ Put(queue, x) \in Seq({"media", "end"}) /\ Len(Put(queue, x)) <= QueueSize
              /\ \E n \in DOMAIN Put(queue, x) : Put(queue, x)[n] = x
BY Putting DEF Lines

-----------------------------------------------------------------------------
(* Every step keeps the invariant, part by part.                            *)

\* The flags stay flags.
LEMMA FlagsKept ==
    ASSUME Base, Next
    PROVE  Flags'
<1> USE DEF Base, ownVars, sessionVars, panelVars, Flags
<1>1. CASE Open
  BY <1>1, Zenon DEF Open, Enters, Written, MayRaise, MayWrite
<1>2. CASE Proceeds
  BY <1>2, Zenon DEF Proceeds, Answered, Keeps, NextStage, Enters, Written, MayRaise, MayWrite
<1>3. CASE Resumes
  BY <1>3, Zenon DEF Resumes, Written
<1>4. CASE Up
  BY <1>4, Zenon DEF Up
<1>5. CASE Fails
  BY <1>5, Zenon DEF Fails, Withdraw
<1>6. CASE CancelOpen
  BY <1>6, Zenon DEF CancelOpen, Withdraw
<1>7. CASE FinIgnored
  BY <1>7, Zenon DEF FinIgnored
<1>8. CASE Close
  BY <1>8, Zenon DEF Close, Withdraw
<1>9. CASE CloseAgain
  BY <1>9, Zenon DEF CloseAgain
<1>10. CASE CancelClose
  BY <1>10, Zenon DEF CancelClose, Ended, First, Running, CutShort
<1>11. CASE EndTask
  BY <1>11, Zenon DEF EndTask, Ended, First, Running, CutShort
<1>12. CASE SendRelease
  BY <1>12, Zenon DEF SendRelease, ReleaseRaised, ReleaseWritten, AllEnded, Running, MayRaise, MayWrite
<1>13. CASE ReleaseResumes
  BY <1>13, Zenon DEF ReleaseResumes, ReleaseRaised, ReleaseWritten, CutShort
<1>14. CASE CloseChannel
  BY <1>14, Zenon DEF CloseChannel, ChannelDone, ChannelWritten, MayRaise, MayWrite
<1>15. CASE ChannelResumes
  BY <1>15, Zenon DEF ChannelResumes, ChannelDone, ChannelWritten, CutShort
<1>16. CASE CloseReturns
  BY <1>16, Zenon DEF CloseReturns
<1>17. CASE WatchRelease
  BY <1>17, Zenon DEF WatchRelease
<1>18. CASE WatchMedia
  BY <1>18, Zenon DEF WatchMedia
<1>19. CASE Refresh
  BY <1>19, Zenon DEF Refresh, MayRaise, MayWrite
<1>20. CASE Consume
  BY <1>20, Zenon DEF Consume, EndsAt
<1>21. CASE PanelAnswers
  BY <1>21, Zenon DEF PanelAnswers
<1>22. CASE PanelHangsUp
  BY <1>22, Zenon DEF PanelHangsUp
<1>23. CASE Media
  BY <1>23, Zenon DEF Media
<1>24. CASE Silence
  BY <1>24, Zenon DEF Silence
<1>25. CASE Displaced
  BY <1>25, Zenon DEF Displaced
<1>26. CASE PeerGone
  BY <1>26, Zenon DEF PeerGone
<1>27. CASE Teardown
  BY <1>27, Zenon DEF Teardown
<1>28. ASSUME NEW r \in Remotes, IncomingChannel(r) PROVE Flags'
  BY <1>28, Zenon DEF IncomingChannel
<1> QED
  BY <1>1, <1>2, <1>3, <1>4, <1>5, <1>6, <1>7, <1>8, <1>9, <1>10, <1>11, <1>12,
     <1>13, <1>14, <1>15, <1>16, <1>17, <1>18, <1>19, <1>20, <1>21, <1>22, <1>23, <1>24,
     <1>25, <1>26, <1>27, <1>28 DEF Next

\* Every task is somewhere.
LEMMA PlacesKept ==
    ASSUME Base, Next
    PROVE  Places'
<1> USE DEF Base, ownVars, sessionVars, panelVars, Places, Opening, Closing, OverCtp, OverChannel, Tasks
<1>1. CASE Open
  BY <1>1, SMT DEF Open, Enters, Written, MayRaise, MayWrite
<1>2. CASE Proceeds
  BY <1>2, SMT DEF Proceeds, Answered, Keeps, NextStage, Enters, Written, MayRaise, MayWrite
<1>3. CASE Resumes
  BY <1>3, SMT DEF Resumes, Written
<1>4. CASE Up
  BY <1>4, SMT DEF Up
<1>5. CASE Fails
  BY <1>5, SMT DEF Fails, Withdraw
<1>6. CASE CancelOpen
  BY <1>6, SMT DEF CancelOpen, Withdraw
<1>7. CASE FinIgnored
  BY <1>7, SMT DEF FinIgnored
<1>8. CASE Close
  BY <1>8, SMT DEF Close, Withdraw
<1>9. CASE CloseAgain
  BY <1>9, SMT DEF CloseAgain
<1>10. CASE CancelClose
  BY <1>10, SMT DEF CancelClose, Ended, First, Running, CutShort
<1>11. CASE EndTask
  BY <1>11, SMT DEF EndTask, Ended, First, Running, CutShort
<1>12. CASE SendRelease
  BY <1>12, SMT DEF SendRelease, ReleaseRaised, ReleaseWritten, AllEnded, Running, MayRaise, MayWrite
<1>13. CASE ReleaseResumes
  BY <1>13, SMT DEF ReleaseResumes, ReleaseRaised, ReleaseWritten, CutShort
<1>14. CASE CloseChannel
  BY <1>14, SMT DEF CloseChannel, ChannelDone, ChannelWritten, MayRaise, MayWrite
<1>15. CASE ChannelResumes
  BY <1>15, SMT DEF ChannelResumes, ChannelDone, ChannelWritten, CutShort
<1>16. CASE CloseReturns
  BY <1>16, SMT DEF CloseReturns
<1>17. CASE WatchRelease
  BY <1>17, SMT DEF WatchRelease
<1>18. CASE WatchMedia
  BY <1>18, SMT DEF WatchMedia
<1>19. CASE Refresh
  BY <1>19, SMT DEF Refresh, MayRaise, MayWrite
<1>20. CASE Consume
  BY <1>20, SMT DEF Consume, EndsAt
<1>21. CASE PanelAnswers
  BY <1>21, SMT DEF PanelAnswers
<1>22. CASE PanelHangsUp
  BY <1>22, SMT DEF PanelHangsUp
<1>23. CASE Media
  BY <1>23, SMT DEF Media
<1>24. CASE Silence
  BY <1>24, SMT DEF Silence
<1>25. CASE Displaced
  BY <1>25, SMT DEF Displaced
<1>26. CASE PeerGone
  BY <1>26, SMT DEF PeerGone
<1>27. CASE Teardown
  BY <1>27, SMT DEF Teardown
<1>28. ASSUME NEW r \in Remotes, IncomingChannel(r) PROVE Places'
  BY <1>28, SMT DEF IncomingChannel
<1> QED
  BY <1>1, <1>2, <1>3, <1>4, <1>5, <1>6, <1>7, <1>8, <1>9, <1>10, <1>11, <1>12,
     <1>13, <1>14, <1>15, <1>16, <1>17, <1>18, <1>19, <1>20, <1>21, <1>22, <1>23, <1>24,
     <1>25, <1>26, <1>27, <1>28 DEF Next

\* The handles are handles.
LEMMA SetsKept ==
    ASSUME Base, Next
    PROVE  Sets'
<1> USE DEF Base, ownVars, sessionVars, panelVars, Sets
<1>1. CASE Open
  BY Members, <1>1, SMT DEF Open, Enters, Written, MayRaise, MayWrite
<1>2. CASE Proceeds
  BY Members, <1>2, SMT DEF Proceeds, Answered, Keeps, NextStage, Enters, Written, MayRaise, MayWrite
<1>3. CASE Resumes
  BY Members, <1>3, SMT DEF Resumes, Written
<1>4. CASE Up
  BY Members, <1>4, SMT DEF Up
<1>5. CASE Fails
  BY Members, <1>5, SMT DEF Fails, Withdraw
<1>6. CASE CancelOpen
  BY Members, <1>6, SMT DEF CancelOpen, Withdraw
<1>7. CASE FinIgnored
  BY Members, <1>7, SMT DEF FinIgnored
<1>8. CASE Close
  BY Members, <1>8, SMT DEF Close, Withdraw
<1>9. CASE CloseAgain
  BY Members, <1>9, SMT DEF CloseAgain
<1>10. CASE CancelClose
  BY Members, <1>10, SMT DEF CancelClose, Ended, First, Running, CutShort
<1>11. CASE EndTask
  BY Members, <1>11, SMT DEF EndTask, Ended, First, Running, CutShort
<1>12. CASE SendRelease
  BY Members, <1>12, SMT DEF SendRelease, ReleaseRaised, ReleaseWritten, AllEnded, Running, MayRaise, MayWrite
<1>13. CASE ReleaseResumes
  BY Members, <1>13, SMT DEF ReleaseResumes, ReleaseRaised, ReleaseWritten, CutShort
<1>14. CASE CloseChannel
  BY Members, <1>14, SMT DEF CloseChannel, ChannelDone, ChannelWritten, MayRaise, MayWrite
<1>15. CASE ChannelResumes
  BY Members, <1>15, SMT DEF ChannelResumes, ChannelDone, ChannelWritten, CutShort
<1>16. CASE CloseReturns
  BY Members, <1>16, SMT DEF CloseReturns
<1>17. CASE WatchRelease
  BY Members, <1>17, SMT DEF WatchRelease
<1>18. CASE WatchMedia
  BY Members, <1>18, SMT DEF WatchMedia
<1>19. CASE Refresh
  BY Members, <1>19, SMT DEF Refresh, MayRaise, MayWrite
<1>20. CASE Consume
  BY Members, <1>20, SMT DEF Consume, EndsAt
<1>21. CASE PanelAnswers
  BY Members, <1>21, SMT DEF PanelAnswers
<1>22. CASE PanelHangsUp
  BY Members, <1>22, SMT DEF PanelHangsUp
<1>23. CASE Media
  BY Members, <1>23, SMT DEF Media
<1>24. CASE Silence
  BY Members, <1>24, SMT DEF Silence
<1>25. CASE Displaced
  BY Members, <1>25, SMT DEF Displaced
<1>26. CASE PeerGone
  BY Members, <1>26, SMT DEF PeerGone
<1>27. CASE Teardown
  BY Members, <1>27, SMT DEF Teardown
<1>28. ASSUME NEW r \in Remotes, IncomingChannel(r) PROVE Sets'
  BY Members, <1>28, SMT DEF IncomingChannel
<1> QED
  BY <1>1, <1>2, <1>3, <1>4, <1>5, <1>6, <1>7, <1>8, <1>9, <1>10, <1>11, <1>12,
     <1>13, <1>14, <1>15, <1>16, <1>17, <1>18, <1>19, <1>20, <1>21, <1>22, <1>23, <1>24,
     <1>25, <1>26, <1>27, <1>28 DEF Next

\* The queue keeps its bound and the list is one of handles.
LEMMA LinesKept ==
    ASSUME Base, Next
    PROVE  Lines'
<1> USE DEF Base, ownVars, sessionVars, panelVars, Lines, Begun, Closing
<1>1. CASE Open
  BY Puts, <1>1, SMT DEF Open, Enters, Written, MayRaise, MayWrite
<1>2. CASE Proceeds
  BY Puts, <1>2, SMT DEF Proceeds, Answered, Keeps, NextStage, Enters, Written, MayRaise, MayWrite
<1>3. CASE Resumes
  BY Puts, <1>3, SMT DEF Resumes, Written
<1>4. CASE Up
  BY Puts, <1>4, SMT DEF Up
<1>5. CASE Fails
  BY Puts, Listing, <1>5, SMT DEF Fails, Withdraw
<1>6. CASE CancelOpen
  BY Puts, Listing, <1>6, SMT DEF CancelOpen, Withdraw
<1>7. CASE FinIgnored
  BY Puts, <1>7, SMT DEF FinIgnored
<1>8. CASE Close
  BY Puts, Listing, <1>8, SMT DEF Close, Withdraw
<1>9. CASE CloseAgain
  BY Puts, <1>9, SMT DEF CloseAgain
<1>10. CASE CancelClose
  BY Puts, <1>10, SMT DEF CancelClose, Ended, First, Running, CutShort
<1>11. CASE EndTask
  BY Puts, <1>11, SMT DEF EndTask, Ended, First, Running, CutShort
<1>12. CASE SendRelease
  BY Puts, <1>12, SMT DEF SendRelease, ReleaseRaised, ReleaseWritten, AllEnded, Running, MayRaise, MayWrite
<1>13. CASE ReleaseResumes
  BY Puts, <1>13, SMT DEF ReleaseResumes, ReleaseRaised, ReleaseWritten, CutShort
<1>14. CASE CloseChannel
  BY Rest, <1>14, SMT DEF CloseChannel, ChannelDone, ChannelWritten, MayRaise, MayWrite
<1>15. CASE ChannelResumes
  BY Rest, <1>15, SMT DEF ChannelResumes, ChannelDone, ChannelWritten, CutShort
<1>16. CASE CloseReturns
  BY Puts, <1>16, SMT DEF CloseReturns
<1>17. CASE WatchRelease
  BY Puts, <1>17, SMT DEF WatchRelease
<1>18. CASE WatchMedia
  BY Puts, <1>18, SMT DEF WatchMedia
<1>19. CASE Refresh
  BY Puts, <1>19, SMT DEF Refresh, MayRaise, MayWrite
<1>20. CASE Consume
  <2>1. UNCHANGED pending
    BY <1>20 DEF Consume
  <2>2. CASE queue' = <<>>
    BY <2>1, <2>2, CallConstants
  <2>3. ASSUME NEW n \in DOMAIN queue, queue' = SubSeq(queue, n + 1, Len(queue))
        PROVE  Lines'
    BY <2>1, <2>3, Emptying
  <2> QED BY <1>20, <2>2, <2>3 DEF Consume
<1>21. CASE PanelAnswers
  BY Puts, <1>21, SMT DEF PanelAnswers
<1>22. CASE PanelHangsUp
  BY Puts, <1>22, SMT DEF PanelHangsUp
<1>23. CASE Media
  BY Puts, <1>23, SMT DEF Media
<1>24. CASE Silence
  BY Puts, <1>24, SMT DEF Silence
<1>25. CASE Displaced
  BY Puts, <1>25, SMT DEF Displaced
<1>26. CASE PeerGone
  BY Puts, <1>26, SMT DEF PeerGone
<1>27. CASE Teardown
  BY Puts, <1>27, SMT DEF Teardown
<1>28. ASSUME NEW r \in Remotes, IncomingChannel(r) PROVE Lines'
  BY Puts, <1>28, SMT DEF IncomingChannel
<1> QED
  BY <1>1, <1>2, <1>3, <1>4, <1>5, <1>6, <1>7, <1>8, <1>9, <1>10, <1>11, <1>12,
     <1>13, <1>14, <1>15, <1>16, <1>17, <1>18, <1>19, <1>20, <1>21, <1>22, <1>23, <1>24,
     <1>25, <1>26, <1>27, <1>28 DEF Next

\* Nothing is owed before close() has begun, and a CLOSE is sent for a handle on
\* the list.
LEMMA BegunKept ==
    ASSUME Base, Next
    PROVE  Begun'
<1> USE DEF Base, ownVars, sessionVars, panelVars, Begun, Opening, Closing, OverCtp, OverChannel
<1>1. CASE Open
  BY Listing, <1>1, SMT DEF Open, Enters, Written, MayRaise, MayWrite
<1>2. CASE Proceeds
  BY Listing, <1>2, SMT DEF Proceeds, Answered, Keeps, NextStage, Enters, Written, MayRaise, MayWrite
<1>3. CASE Resumes
  BY Listing, <1>3, SMT DEF Resumes, Written
<1>4. CASE Up
  BY Listing, <1>4, SMT DEF Up
<1>5. CASE Fails
  BY Listing, <1>5, SMT DEF Fails, Withdraw
<1>6. CASE CancelOpen
  BY Listing, <1>6, SMT DEF CancelOpen, Withdraw
<1>7. CASE FinIgnored
  BY Listing, <1>7, SMT DEF FinIgnored
<1>8. CASE Close
  BY Listing, <1>8, SMT DEF Close, Withdraw
<1>9. CASE CloseAgain
  BY Listing, <1>9, SMT DEF CloseAgain
<1>10. CASE CancelClose
  BY Listing, <1>10, SMT DEF CancelClose, Ended, First, Running, CutShort
<1>11. CASE EndTask
  BY Listing, <1>11, SMT DEF EndTask, Ended, First, Running, CutShort
<1>12. CASE SendRelease
  BY Listing, <1>12, SMT DEF SendRelease, ReleaseRaised, ReleaseWritten, AllEnded, Running, MayRaise, MayWrite
<1>13. CASE ReleaseResumes
  BY Listing, <1>13, SMT DEF ReleaseResumes, ReleaseRaised, ReleaseWritten, CutShort
<1>14. CASE CloseChannel
  BY Listing, <1>14, SMT DEF CloseChannel, ChannelDone, ChannelWritten, MayRaise, MayWrite
<1>15. CASE ChannelResumes
  BY Listing, <1>15, SMT DEF ChannelResumes, ChannelDone, ChannelWritten, CutShort
<1>16. CASE CloseReturns
  BY Listing, <1>16, SMT DEF CloseReturns
<1>17. CASE WatchRelease
  BY Listing, <1>17, SMT DEF WatchRelease
<1>18. CASE WatchMedia
  BY Listing, <1>18, SMT DEF WatchMedia
<1>19. CASE Refresh
  BY Listing, <1>19, SMT DEF Refresh, MayRaise, MayWrite
<1>20. CASE Consume
  BY Listing, <1>20, SMT DEF Consume, EndsAt
<1>21. CASE PanelAnswers
  BY Listing, <1>21, SMT DEF PanelAnswers
<1>22. CASE PanelHangsUp
  BY Listing, <1>22, SMT DEF PanelHangsUp
<1>23. CASE Media
  BY Listing, <1>23, SMT DEF Media
<1>24. CASE Silence
  BY Listing, <1>24, SMT DEF Silence
<1>25. CASE Displaced
  BY Listing, <1>25, SMT DEF Displaced
<1>26. CASE PeerGone
  BY Listing, <1>26, SMT DEF PeerGone
<1>27. CASE Teardown
  BY Listing, <1>27, SMT DEF Teardown
<1>28. ASSUME NEW r \in Remotes, IncomingChannel(r) PROVE Begun'
  BY Listing, <1>28, SMT DEF IncomingChannel
<1> QED
  BY <1>1, <1>2, <1>3, <1>4, <1>5, <1>6, <1>7, <1>8, <1>9, <1>10, <1>11, <1>12,
     <1>13, <1>14, <1>15, <1>16, <1>17, <1>18, <1>19, <1>20, <1>21, <1>22, <1>23, <1>24,
     <1>25, <1>26, <1>27, <1>28 DEF Next

\* Nothing starts a task once the RELEASE is due.
LEMMA StillKept ==
    ASSUME Base, Next
    PROVE  Still'
<1> USE DEF Base, ownVars, sessionVars, panelVars, Places, Tasks, Still, ReleaseIsLast, AllEnded, Running, Begun, Opening, Closing, OverCtp, OverChannel
<1>1. CASE Open
  BY <1>1, SMT DEF Open, Enters, Written, MayRaise, MayWrite
<1>2. CASE Proceeds
  BY <1>2, SMT DEF Proceeds, Answered, Keeps, NextStage, Enters, Written, MayRaise, MayWrite
<1>3. CASE Resumes
  BY <1>3, SMT DEF Resumes, Written
<1>4. CASE Up
  BY <1>4, SMT DEF Up
<1>5. CASE Fails
  BY <1>5, SMT DEF Fails, Withdraw
<1>6. CASE CancelOpen
  BY <1>6, SMT DEF CancelOpen, Withdraw
<1>7. CASE FinIgnored
  BY <1>7, SMT DEF FinIgnored
<1>8. CASE Close
  BY <1>8, SMT DEF Close, Withdraw
<1>9. CASE CloseAgain
  BY <1>9, SMT DEF CloseAgain
<1>10. CASE CancelClose
  BY <1>10, SMT DEF CancelClose, Ended, First, Running, CutShort
<1>11. CASE EndTask
  BY <1>11, SMT DEF EndTask, Ended, First, Running, CutShort
<1>12. CASE SendRelease
  BY <1>12, SMT DEF SendRelease, ReleaseRaised, ReleaseWritten, AllEnded, Running, MayRaise, MayWrite
<1>13. CASE ReleaseResumes
  BY <1>13, SMT DEF ReleaseResumes, ReleaseRaised, ReleaseWritten, CutShort
<1>14. CASE CloseChannel
  BY <1>14, SMT DEF CloseChannel, ChannelDone, ChannelWritten, MayRaise, MayWrite
<1>15. CASE ChannelResumes
  BY <1>15, SMT DEF ChannelResumes, ChannelDone, ChannelWritten, CutShort
<1>16. CASE CloseReturns
  BY <1>16, SMT DEF CloseReturns
<1>17. CASE WatchRelease
  BY <1>17, SMT DEF WatchRelease
<1>18. CASE WatchMedia
  BY <1>18, SMT DEF WatchMedia
<1>19. CASE Refresh
  BY <1>19, SMT DEF Refresh, MayRaise, MayWrite
<1>20. CASE Consume
  BY <1>20, SMT DEF Consume, EndsAt
<1>21. CASE PanelAnswers
  BY <1>21, SMT DEF PanelAnswers
<1>22. CASE PanelHangsUp
  BY <1>22, SMT DEF PanelHangsUp
<1>23. CASE Media
  BY <1>23, SMT DEF Media
<1>24. CASE Silence
  BY <1>24, SMT DEF Silence
<1>25. CASE Displaced
  BY <1>25, SMT DEF Displaced
<1>26. CASE PeerGone
  BY <1>26, SMT DEF PeerGone
<1>27. CASE Teardown
  BY <1>27, SMT DEF Teardown
<1>28. ASSUME NEW r \in Remotes, IncomingChannel(r) PROVE Still'
  BY <1>28, SMT DEF IncomingChannel
<1> QED
  BY <1>1, <1>2, <1>3, <1>4, <1>5, <1>6, <1>7, <1>8, <1>9, <1>10, <1>11, <1>12,
     <1>13, <1>14, <1>15, <1>16, <1>17, <1>18, <1>19, <1>20, <1>21, <1>22, <1>23, <1>24,
     <1>25, <1>26, <1>27, <1>28 DEF Next

\* The sentinel stays on the queue until it is read.
LEMMA EndsKept ==
    ASSUME IInv, Next
    PROVE  Ends'
<1> USE DEF IInv, Base
<1>0. /\ consumer = "none" => \A t \in Tasks : tasks[t] = "none"
      /\ consumer \in {"none", "reading", "done"}
      /\ (tasks["release"] = "done" \/ tasks["silence"] = "done"
           \/ (closed /\ (OneChannel \/ consumer # "none"))) => Sentinel
  BY DEF Ends, Places
<1>1. ASSUME UNCHANGED <<consumer, tasks, queue, closed>>, given \subseteq given'
      PROVE  Ends'
  <2>1. OneChannel' => OneChannel
    BY <1>1 DEF OneChannel
  <2> QED BY <1>0, <1>1, <2>1 DEF Ends, Sentinel
<1>2. ASSUME queue' = Put(queue, "end"), consumer' = "none" => \A t \in Tasks : tasks'[t] = "none"
      PROVE  Ends'
  <2>1. \E n \in DOMAIN queue' : queue'[n] = "end"
    BY <1>2, Puts
  <2> QED BY <1>2, <2>1 DEF Ends, Sentinel
<1>3. CASE Open \/ Proceeds \/ Resumes \/ FinIgnored \/ CloseAgain
  BY <1>1, <1>3 DEF Open, Proceeds, Keeps, Resumes, FinIgnored, CloseAgain, ownVars
<1>4. CASE SendRelease \/ ReleaseResumes \/ CloseChannel \/ ChannelResumes \/ CloseReturns
  BY <1>1, <1>4 DEF SendRelease, ReleaseResumes, CloseChannel, ChannelResumes, CloseReturns, ownVars
<1>5. CASE \/ PanelAnswers \/ PanelHangsUp \/ Silence \/ Displaced \/ PeerGone \/ Teardown
           \/ \E r \in Remotes : IncomingChannel(r)
  BY <1>1, <1>5 DEF PanelAnswers, PanelHangsUp, Silence, Displaced, PeerGone, Teardown,
                    IncomingChannel, ownVars
<1>6. CASE Fails \/ CancelOpen \/ Close
  BY <1>0, <1>2, <1>6 DEF Fails, CancelOpen, Close, Withdraw
<1>7. CASE WatchRelease \/ WatchMedia
  <2>1. queue' = Put(queue, "end") /\ UNCHANGED consumer /\ consumer # "none"
    BY <1>0, <1>7 DEF WatchRelease, WatchMedia, Tasks
  <2> QED BY <1>2, <2>1
<1>8. CASE EndTask \/ CancelClose
  <2>1. UNCHANGED <<consumer, closed, given>> /\ closed
    BY <1>8 DEF EndTask, CancelClose, Begun, Closing
  <2>2. CASE UNCHANGED <<tasks, queue>>
    BY <1>1, <2>1, <2>2
  <2>3. ASSUME NEW t \in Tasks, Ended(t) PROVE Ends'
    <3>1. consumer # "none" /\ Sentinel
      BY <1>0, <2>1, <2>3 DEF Ended, First, Running
    <3>2. CASE queue' = Put(queue, "end")
      BY <1>2, <2>1, <3>1, <3>2
    <3>3. CASE queue' = queue
      BY <2>1, <3>1, <3>3 DEF Ends, Sentinel
    <3> QED BY <2>3, <3>2, <3>3 DEF Ended
  <2> QED BY <1>8, <2>2, <2>3 DEF EndTask, CancelClose
<1>9. CASE Up
  <2>1. /\ consumer' = "reading" /\ tasks' = [t \in Tasks |-> "waiting"]
        /\ closed' = closed /\ stage = "request"
    BY <1>9 DEF Up, ownVars
  <2>2. ~closed
    BY <2>1 DEF Begun, Closing
  <2> QED BY <2>1, <2>2 DEF Ends, Tasks
<1>10. CASE Refresh
  <2>1. UNCHANGED <<consumer, queue, closed, given>> /\ consumer # "none"
        /\ tasks'["release"] = tasks["release"] /\ tasks'["silence"] = tasks["silence"]
    BY <1>0, <1>10 DEF Refresh, Places, Tasks, ownVars
  <2>2. OneChannel' <=> OneChannel
    BY <2>1 DEF OneChannel
  <2> QED BY <1>0, <2>1, <2>2 DEF Ends, Sentinel
<1>11. CASE Consume
  <2>1. UNCHANGED <<tasks, closed, given>> /\ consumer = "reading"
    BY <1>11 DEF Consume, ownVars
  <2>2. CASE consumer' = "done"
    BY <2>2 DEF Ends, Sentinel
  <2>3. CASE consumer' = consumer /\ \A n \in DOMAIN queue : queue[n] # "end"
    BY <1>0, <2>1, <2>3 DEF Ends, Sentinel
  <2> QED BY <1>11, <2>2, <2>3 DEF Consume
<1>12. CASE Media
  <2>1. UNCHANGED <<consumer, tasks, closed, given>> /\ handlers # {} /\ (consumer = "reading" => queue = <<>>)
    BY <1>12 DEF Media, Settled, ownVars
  <2>2. OneChannel' <=> OneChannel
    BY <2>1 DEF OneChannel
  <2>3. CASE consumer = "done"
    BY <2>1, <2>3 DEF Ends, Sentinel
  <2>4. CASE consumer = "reading"
    BY <1>0, <2>1, <2>2, <2>4 DEF Ends, Sentinel
  <2>5. CASE consumer = "none"
    BY <1>0, <2>1, <2>2, <2>5 DEF Ends, Deaf, Tasks
  <2> QED BY <1>0, <2>3, <2>4, <2>5
<1> QED
  BY <1>3, <1>4, <1>5, <1>6, <1>7, <1>8, <1>9, <1>10, <1>11, <1>12 DEF Next

\* A call that is closed stays out of the session's tables.
LEMMA DeafKept ==
    ASSUME IInv, Next
    PROVE  Deaf'
<1> USE DEF IInv, Base, ownVars, sessionVars, panelVars, Flags, Places, Sets, Begun, Deaf, OneChannel,
           Opening, Closing, OverCtp, OverChannel
<1>1. CASE Open
  BY <1>1, SMT DEF Open, Enters, Written, MayRaise, MayWrite
<1>2. CASE Proceeds
  BY <1>2, SMT DEF Proceeds, Answered, Keeps, NextStage, Enters, Written, MayRaise, MayWrite
<1>3. CASE Resumes
  BY <1>3, SMT DEF Resumes, Written
<1>4. CASE Up
  BY <1>4, SMT DEF Up
<1>5. CASE Fails
  BY Puts, <1>5, SMT DEF Fails, Withdraw
<1>6. CASE CancelOpen
  BY Puts, <1>6, SMT DEF CancelOpen, Withdraw
<1>7. CASE FinIgnored
  BY <1>7, SMT DEF FinIgnored
<1>8. CASE Close
  BY Puts, <1>8, SMT DEF Close, Withdraw
<1>9. CASE CloseAgain
  BY <1>9, SMT DEF CloseAgain
<1>10. CASE CancelClose
  BY Puts, <1>10, SMT DEF CancelClose, Ended, First, Running, CutShort
<1>11. CASE EndTask
  BY Puts, <1>11, SMT DEF EndTask, Ended, First, Running, CutShort
<1>12. CASE SendRelease
  BY <1>12, SMT DEF SendRelease, ReleaseRaised, ReleaseWritten, AllEnded, Running, MayRaise, MayWrite
<1>13. CASE ReleaseResumes
  BY <1>13, SMT DEF ReleaseResumes, ReleaseRaised, ReleaseWritten, CutShort
<1>14. CASE CloseChannel
  BY <1>14, SMT DEF CloseChannel, ChannelDone, ChannelWritten, MayRaise, MayWrite
<1>15. CASE ChannelResumes
  BY <1>15, SMT DEF ChannelResumes, ChannelDone, ChannelWritten, CutShort
<1>16. CASE CloseReturns
  BY <1>16, SMT DEF CloseReturns
<1>17. CASE WatchRelease
  BY Puts, <1>17, SMT DEF WatchRelease
<1>18. CASE WatchMedia
  BY Puts, <1>18, SMT DEF WatchMedia
<1>19. CASE Refresh
  BY <1>19, SMT DEF Refresh, MayRaise, MayWrite
<1>20. CASE Consume
  BY <1>20, SMT DEF Consume, EndsAt
<1>21. CASE PanelAnswers
  BY <1>21, SMT DEF PanelAnswers
<1>22. CASE PanelHangsUp
  BY <1>22, SMT DEF PanelHangsUp
<1>23. CASE Media
  BY Puts, <1>23, SMT DEF Media
<1>24. CASE Silence
  BY <1>24, SMT DEF Silence
<1>25. CASE Displaced
  BY <1>25, SMT DEF Displaced
<1>26. CASE PeerGone
  BY <1>26, SMT DEF PeerGone
<1>27. CASE Teardown
  BY <1>27, SMT DEF Teardown
<1>28. ASSUME NEW r \in Remotes, IncomingChannel(r) PROVE Deaf'
  BY <1>28, CallConstants, SMT DEF IncomingChannel
<1> QED
  BY <1>1, <1>2, <1>3, <1>4, <1>5, <1>6, <1>7, <1>8, <1>9, <1>10, <1>11, <1>12,
     <1>13, <1>14, <1>15, <1>16, <1>17, <1>18, <1>19, <1>20, <1>21, <1>22, <1>23, <1>24,
     <1>25, <1>26, <1>27, <1>28 DEF Next

\* What the panel has of the call stays on the books until it is told.
LEMMA KeptKept ==
    ASSUME IInv, Next
    PROVE  Kept'
<1> USE DEF IInv, Base, ownVars, sessionVars, panelVars, Flags, Places, Sets, Begun, Deaf, OneChannel,
           Kept, InPending, Opening, Closing, OverCtp, OverChannel
<1>1. CASE Open
  BY <1>1, SMT DEF Open, Enters, Written, MayRaise, MayWrite
<1>2. CASE Proceeds
  BY <1>2, SMT DEF Proceeds, Answered, Keeps, NextStage, Enters, Written, MayRaise, MayWrite
<1>3. CASE Resumes
  BY <1>3, SMT DEF Resumes, Written
<1>4. CASE Up
  BY <1>4, SMT DEF Up
<1>5. CASE Fails
  BY Listing, <1>5, SMT DEF Fails, Withdraw
<1>6. CASE CancelOpen
  BY Listing, <1>6, SMT DEF CancelOpen, Withdraw
<1>7. CASE FinIgnored
  BY <1>7, SMT DEF FinIgnored
<1>8. CASE Close
  BY Listing, <1>8, SMT DEF Close, Withdraw
<1>9. CASE CloseAgain
  BY <1>9, SMT DEF CloseAgain
<1>10. CASE CancelClose
  BY <1>10, SMT DEF CancelClose, Ended, First, Running, CutShort
<1>11. CASE EndTask
  BY <1>11, SMT DEF EndTask, Ended, First, Running, CutShort
<1>12. CASE SendRelease
  BY <1>12, SMT DEF SendRelease, ReleaseRaised, ReleaseWritten, AllEnded, Running, MayRaise, MayWrite
<1>13. CASE ReleaseResumes
  BY <1>13, SMT DEF ReleaseResumes, ReleaseRaised, ReleaseWritten, CutShort
<1>14. CASE CloseChannel
  BY <1>14, SMT DEF CloseChannel, ChannelDone, ChannelWritten, MayRaise, MayWrite
<1>15. CASE ChannelResumes
  <2> HIDE DEF IInv
  <2>1. CASE frame = "queued" /\ link # "lost" /\ ChannelWritten /\ UNCHANGED <<stage, owed>>
    BY <1>15, <2>1, SMT DEF IInv, ChannelResumes, ChannelWritten
  <2>2. CASE frame = "queued" /\ link = "lost" /\ CutShort
    BY <1>15, <2>2, SMT DEF IInv, ChannelResumes, CutShort
  <2>3. CASE link # "up"
    BY <1>15, <2>3, SMT DEF IInv, ChannelResumes, ChannelDone, ChannelWritten, CutShort
  <2>4. CASE link = "up" /\ frame = "sent" /\ ChannelDone /\ UNCHANGED <<stage, owed>>
    <3>1. /\ pending # <<>> /\ Head(pending) \notin panel /\ pending' = Tail(pending)
          /\ frame' = "none" /\ UNCHANGED <<panel, call, closed, known, remote, given, link, failed,
                                            owed, stage>>
      BY <1>15, <2>4 DEF IInv, ChannelResumes, ChannelDone
    <3>2. \A h \in given \cap panel : InPending(h) => InPending(h)'
      BY <3>1, Left DEF IInv, InPending
    <3>3. \A h \in given \cap panel :
             h \notin Remotes \/ OneChannel => h \in known \/ h = remote \/ InPending(h)
      BY <2>4 DEF IInv
    <3>4. \A h \in given' \cap panel' :
             h \notin Remotes \/ OneChannel' => h \in known' \/ h = remote' \/ InPending(h)'
      BY <3>1, <3>2, <3>3
    <3> QED BY <3>1, <3>4, SMT DEF IInv
  <2> QED BY <1>15, <2>1, <2>2, <2>3, <2>4 DEF ChannelResumes
<1>16. CASE CloseReturns
  BY <1>16, SMT DEF CloseReturns
<1>17. CASE WatchRelease
  BY <1>17, SMT DEF WatchRelease
<1>18. CASE WatchMedia
  BY <1>18, SMT DEF WatchMedia
<1>19. CASE Refresh
  BY <1>19, SMT DEF Refresh, MayRaise, MayWrite
<1>20. CASE Consume
  BY <1>20, SMT DEF Consume, EndsAt
<1>21. CASE PanelAnswers
  BY <1>21, SMT DEF PanelAnswers
<1>22. CASE PanelHangsUp
  BY <1>22, SMT DEF PanelHangsUp
<1>23. CASE Media
  BY <1>23, SMT DEF Media
<1>24. CASE Silence
  BY <1>24, SMT DEF Silence
<1>25. CASE Displaced
  BY <1>25, SMT DEF Displaced
<1>26. CASE PeerGone
  BY <1>26, SMT DEF PeerGone
<1>27. CASE Teardown
  BY <1>27, SMT DEF Teardown
<1>28. ASSUME NEW r \in Remotes, IncomingChannel(r) PROVE Kept'
  BY <1>28, CallConstants, SMT DEF IncomingChannel
<1> QED
  BY <1>1, <1>2, <1>3, <1>4, <1>5, <1>6, <1>7, <1>8, <1>9, <1>10, <1>11, <1>12,
     <1>13, <1>14, <1>15, <1>16, <1>17, <1>18, <1>19, <1>20, <1>21, <1>22, <1>23, <1>24,
     <1>25, <1>26, <1>27, <1>28 DEF Next

-----------------------------------------------------------------------------
(* The theorems.                                                            *)

\* Nothing has begun.
LEMMA Initially == Init => IInv
<1> SUFFICES ASSUME Init PROVE IInv
  OBVIOUS
<1> USE DEF Init
<1>1. Flags
  BY Zenon DEF Flags
<1>2. Lines /\ Places /\ Sets
  BY CallConstants, SMT DEF Lines, Places, Sets
<1>3. Begun
  BY SMT DEF Begun, Closing
<1>4. Still
  BY SMT DEF Still, ReleaseIsLast
<1>5. Ends /\ Deaf
  <2>1. {remote} \cap Remotes = {} /\ ~closed /\ handlers = {} /\ known = {}
    BY CallConstants
  <2> QED BY <2>1 DEF Ends, Deaf, Tasks
<1>6. Kept
  BY SMT DEF Kept
<1> QED BY <1>1, <1>2, <1>3, <1>4, <1>5, <1>6 DEF IInv, Base

\* Nothing happens.
LEMMA Stuttering == UNCHANGED vars => (IInv => IInv')
BY DEF IInv, Base, Flags, Lines, Places, Sets, Begun, Still, Ends, Deaf, Kept, ReleaseIsLast,
       AllEnded, Running, Sentinel, OneChannel, InPending, vars, ownVars, sessionVars, panelVars

\* The call's tables, queue, list and tasks are in order in every state,
\* whatever the panel opens.
THEOREM Invariance == Spec => []IInv
<1>1. IInv /\ [Next]_vars => IInv'
  BY Stuttering, FlagsKept, PlacesKept, SetsKept, LinesKept, BegunKept, StillKept,
     EndsKept, DeafKept, KeptKept DEF IInv, Base
<1> QED BY Initially, <1>1, PTL DEF Spec

\* The queue never outgrows VIDEO_QUEUE_SIZE, and close() lists handles only.
THEOREM TypeCorrect == Spec => []TypeOK
<1>1. IInv => TypeOK
  BY Types DEF IInv, Base
<1> QED BY <1>1, Invariance, PTL

\* The RELEASE is the last thing a call sends: close() ends the tasks first, on
\* every path through it, however often it is cut short and called again.
THEOREM ReleaseIsLastHolds == Spec => []ReleaseIsLast
<1>1. IInv => ReleaseIsLast
  BY DEF IInv, Base, Still
<1> QED BY <1>1, Invariance, PTL

\* A call that is closed has left the session's tables, and whoever reads its
\* packets has found the sentinel or will, if the panel opened one channel.
THEOREM ClosedIsDeafHolds == Spec => [](OneChannel => ClosedIsDeaf)
<1>1. IInv => (OneChannel => ClosedIsDeaf)
  BY DEF IInv, Ends, Deaf, Sentinel, ClosedIsDeaf
<1> QED BY <1>1, Invariance, PTL

\* Wherever open() or close() is cut short, the channels the panel has open and
\* the RELEASE it is owed are still on the books for the next close(), if the
\* panel opened one channel.
THEOREM NothingForgottenHolds == Spec => [](OneChannel => NothingForgotten)
<1>1. IInv => (OneChannel => NothingForgotten)
  BY DEF IInv, Kept, NothingForgotten
<1> QED BY <1>1, Invariance, PTL

\* What a call keeps to, whatever the panel opens: closed, it takes no new
\* channel and no packet of its connection, and is handed the media of the
\* panel's own channels only; every channel the call opened and the RELEASE are
\* still on the books (call.py close, _on_incoming_channel).
OwnAffairs ==
    /\ closed => handlers \subseteq Remotes /\ ~incoming /\ ~routed
    /\ link = "up" =>
          /\ \A h \in (given \cap panel) \ Remotes : h \in known \/ h = remote \/ InPending(h)
          /\ closed /\ call = "on" /\ ~failed => owed

\* A channel of the panel that another one replaced costs the call neither its
\* own channels nor its RELEASE.
THEOREM OwnAffairsHold == Spec => []OwnAffairs
<1>1. IInv => OwnAffairs
  BY DEF IInv, Deaf, Kept, OwnAffairs
<1> QED BY <1>1, Invariance, PTL

\* When a watcher has seen the call's end, by a RELEASE, the loss of the
\* connection or silence, the sentinel is on the queue until the consumer has
\* found it: no packet that still comes pushes it out of a full queue
\* (call.py _signal_end, _on_media).
EndIsKept == tasks["release"] = "done" \/ tasks["silence"] = "done" => Sentinel

\* The end of the packets is not lost, whatever the queue's size.
THEOREM EndIsKeptHolds == Spec => []EndIsKept
<1>1. IInv => EndIsKept
  BY DEF IInv, Ends, EndIsKept
<1> QED BY <1>1, Invariance, PTL

================================================================================
