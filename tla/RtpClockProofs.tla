---------------------------- MODULE RtpClockProofs ----------------------------
(***************************************************************************)
(* That a viewer's clock follows the panel's and never jumps, for every    *)
(* width of a timestamp and every gap, and that a client that fails in the *)
(* middle of the fan-out costs the others nothing: the arithmetic modulo M *)
(* first, then Follows, which is inductive with the types, and from it     *)
(* Continuous; then InStep, one turn of the loop at a time.                *)
(***************************************************************************)
EXTENDS RtpClock, TLAPS

-----------------------------------------------------------------------------
(* Differences modulo M.                                                    *)

\* A difference is cut to the width of a timestamp.
LEMMA CutRange ==
    ASSUME NEW x \in Int
    PROVE  x % M \in Stamps
BY ClockConstants, SMT DEF Stamps

\* A number no more than two widths too low is cut by adding the width.
LEMMA CutValue ==
    ASSUME NEW x \in Int
    PROVE  /\ 0 <= x /\ x < M => x % M = x
           /\ -M <= x /\ x < 0 => x % M = x + M
           /\ -2 * M <= x /\ x < -M => x % M = x + 2 * M
<1>1. 0 <= x /\ x < M => x % M = x
  BY ClockConstants, SMT
<1>2. -M <= x /\ x < 0 => x % M = x + M
  BY ClockConstants, SMT
<1>3. -2 * M <= x /\ x < -M => x % M = x + 2 * M
  BY ClockConstants, SMT
<1> QED BY <1>1, <1>2, <1>3

\* The difference of two timestamps.
LEMMA Difference ==
    ASSUME NEW a \in Stamps, NEW b \in Stamps
    PROVE  (a - b) % M = IF b <= a THEN a - b ELSE a - b + M
<1>1. a - b \in Int /\ -M <= a - b /\ a - b < M
  BY ClockConstants, SMT DEF Stamps
<1>2. CASE b <= a
  BY <1>1, <1>2, CutValue, ClockConstants, SMT DEF Stamps
<1>3. CASE ~(b <= a)
  BY <1>1, <1>3, CutValue, ClockConstants, SMT DEF Stamps
<1> QED BY <1>2, <1>3

\* Under one offset, the outputs are as far apart as the inputs.
LEMMA SameOffset ==
    ASSUME NEW a \in Stamps, NEW b \in Stamps, NEW o \in Stamps
    PROVE  (((a - o) % M) - ((b - o) % M)) % M = (a - b) % M
<1> DEFINE x == (a - o) % M
           y == (b - o) % M
<1>1. x = IF o <= a THEN a - o ELSE a - o + M
  BY Difference
<1>2. y = IF o <= b THEN b - o ELSE b - o + M
  BY Difference
<1>3. x \in Stamps /\ y \in Stamps
  BY CutRange DEF Stamps
<1>4. (x - y) % M = IF y <= x THEN x - y ELSE x - y + M
  BY <1>3, Difference
<1>5. (a - b) % M = IF b <= a THEN a - b ELSE a - b + M
  BY Difference
<1> HIDE DEF x, y
<1>6. (x - y) % M = (a - b) % M
  BY <1>1, <1>2, <1>3, <1>4, <1>5, ClockConstants, SMT DEF Stamps
<1> QED BY <1>6 DEF x, y

\* The offset of a new call puts its first packet a Gap after the last output.
LEMMA NewCall ==
    ASSUME NEW t \in Stamps, NEW l \in Stamps
    PROVE  (((t - ((t - l - Gap) % M)) % M) - l) % M = Gap
<1> DEFINE o == (t - l - Gap) % M
           x == (t - o) % M
<1>1. t - l - Gap \in Int /\ -2 * M <= t - l - Gap /\ t - l - Gap < M
  BY ClockConstants, SMT DEF Stamps
<1>2. o \in Stamps /\ x \in Stamps
  <2>1. o \in Stamps
    BY <1>1, CutRange
  <2> HIDE DEF o
  <2> QED BY <2>1, CutRange DEF Stamps
<1>3. \/ o = t - l - Gap
      \/ o = t - l - Gap + M
      \/ o = t - l - Gap + 2 * M
  <2>1. CASE 0 <= t - l - Gap
    BY <1>1, <2>1, CutValue
  <2>2. CASE -M <= t - l - Gap /\ t - l - Gap < 0
    BY <1>1, <2>2, CutValue
  <2>3. CASE t - l - Gap < -M
    BY <1>1, <2>3, CutValue
  <2> QED BY <1>1, <2>1, <2>2, <2>3, ClockConstants, SMT
<1>4. x = IF o <= t THEN t - o ELSE t - o + M
  BY <1>2, Difference
<1>5. (x - l) % M = IF l <= x THEN x - l ELSE x - l + M
  BY <1>2, Difference
<1> HIDE DEF o, x
<1>6. (x - l) % M = Gap
  BY <1>2, <1>3, <1>4, <1>5, ClockConstants, SMT DEF Stamps
<1> QED BY <1>6 DEF o, x

-----------------------------------------------------------------------------
(* The relay.                                                               *)

\* The offset a packet is given is a timestamp.
LEMMA NewOffsetType ==
    ASSUME TypeOK, NEW c \in Clients, NEW t \in Stamps
    PROVE  NewOffset(c, t) \in Stamps
<1>1. t - last[c] - Gap \in Int
  BY ClockConstants, SMT DEF TypeOK, Stamps
<1>2. Rebased(c, t) \in Stamps
  BY <1>1, CutRange DEF Rebased
<1> QED BY <1>2 DEF NewOffset, TypeOK

\* What a packet does to the clock of the client it is framed for is typed.
LEMMA FramedType ==
    ASSUME TypeOK, NEW c \in Clients, Framed(c)
    PROVE  /\ offset' \in [Clients -> Stamps \cup {None}]
           /\ last' \in [Clients -> Stamps]
           /\ generation' \in [Clients -> Nat \cup {-1}]
           /\ sequence' \in [Clients -> 0..(Numbers - 1)]
           /\ Output(c, stamp) \in Stamps
           /\ (sequence[c] + 1) % Numbers \in 0..(Numbers - 1)
<1>1. stamp \in Stamps /\ NewOffset(c, stamp) \in Stamps
  BY NewOffsetType DEF TypeOK
<1>2. stamp - NewOffset(c, stamp) \in Int
  BY <1>1, ClockConstants, SMT DEF Stamps
<1>3. Output(c, stamp) \in Stamps
  BY <1>2, CutRange DEF Output
<1>4. (sequence[c] + 1) % Numbers \in 0..(Numbers - 1)
  <2>1. sequence[c] \in 0..(Numbers - 1)
    BY DEF TypeOK
  <2> QED BY <2>1, ClockConstants, SMT
<1> QED BY <1>1, <1>3, <1>4 DEF Framed, TypeOK

\* A client's turn in the loop keeps the types.
LEMMA TurnType ==
    ASSUME TypeOK, NEW c \in Clients, Written(c) \/ BackedUp(c) \/ WriteRaises(c)
    PROVE  TypeOK'
<1>1. CASE Written(c)
  <2>1. Framed(c)
    BY <1>1 DEF Written
  <2>2. heard' \in [Clients -> Stamps] /\ shown' \in [Clients -> Stamps]
    BY <1>1, <2>1, FramedType DEF Written, TypeOK
  <2>3. number' \in [Clients -> 0..(Numbers - 1)]
    BY <1>1, <2>1, FramedType DEF Written, TypeOK
  <2>4. /\ calls' \in Nat /\ stamp' \in Stamps
        /\ playing' \subseteq Clients /\ gone' \subseteq Clients \ playing'
        /\ todo' \subseteq playing' /\ dead' \subseteq playing' \ todo'
    BY <1>1 DEF Written, TypeOK
  <2> QED BY <2>1, <2>2, <2>3, <2>4, FramedType DEF TypeOK
<1>2. CASE BackedUp(c)
  BY <1>2 DEF BackedUp, TypeOK, clientVars, wireVars
<1>3. CASE WriteRaises(c)
  <2>1. Framed(c)
    BY <1>3 DEF WriteRaises
  <2>2. /\ calls' \in Nat /\ stamp' \in Stamps
        /\ playing' \subseteq Clients /\ gone' \subseteq Clients \ playing'
        /\ todo' \subseteq playing' /\ dead' \subseteq playing' \ todo'
        /\ heard' \in [Clients -> Stamps] /\ shown' \in [Clients -> Stamps]
        /\ number' \in [Clients -> 0..(Numbers - 1)]
    BY <1>3 DEF WriteRaises, TypeOK, wireVars
  <2> QED BY <2>1, <2>2, FramedType DEF TypeOK
<1> QED BY <1>1, <1>2, <1>3

\* So do the drops after it.
LEMMA DropsType ==
    ASSUME TypeOK, Drops
    PROVE  TypeOK'
<1>1. 0 \in Stamps /\ 0 \in 0..(Numbers - 1)
  BY ClockConstants, SMT DEF Stamps
<1>2. /\ heard' \in [Clients -> Stamps] /\ shown' \in [Clients -> Stamps]
      /\ number' \in [Clients -> 0..(Numbers - 1)]
  BY <1>1 DEF Drops, TypeOK
<1>3. /\ calls' \in Nat /\ stamp' \in Stamps
      /\ playing' \subseteq Clients /\ gone' \subseteq Clients \ playing'
      /\ todo' \subseteq playing' /\ dead' \subseteq playing' \ todo'
  BY DEF Drops, TypeOK
<1> QED BY <1>2, <1>3 DEF Drops, TypeOK, clientVars

\* So does a new connection.
LEMMA ReconnectType ==
    ASSUME TypeOK, NEW c \in Clients, NEW n \in 0..(Numbers - 1), Reconnect(c, n)
    PROVE  TypeOK'
<1>1. 0 \in Stamps
  BY ClockConstants, SMT DEF Stamps
<1>2. /\ offset' \in [Clients -> Stamps \cup {None}]
      /\ last' \in [Clients -> Stamps]
      /\ generation' \in [Clients -> Nat \cup {-1}]
      /\ sequence' \in [Clients -> 0..(Numbers - 1)]
  BY <1>1 DEF Reconnect, TypeOK
<1>3. /\ heard' \in [Clients -> Stamps] /\ shown' \in [Clients -> Stamps]
      /\ number' \in [Clients -> 0..(Numbers - 1)]
  BY <1>1 DEF Reconnect, TypeOK
<1>4. /\ calls' \in Nat /\ stamp' \in Stamps
      /\ playing' \subseteq Clients /\ gone' \subseteq Clients \ playing'
      /\ todo' \subseteq playing' /\ dead' \subseteq playing' \ todo'
  BY DEF Reconnect, Resting, TypeOK
<1> QED BY <1>2, <1>3, <1>4 DEF TypeOK

\* The types are kept for every number of clients and every width.
THEOREM TypeCorrect == Spec => []TypeOK
<1>1. Init => TypeOK
  BY ClockConstants, SMT DEF Init, TypeOK, Stamps
<1>2. TypeOK /\ [Next]_vars => TypeOK'
  <2> SUFFICES ASSUME TypeOK, [Next]_vars PROVE TypeOK'
    OBVIOUS
  <2>1. CASE Packet
    BY <2>1 DEF Packet, Resting, TypeOK, clientVars, wireVars
  <2>2. CASE Drops
    BY <2>2, DropsType
  <2>3. CASE Dialled
    BY <2>3, SMT DEF Dialled, TypeOK, clientVars, wireVars
  <2>4. ASSUME NEW c \in Clients, Written(c) \/ BackedUp(c) \/ WriteRaises(c) PROVE TypeOK'
    BY <2>4, TurnType
  <2>5. ASSUME NEW c \in Clients, Play(c) PROVE TypeOK'
    BY <2>5 DEF Play, Resting, TypeOK, clientVars, wireVars
  <2>6. ASSUME NEW c \in Clients, NEW n \in 0..(Numbers - 1), Reconnect(c, n) PROVE TypeOK'
    BY <2>6, ReconnectType
  <2>7. CASE UNCHANGED vars
    BY <2>7 DEF vars, clientVars, wireVars, TypeOK
  <2> QED BY <2>1, <2>2, <2>3, <2>4, <2>5, <2>6, <2>7 DEF Next
<1> QED BY <1>1, <1>2, PTL DEF Spec

-----------------------------------------------------------------------------
(* The clocks.                                                              *)

\* A turn of one client leaves the others as they are.
LEMMA OthersKept ==
    ASSUME TypeOK, NEW c \in Clients, Written(c) \/ BackedUp(c) \/ WriteRaises(c),
           NEW d \in Clients, d # c
    PROVE  /\ UNCHANGED <<offset[d], last[d], generation[d], sequence[d]>>
           /\ UNCHANGED <<heard[d], shown[d], number[d]>>
           /\ d \in todo' <=> d \in todo
           /\ d \in dead' <=> d \in dead
<1>1. CASE Written(c)
  BY <1>1 DEF Written, Framed, TypeOK
<1>2. CASE BackedUp(c)
  BY <1>2 DEF BackedUp, clientVars, wireVars
<1>3. CASE WriteRaises(c)
  BY <1>3 DEF WriteRaises, Framed, TypeOK, wireVars
<1> QED BY <1>1, <1>2, <1>3

\* What a packet does to a client it is written to.
LEMMA Sent ==
    ASSUME TypeOK, NEW c \in Clients, Written(c)
    PROVE  /\ offset'[c] = NewOffset(c, stamp)
           /\ last'[c] = (stamp - NewOffset(c, stamp)) % M
           /\ generation'[c] = calls
           /\ sequence'[c] = (sequence[c] + 1) % Numbers
           /\ heard'[c] = stamp
           /\ shown'[c] = last'[c]
           /\ number'[c] = sequence'[c]
           /\ c \notin todo' /\ UNCHANGED <<calls, stamp, playing, gone, dead>>
BY DEF Written, Framed, Output, TypeOK

\* A turn keeps Follows: a client that is not written to is to be dropped.
LEMMA TurnFollows ==
    ASSUME TypeOK, Follows, NEW c \in Clients,
           Written(c) \/ BackedUp(c) \/ WriteRaises(c)
    PROVE  Follows'
<1> SUFFICES ASSUME NEW d \in Clients, d \notin dead' \cup gone'
             PROVE  /\ offset'[d] # None =>
                            shown'[d] = last'[d] /\ last'[d] = (heard'[d] - offset'[d]) % M
                    /\ number'[d] = sequence'[d]
  BY DEF Follows
<1>1. gone' = gone
  BY DEF Written, BackedUp, WriteRaises
<1>2. CASE d # c
  BY <1>1, <1>2, OthersKept DEF Follows
<1>3. CASE d = c
  <2>1. Written(c)
    BY <1>3 DEF BackedUp, WriteRaises
  <2> QED BY <1>3, <2>1, Sent
<1> QED BY <1>2, <1>3

\* Every viewer's clock is the panel's under its offset, and every frame made for
\* it was written to it.
THEOREM ClockFollows == Spec => []Follows
<1>1. Init => Follows
  BY DEF Init, Follows
<1>2. TypeOK /\ Follows /\ [Next]_vars => Follows'
  <2> SUFFICES ASSUME TypeOK, Follows, [Next]_vars PROVE Follows'
    OBVIOUS
  <2>1. CASE Packet
    BY <2>1 DEF Packet, Follows, clientVars, wireVars
  <2>2. CASE Drops
    <3> SUFFICES ASSUME NEW d \in Clients, d \notin dead' \cup gone'
                 PROVE  /\ offset'[d] # None =>
                                shown'[d] = last'[d] /\ last'[d] = (heard'[d] - offset'[d]) % M
                        /\ number'[d] = sequence'[d]
      BY DEF Follows
    <3>1. d \notin dead /\ d \notin gone
      BY <2>2 DEF Drops
    <3>2. heard'[d] = heard[d] /\ shown'[d] = shown[d] /\ number'[d] = number[d]
      BY <2>2, <3>1 DEF Drops
    <3>3. UNCHANGED <<offset[d], last[d], sequence[d]>>
      BY <2>2 DEF Drops, clientVars
    <3> QED BY <3>1, <3>2, <3>3 DEF Follows
  <2>3. CASE Dialled
    BY <2>3 DEF Dialled, Follows, clientVars, wireVars
  <2>4. ASSUME NEW c \in Clients, Written(c) \/ BackedUp(c) \/ WriteRaises(c) PROVE Follows'
    BY <2>4, TurnFollows
  <2>5. ASSUME NEW c \in Clients, Play(c) PROVE Follows'
    BY <2>5 DEF Play, Follows, clientVars, wireVars
  <2>6. ASSUME NEW c \in Clients, NEW n \in 0..(Numbers - 1), Reconnect(c, n) PROVE Follows'
    <3> SUFFICES ASSUME NEW d \in Clients, d \notin dead' \cup gone'
                 PROVE  /\ offset'[d] # None =>
                                shown'[d] = last'[d] /\ last'[d] = (heard'[d] - offset'[d]) % M
                        /\ number'[d] = sequence'[d]
      BY DEF Follows
    <3>1. CASE d = c
      BY <2>6, <3>1 DEF Reconnect, TypeOK
    <3>2. CASE d # c
      <4>1. UNCHANGED <<offset[d], last[d], sequence[d], heard[d], shown[d], number[d]>>
        BY <2>6, <3>2 DEF Reconnect, TypeOK
      <4>2. d \notin dead /\ d \notin gone
        BY <2>6, <3>2 DEF Reconnect
      <4> QED BY <4>1, <4>2 DEF Follows
    <3> QED BY <3>1, <3>2
  <2>7. CASE UNCHANGED vars
    BY <2>7 DEF vars, clientVars, wireVars, Follows
  <2> QED BY <2>1, <2>2, <2>3, <2>4, <2>5, <2>6, <2>7 DEF Next
<1> QED BY <1>1, <1>2, TypeCorrect, PTL DEF Spec

\* What a packet does to the clock of a client that has heard one before.
LEMMA WrittenContinuous ==
    ASSUME TypeOK, Follows, NEW c \in Clients, Written(c), offset[c] # None
    PROVE  /\ (shown'[c] - shown[c]) % M = IF generation'[c] = generation[c]
                                           THEN (heard'[c] - heard[c]) % M ELSE Gap
           /\ number'[c] = (number[c] + 1) % Numbers
<1> DEFINE t == stamp
<1>0. t \in Stamps
  BY DEF TypeOK
<1>1. /\ shown'[c] = (t - NewOffset(c, t)) % M
      /\ generation'[c] = calls
      /\ heard'[c] = t
  BY Sent
<1>2. offset[c] \in Stamps /\ last[c] \in Stamps /\ heard[c] \in Stamps
  BY DEF TypeOK
<1>3. shown[c] = last[c] /\ last[c] = (heard[c] - offset[c]) % M /\ number[c] = sequence[c]
  <2>1. c \notin dead /\ c \notin gone
    BY DEF Written, TypeOK
  <2> QED BY <2>1 DEF Follows
<1>4. number'[c] = (number[c] + 1) % Numbers
  BY <1>3, Sent
<1> HIDE DEF t
<1>5. CASE generation[c] = calls
  <2>1. shown'[c] = (t - offset[c]) % M
    BY <1>1, <1>5 DEF NewOffset
  <2>2. (((t - offset[c]) % M) - ((heard[c] - offset[c]) % M)) % M = (t - heard[c]) % M
    BY <1>0, <1>2, SameOffset
  <2>3. (shown'[c] - shown[c]) % M = (t - heard[c]) % M
    BY <1>3, <2>1, <2>2
  <2> QED BY <1>1, <1>4, <1>5, <2>3
<1>6. CASE generation[c] # calls
  <2>1. shown'[c] = (t - ((t - last[c] - Gap) % M)) % M
    BY <1>1, <1>6 DEF NewOffset, Rebased
  <2>2. (((t - ((t - last[c] - Gap) % M)) % M) - last[c]) % M = Gap
    BY <1>0, <1>2, NewCall
  <2>3. (shown'[c] - shown[c]) % M = Gap
    BY <1>3, <2>1, <2>2
  <2> QED BY <1>1, <1>4, <1>6, <2>3
<1> QED BY <1>5, <1>6

\* No viewer's clock ever jumps: within a call it runs on as the panel's, and
\* from one call to another it advances by the Gap; and no number is left out.
THEOREM NeverJumps == Spec => Continuous
<1> DEFINE Runs(c) ==
        offset[c] # None /\ offset'[c] # None /\ sequence'[c] # sequence[c] =>
            /\ (shown'[c] - shown[c]) % M = IF generation'[c] = generation[c]
                                            THEN (heard'[c] - heard[c]) % M ELSE Gap
            /\ number'[c] = (number[c] + 1) % Numbers
<1>1. TypeOK /\ Follows /\ [Next]_vars => [\A c \in Clients \ dead' : Runs(c)]_vars
  <2> SUFFICES ASSUME TypeOK, Follows, Next, NEW c \in Clients, c \notin dead',
                      offset[c] # None, offset'[c] # None, sequence'[c] # sequence[c]
               PROVE  /\ (shown'[c] - shown[c]) % M = IF generation'[c] = generation[c]
                                                      THEN (heard'[c] - heard[c]) % M ELSE Gap
                      /\ number'[c] = (number[c] + 1) % Numbers
    OBVIOUS
  <2>1. CASE Packet \/ Drops \/ Dialled
    BY <2>1 DEF Packet, Drops, Dialled, clientVars
  <2>2. ASSUME NEW d \in Clients, Written(d) \/ BackedUp(d) \/ WriteRaises(d)
        PROVE  Written(c)
    <3>1. d = c
      BY <2>2, OthersKept
    <3> QED BY <2>2, <3>1 DEF BackedUp, WriteRaises
  <2>3. ASSUME NEW d \in Clients, Play(d) PROVE FALSE
    BY <2>3 DEF Play, clientVars
  <2>4. ASSUME NEW d \in Clients, NEW n \in 0..(Numbers - 1), Reconnect(d, n) PROVE FALSE
    <3>1. CASE c = d
      BY <2>4, <3>1 DEF Reconnect, TypeOK
    <3>2. CASE c # d
      BY <2>4, <3>2 DEF Reconnect, TypeOK
    <3> QED BY <3>1, <3>2
  <2>5. Written(c)
    BY <2>1, <2>2, <2>3, <2>4 DEF Next, Packet, Drops, Dialled, clientVars
  <2> QED BY <2>5, WrittenContinuous
<1> QED BY <1>1, TypeCorrect, ClockFollows, PTL DEF Spec, Continuous

-----------------------------------------------------------------------------
(* Nobody misses a packet.                                                  *)

\* No client is ahead of the relay's calls; one that does not play, but may, was
\* sent nothing.
Behind ==
    /\ \A c \in Clients : generation[c] <= calls
    /\ \A c \in Clients \ (playing \cup gone) : offset[c] = None

\* In the middle of the loop, too: whoever had its turn and did not fail has the
\* packet.
HadTurn ==
    \A c \in playing \ (todo \cup dead) : offset[c] # None /\ generation[c] = calls => heard[c] = stamp

\* A turn keeps both: it is the turn of one client, and ends nobody else's.
LEMMA TurnInStep ==
    ASSUME TypeOK, Behind, HadTurn, NEW c \in Clients,
           Written(c) \/ BackedUp(c) \/ WriteRaises(c)
    PROVE  Behind' /\ HadTurn'
<1>1. calls' = calls /\ stamp' = stamp /\ playing' = playing /\ gone' = gone /\ c \in playing
  BY DEF Written, BackedUp, WriteRaises, TypeOK
<1>2. generation'[c] = calls \/ generation'[c] = generation[c]
  BY DEF Written, BackedUp, WriteRaises, Framed, clientVars, TypeOK
<1>3. ASSUME NEW d \in Clients PROVE generation'[d] <= calls'
  <2>1. CASE d = c
    <3>1. calls <= calls
      BY SMT DEF TypeOK
    <3> QED BY <1>1, <1>2, <2>1, <3>1 DEF Behind
  <2>2. CASE d # c
    BY <1>1, <2>2, OthersKept DEF Behind
  <2> QED BY <2>1, <2>2
<1>4. ASSUME NEW d \in Clients \ (playing' \cup gone') PROVE offset'[d] = None
  BY <1>1, <1>4, OthersKept DEF Behind
<1>5. ASSUME NEW d \in playing' \ (todo' \cup dead'), offset'[d] # None, generation'[d] = calls'
      PROVE  heard'[d] = stamp'
  <2>1. CASE d = c
    <3>1. Written(c)
      BY <1>5, <2>1 DEF BackedUp, WriteRaises
    <3> QED BY <1>1, <2>1, <3>1, Sent
  <2>2. CASE d # c
    <3>1. d \in Clients
      BY <1>1, <1>5 DEF TypeOK
    <3> QED BY <1>1, <1>5, <2>2, <3>1, OthersKept DEF HadTurn
  <2> QED BY <2>1, <2>2
<1> QED BY <1>3, <1>4, <1>5 DEF Behind, HadTurn

\* No viewer misses a packet because another one fails: _fan_out goes through
\* all its clients and drops none of them before the end.
THEOREM NobodyMisses == Spec => []InStep
<1>1. Init => Behind /\ HadTurn
  BY SMT DEF Init, Behind, HadTurn
<1>2. TypeOK /\ Behind /\ HadTurn /\ [Next]_vars => Behind' /\ HadTurn'
  <2> SUFFICES ASSUME TypeOK, Behind, HadTurn, [Next]_vars PROVE Behind' /\ HadTurn'
    OBVIOUS
  <2>1. CASE Packet
    BY <2>1 DEF Packet, clientVars, wireVars, Behind, HadTurn
  <2>2. CASE Drops
    <3>1. \A d \in playing' : heard'[d] = heard[d] /\ d \notin dead
      BY <2>2 DEF Drops, TypeOK
    <3>2. playing' \cup gone' = playing \cup gone /\ todo = {} /\ playing' = playing \ dead
      BY <2>2 DEF Drops, TypeOK
    <3>3. UNCHANGED <<offset, generation, calls, stamp>>
      BY <2>2 DEF Drops, clientVars
    <3> QED BY <3>1, <3>2, <3>3 DEF Behind, HadTurn
  <2>3. CASE Dialled
    <3>1. \A c \in Clients : generation'[c] <= calls' /\ generation'[c] # calls'
      BY <2>3, SMT DEF Dialled, clientVars, Behind, TypeOK
    <3>2. playing' \subseteq Clients
      BY <2>3 DEF Dialled, TypeOK
    <3> QED BY <2>3, <3>1, <3>2 DEF Dialled, clientVars, Behind, HadTurn
  <2>4. ASSUME NEW c \in Clients, Written(c) \/ BackedUp(c) \/ WriteRaises(c)
        PROVE  Behind' /\ HadTurn'
    BY <2>4, TurnInStep
  <2>5. ASSUME NEW c \in Clients, Play(c) PROVE Behind' /\ HadTurn'
    BY <2>5 DEF Play, Resting, clientVars, wireVars, Behind, HadTurn
  <2>6. ASSUME NEW c \in Clients, NEW n \in 0..(Numbers - 1), Reconnect(c, n)
        PROVE  Behind' /\ HadTurn'
    <3>1. \A d \in Clients : generation'[d] <= calls'
      BY <2>6, SMT DEF Reconnect, Behind, TypeOK
    <3>2. offset'[c] = None /\ playing' = playing \ {c} /\ gone' = gone \ {c}
      BY <2>6 DEF Reconnect, TypeOK
    <3>3. \A d \in Clients \ {c} : /\ offset'[d] = offset[d] /\ heard'[d] = heard[d]
                                 /\ generation'[d] = generation[d]
      BY <2>6 DEF Reconnect, TypeOK
    <3>4. UNCHANGED <<stamp, calls, todo, dead>>
      BY <2>6 DEF Reconnect
    <3> QED BY <3>1, <3>2, <3>3, <3>4 DEF Behind, HadTurn, TypeOK
  <2>7. CASE UNCHANGED vars
    BY <2>7 DEF vars, clientVars, wireVars, Behind, HadTurn
  <2> QED BY <2>1, <2>2, <2>3, <2>4, <2>5, <2>6, <2>7 DEF Next
<1>3. HadTurn => InStep
  BY DEF HadTurn, InStep, Resting
<1> QED BY <1>1, <1>2, <1>3, TypeCorrect, PTL DEF Spec
===============================================================================
