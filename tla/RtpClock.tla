------------------------------- MODULE RtpClock -------------------------------
(***************************************************************************)
(* The packets the relay sends its viewers (rtsp.py: _Client, _fan_out).   *)
(* Each call of the panel counts its timestamps from a base of its own;    *)
(* the relay dials again for the viewers that stay, and rtp_frame rebases  *)
(* the timestamps so that every viewer sees one clock, modulo the width    *)
(* of a timestamp.                                                         *)
(***************************************************************************)
EXTENDS Integers

CONSTANTS Clients,  \* RTSP connections; one that is gone comes back as a new _Client
          M,        \* 2^32: timestamps are counted modulo M
          Gap,      \* RESTART_GAP
          Numbers,  \* 2^16: so are sequence numbers
          MaxCalls, \* bound: the calls of a relay
          None

ASSUME ClockConstants ==
    /\ M \in Nat \ {0} /\ Numbers \in Nat \ {0, 1} /\ MaxCalls \in Nat
    /\ Gap \in 0..(M - 1)
    /\ None \notin 0..(M - 1)

Stamps == 0..(M - 1)

VARIABLES
    calls,       \* _generation: the calls relayed so far
    stamp,       \* the timestamp of the panel's last packet
    playing,     \* the clients that play
    gone,        \* those that were dropped, until their handler notices
    todo,        \* the clients the loop of _fan_out has still to come to
    dead,        \* its list of those to drop
    offset,      \* timestamp_offset, None until the first packet
    last,        \* last_output
    generation,  \* generation
    sequence,    \* sequence
    heard,       \* history: the panel's timestamp of the last packet written to it,
    shown,       \* history: the timestamp that packet was given,
    number       \* history: and the sequence number after it

clientVars == <<offset, last, generation, sequence>>
wireVars == <<heard, shown, number>>
vars == <<calls, stamp, playing, gone, todo, dead, clientVars, wireVars>>

TypeOK ==
    /\ calls \in Nat /\ stamp \in Stamps
    /\ playing \subseteq Clients /\ gone \subseteq Clients \ playing
    /\ todo \subseteq playing /\ dead \subseteq playing \ todo
    /\ offset \in [Clients -> Stamps \cup {None}]
    /\ last \in [Clients -> Stamps]
    /\ generation \in [Clients -> Nat \cup {-1}]
    /\ sequence \in [Clients -> 0..(Numbers - 1)]
    /\ heard \in [Clients -> Stamps] /\ shown \in [Clients -> Stamps]
    /\ number \in [Clients -> 0..(Numbers - 1)]

Init ==
    /\ calls = 0 /\ stamp = 0
    /\ playing = {} /\ gone = {} /\ todo = {} /\ dead = {}
    /\ offset = [c \in Clients |-> None]
    /\ last = [c \in Clients |-> 0]
    /\ generation = [c \in Clients |-> -1]
    /\ sequence \in [Clients -> 0..(Numbers - 1)]
    /\ heard = [c \in Clients |-> 0] /\ shown = [c \in Clients |-> 0]
    /\ number = sequence

-----------------------------------------------------------------------------

\* Mutant: the gap is put on the wrong side.
RebasedAhead(c, t) == (t - last[c] + Gap) % M

\* The offset that puts a new call's timestamp t a Gap after the last output.
Rebased(c, t) == (t - last[c] - Gap) % M

\* The offset c has for a packet of the current call.
NewOffset(c, t) ==
    IF offset[c] = None THEN t
    ELSE IF generation[c] # calls THEN Rebased(c, t)
    ELSE offset[c]

\* Mutant: the difference is not cut to the width of a timestamp.
OutputUncut(c, t) == t - NewOffset(c, t)

\* The timestamp that c is sent for t.
Output(c, t) == (t - NewOffset(c, t)) % M

\* rtp_frame: the client's clock and numbers move on, whatever becomes of the
\* packet.
Framed(c) ==
    /\ offset' = [offset EXCEPT ![c] = NewOffset(c, stamp)]
    /\ last' = [last EXCEPT ![c] = Output(c, stamp)]
    /\ generation' = [generation EXCEPT ![c] = calls]
    /\ sequence' = [sequence EXCEPT ![c] = (@ + 1) % Numbers]

-----------------------------------------------------------------------------
(* _fan_out: one run of the pump, in which no other task takes a turn.      *)

\* No run of _fan_out is under way.
Resting == todo = {} /\ dead = {}

\* The call under way sends a packet, a new call's first at any timestamp.  The
\* clients that do not play are passed over.
Packet ==
    /\ Resting /\ calls > 0
    /\ stamp' \in Stamps
    /\ todo' = playing
    /\ UNCHANGED <<calls, playing, gone, dead, clientVars, wireVars>>

\* The client reads what it is sent: it takes one frame more.
Written(c) ==
    /\ c \in todo /\ todo' = todo \ {c}
    /\ Framed(c)
    /\ heard' = [heard EXCEPT ![c] = stamp]
    /\ shown' = [shown EXCEPT ![c] = Output(c, stamp)]
    /\ number' = [number EXCEPT ![c] = (sequence[c] + 1) % Numbers]
    /\ UNCHANGED <<calls, stamp, playing, gone, dead>>

\* The client has stopped reading: no frame is made for it.
BackedUp(c) ==
    /\ c \in todo /\ todo' = todo \ {c}
    /\ dead' = dead \cup {c}
    /\ UNCHANGED <<calls, stamp, playing, gone, clientVars, wireVars>>

\* Mutant: the exception is caught around the loop.
RaisesOut(c) ==
    /\ c \in todo /\ todo' = {}
    /\ dead' = dead \cup {c}
    /\ Framed(c)
    /\ UNCHANGED <<calls, stamp, playing, gone, wireVars>>

\* The write raises, when the frame is made and the client's clock has moved.
WriteRaises(c) ==
    /\ c \in todo /\ todo' = todo \ {c}
    /\ dead' = dead \cup {c}
    /\ Framed(c)
    /\ UNCHANGED <<calls, stamp, playing, gone, wireVars>>

\* After the loop, those that failed are dropped, and their history with them.
Drops ==
    /\ todo = {} /\ dead # {}
    /\ playing' = playing \ dead /\ gone' = gone \cup dead
    /\ dead' = {}
    /\ heard' = [c \in Clients |-> IF c \in dead THEN 0 ELSE heard[c]]
    /\ shown' = [c \in Clients |-> IF c \in dead THEN 0 ELSE shown[c]]
    /\ number' = [c \in Clients |-> IF c \in dead THEN 0 ELSE number[c]]
    /\ UNCHANGED <<calls, stamp, todo, clientVars>>

-----------------------------------------------------------------------------
(* Other tasks, between two runs of the pump.                               *)

\* _serve has dialled, for the first time or again.
Dialled ==
    /\ Resting
    /\ calls < MaxCalls /\ calls' = calls + 1
    /\ UNCHANGED <<stamp, playing, gone, todo, dead, clientVars, wireVars>>

\* PLAY, by a client that may play already.
Play(c) ==
    /\ Resting /\ c \notin gone
    /\ playing' = playing \cup {c}
    /\ UNCHANGED <<calls, stamp, gone, todo, dead, clientVars, wireVars>>

\* A connection that was dropped or left is followed by a new one.
Reconnect(c, n) ==
    /\ Resting
    /\ playing' = playing \ {c} /\ gone' = gone \ {c}
    /\ offset' = [offset EXCEPT ![c] = None]
    /\ last' = [last EXCEPT ![c] = 0]
    /\ generation' = [generation EXCEPT ![c] = -1]
    /\ sequence' = [sequence EXCEPT ![c] = n]
    /\ heard' = [heard EXCEPT ![c] = 0] /\ shown' = [shown EXCEPT ![c] = 0]
    /\ number' = [number EXCEPT ![c] = n]
    /\ UNCHANGED <<calls, stamp, todo, dead>>

Next ==
    \/ Packet \/ Drops \/ Dialled
    \/ \E c \in Clients :
          \/ Written(c) \/ BackedUp(c) \/ WriteRaises(c) \/ Play(c)
          \/ \E n \in 0..(Numbers - 1) : Reconnect(c, n)

Spec == Init /\ [][Next]_vars

-----------------------------------------------------------------------------

\* A viewer's clock is the panel's, shifted by one offset for a call, and all
\* that was made for it was written to it, unless it is about to be dropped.
Follows ==
    \A c \in Clients \ (dead \cup gone) :
        /\ offset[c] # None => shown[c] = last[c] /\ last[c] = (heard[c] - offset[c]) % M
        /\ number[c] = sequence[c]

\* From one packet written to a viewer to the next its clock runs on as the
\* panel's does within a call, and by the Gap from one call to another, wherever
\* the new call starts and however many calls it heard nothing of (the docstring
\* of rtp_frame).  No sequence number is left out: a frame whose write failed is
\* the last that was made for its client.
Continuous ==
    [][\A c \in Clients \ dead' :
          offset[c] # None /\ offset'[c] # None /\ sequence'[c] # sequence[c] =>
          /\ (shown'[c] - shown[c]) % M = IF generation'[c] = generation[c]
                                          THEN (heard'[c] - heard[c]) % M ELSE Gap
          /\ number'[c] = (number[c] + 1) % Numbers]_vars

\* No viewer misses a packet because another one fails in the middle of the
\* loop: when a run of _fan_out is over, those who have heard of this call and
\* still play have been written its last packet.
InStep ==
    Resting => \A c \in playing : offset[c] # None /\ generation[c] = calls => heard[c] = stamp
===============================================================================
