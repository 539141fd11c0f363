----------------------------- MODULE CallLedger -----------------------------
(***************************************************************************)
(* What a ViperSession promises its owner about the calls the panel raises *)
(* (on_ring and on_call_end, viper/session.py): a call is rung once, ends  *)
(* at most once and never before its ring, and a new call rings on a       *)
(* connection id only when the call that held it has ended.  A teardown    *)
(* may lose a call: nobody is left to report its end.                      *)
(***************************************************************************)
CONSTANTS Calls,    \* the calls that may be raised
          Lines     \* the connection ids they are raised on

CONSTANT NoLine     \* the line of a call that has not rung

VARIABLES phase,    \* [Calls -> Phases]
          line      \* [Calls -> Lines \cup {NoLine}]

vars == <<phase, line>>

Phases == {"none", "ringing", "ended", "lost"}

LedgerTypeOK ==
    /\ phase \in [Calls -> Phases]
    /\ line \in [Calls -> Lines \cup {NoLine}]

Init ==
    /\ phase = [c \in Calls |-> "none"]
    /\ line = [c \in Calls |-> NoLine]

\* The calls whose end is still to be reported, and those whose end nobody
\* will report.
On(l, p) == {d \in Calls : line[d] = l /\ phase[d] = p}

\* A call rings.  The call that rang on the id until now ends first, in the
\* same step; so may one a teardown lost.  The ring's acknowledgement can
\* fail, and then the call ends as soon as it rang.
Ring(c, l) ==
    /\ phase[c] = "none"
    /\ line' = [line EXCEPT ![c] = l]
    /\ \E late \in SUBSET On(l, "lost"), p \in {"ringing", "ended"} :
          phase' = [d \in Calls |-> IF d = c THEN p
                                    ELSE IF d \in On(l, "ringing") \cup late
                                         THEN "ended" ELSE phase[d]]

\* The end of a call is reported.
End(c) ==
    /\ phase[c] = "ringing"
    /\ phase' = [phase EXCEPT ![c] = "ended"]
    /\ UNCHANGED line

\* A teardown drops the task that would have reported the end.
Lose(c) ==
    /\ phase[c] = "ringing"
    /\ phase' = [phase EXCEPT ![c] = "lost"]
    /\ UNCHANGED line

Next ==
    \/ \E c \in Calls, l \in Lines : Ring(c, l)
    \/ \E c \in Calls : End(c) \/ Lose(c)

Spec == Init /\ [][Next]_vars

-----------------------------------------------------------------------------

\* No two calls ring on one connection id: the comment in _displace says the
\* old call's end precedes the new ring.
OneCallPerLine ==
    \A c, d \in Calls :
        phase[c] = "ringing" /\ phase[d] = "ringing" /\ line[c] = line[d] => c = d

=============================================================================
