--------------------------- MODULE CallLedgerProofs ---------------------------
(***************************************************************************)
(* What follows from the ledger of calls alone, and so holds of the        *)
(* session that implements it: no two calls ring on one connection id.     *)
(***************************************************************************)
EXTENDS CallLedger, TLAPS

LedgerInv == LedgerTypeOK /\ OneCallPerLine

\* A ring ends whatever rang on its line before, in the same step.
LEMMA RingKeeps ==
    ASSUME LedgerInv, NEW c \in Calls, NEW l \in Lines, Ring(c, l)
    PROVE  LedgerInv'
<1> USE DEF LedgerInv, LedgerTypeOK, Phases
<1>1. PICK late \in SUBSET On(l, "lost"), p \in {"ringing", "ended"} :
          phase' = [d \in Calls |-> IF d = c THEN p
                                    ELSE IF d \in On(l, "ringing") \cup late
                                         THEN "ended" ELSE phase[d]]
  BY DEF Ring
<1>2. line' = [line EXCEPT ![c] = l]
  BY DEF Ring
<1>3. LedgerTypeOK'
  BY <1>1, <1>2
<1>4. ASSUME NEW d \in Calls, d # c, phase'[d] = "ringing"
      PROVE  phase[d] = "ringing" /\ line[d] # l /\ line'[d] = line[d]
  BY <1>1, <1>2, <1>4 DEF On
<1>5. line'[c] = l
  BY <1>2
<1>6. OneCallPerLine'
  BY <1>4, <1>5 DEF OneCallPerLine
<1> QED BY <1>3, <1>6

\* The ledger is well typed and rings at most one call per line.
LEMMA LedgerInvariance == Spec => []LedgerInv
<1>1. Init => LedgerInv
  BY DEF Init, LedgerInv, LedgerTypeOK, Phases, OneCallPerLine
<1>2. LedgerInv /\ [Next]_vars => LedgerInv'
  <2> SUFFICES ASSUME LedgerInv, [Next]_vars PROVE LedgerInv'
    OBVIOUS
  <2>1. ASSUME NEW c \in Calls, NEW l \in Lines, Ring(c, l) PROVE LedgerInv'
    BY <2>1, RingKeeps
  <2>2. ASSUME NEW c \in Calls, End(c) \/ Lose(c) PROVE LedgerInv'
    BY <2>2 DEF End, Lose, LedgerInv, LedgerTypeOK, Phases, OneCallPerLine
  <2>3. CASE UNCHANGED vars
    BY <2>3 DEF vars, LedgerInv, LedgerTypeOK, OneCallPerLine
  <2> QED BY <2>1, <2>2, <2>3 DEF Next
<1> QED BY <1>1, <1>2, PTL DEF Spec

\* _displace (session.py) ends the call whose id a new INVITE takes before it
\* reports the new ring: two calls never ring on one connection id.
THEOREM OneCallPerLineHolds == Spec => []OneCallPerLine
<1>1. LedgerInv => OneCallPerLine
  BY DEF LedgerInv
<1> QED BY <1>1, LedgerInvariance, PTL

=============================================================================
