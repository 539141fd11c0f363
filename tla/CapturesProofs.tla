---------------------------- MODULE CapturesProofs ----------------------------
(***************************************************************************)
(* That a ring takes one picture and one clip and takes them when it is    *)
(* over, that none that is owed is forgotten, that no capture returns      *)
(* before its ffmpeg is dead and that an unload misses no process that is  *)
(* in the set, for any number of calls, connection ids and captures.  What *)
(* is owed under a connection id is a ring of that id that nothing was     *)
(* taken for yet; the ledger's promise that no two calls ring on one id is *)
(* what makes the id a safe key.                                           *)
(***************************************************************************)
EXTENDS Captures, TLAPS

\* The calls are as the ledger promises, and rang on a line.
Rung ==
    /\ Ledger!LedgerTypeOK /\ Ledger!OneCallPerLine
    /\ \A c \in Calls : phase[c] # "none" => line[c] \in Lines

\* Nothing was taken yet for a ring that is owed.
Untaken == \A l \in Lines, t \in Tasks : owed[l] # NoCall => by[t] # owed[l]

\* A capture has a process from its fork on, and returns when that is dead.
Forks ==
    \A t \in Tasks :
        /\ at[t] \in {"unused", "starting"} => proc[t] = "none"
        /\ at[t] \in {"running", "ending", "killing", "cut"} => proc[t] # "none"

\* The sweep ends processes that exist, one at a time.
Sweeping ==
    /\ owner = "running" => sweep = {}
    /\ owner \in {"ending", "killing"} <=> current # NoTask
    /\ \A t \in listed \cup sweep : proc[t] # "none"
    /\ current # NoTask => proc[current] # "none"

\* The inductive invariant.
RingInv == TypeOK /\ Rung /\ OwedIsRinging /\ OncePerRing /\ Untaken
TaskInv == TypeOK /\ Forks /\ Sweeping /\ Reaped /\ NoneMissed
IInv == RingInv /\ TaskInv

-----------------------------------------------------------------------------
(* Starting captures.                                                       *)

\* Each pair of a ring and a kind gets a capture of its own that was unused,
\* and no other capture changes.
LEMMA Starting ==
    ASSUME TypeOK, NEW jobs \in SUBSET ((Calls \cup {NoCall}) \X Kinds), Start(jobs)
    PROVE  /\ at' \in [Tasks -> {"unused", "starting", "spawning", "running", "ending",
                                 "killing", "done", "cut"}]
           /\ kind' \in [Tasks -> Kinds] /\ by' \in [Tasks -> Calls \cup {NoCall}]
           /\ \A t \in Tasks :
                 \/ at'[t] = at[t] /\ kind'[t] = kind[t] /\ by'[t] = by[t]
                 \/ /\ at[t] = "unused" /\ at'[t] \in {"starting", "done"}
                    /\ <<by'[t], kind'[t]>> \in jobs
           /\ \A t, u \in Tasks :
                 /\ t # u /\ at[t] = "unused" /\ at[u] = "unused"
                 /\ at'[t] # "unused" /\ at'[u] # "unused"
                 => <<by'[t], kind'[t]>> # <<by'[u], kind'[u]>>
<1> DEFINE Unused == {t \in Tasks : at[t] = "unused"}
           Places == {f \in [jobs -> Unused] : \A i, j \in jobs : f[i] = f[j] => i = j}
           place == CHOOSE f \in Places : TRUE
           Job(t) == {j \in jobs : place[j] = t}
           job(t) == CHOOSE j \in Job(t) : TRUE
<1>1. place \in Places
  <2>1. Places # {}
    BY DEF Start
  <2> QED BY <2>1
<1>2. /\ at' = [t \in Tasks |-> IF Job(t) # {}
                                THEN IF owner = "down" THEN "done" ELSE "starting"
                                ELSE at[t]]
      /\ by' = [t \in Tasks |-> IF Job(t) # {} THEN job(t)[1] ELSE by[t]]
      /\ kind' = [t \in Tasks |-> IF Job(t) # {} THEN job(t)[2] ELSE kind[t]]
  BY DEF Start
<1>3. \A t \in Tasks : Job(t) # {} => job(t) \in jobs /\ place[job(t)] = t
  <2> SUFFICES ASSUME NEW t \in Tasks, Job(t) # {} PROVE job(t) \in Job(t)
    OBVIOUS
  <2> QED OBVIOUS
<1>4. \A t \in Tasks : Job(t) # {} => at[t] = "unused"
  BY <1>1, <1>3
<1>5. \A j \in jobs : j = <<j[1], j[2]>> /\ j[1] \in Calls \cup {NoCall} /\ j[2] \in Kinds
  OBVIOUS
<1> HIDE DEF Job, job, place, Places
<1>6. \A t \in Tasks :
         \/ at'[t] = at[t] /\ kind'[t] = kind[t] /\ by'[t] = by[t]
         \/ /\ at[t] = "unused" /\ at'[t] \in {"starting", "done"}
            /\ <<by'[t], kind'[t]>> \in jobs
  BY <1>2, <1>3, <1>4, <1>5
<1>7. \A t \in Tasks :
         at'[t] # at[t] => Job(t) # {} /\ <<by'[t], kind'[t]>> = job(t)
  BY <1>2, <1>3, <1>5
<1>8. \A t, u \in Tasks :
         /\ t # u /\ at[t] = "unused" /\ at[u] = "unused"
         /\ at'[t] # "unused" /\ at'[u] # "unused"
         => <<by'[t], kind'[t]>> # <<by'[u], kind'[u]>>
  BY <1>3, <1>7
<1>9. /\ at' \in [Tasks -> {"unused", "starting", "spawning", "running", "ending",
                            "killing", "done", "cut"}]
      /\ kind' \in [Tasks -> Kinds] /\ by' \in [Tasks -> Calls \cup {NoCall}]
  BY <1>2, <1>3, <1>5 DEF TypeOK
<1> QED BY <1>6, <1>8, <1>9

\* Taking rings that are over, and that nothing was taken for, keeps to one
\* picture and one clip a ring.
LEMMA Taking ==
    ASSUME RingInv, NEW rings \in SUBSET (Calls \cup {NoCall}), Take(rings),
           \A c \in Calls : phase[c] \in {"ended", "lost"} => phase'[c] \in {"ended", "lost"},
           \A c \in rings \ {NoCall} : phase'[c] \in {"ended", "lost"}
                                        /\ \A t \in Tasks : by[t] # c
    PROVE  /\ at' \in [Tasks -> {"unused", "starting", "spawning", "running", "ending",
                                 "killing", "done", "cut"}]
           /\ kind' \in [Tasks -> Kinds] /\ by' \in [Tasks -> Calls \cup {NoCall}]
           /\ OncePerRing'
           /\ \A t \in Tasks : by'[t] = by[t] \/ by'[t] \in rings \ {NoCall}
<1> DEFINE jobs == (rings \ {NoCall}) \X options
<1>1. jobs \in SUBSET ((Calls \cup {NoCall}) \X Kinds) /\ Start(jobs) /\ TypeOK
  BY DEF RingInv, TypeOK, Take
<1> HIDE DEF jobs
<1>2. /\ at' \in [Tasks -> {"unused", "starting", "spawning", "running", "ending",
                            "killing", "done", "cut"}]
      /\ kind' \in [Tasks -> Kinds] /\ by' \in [Tasks -> Calls \cup {NoCall}]
      /\ \A t \in Tasks :
            \/ at'[t] = at[t] /\ kind'[t] = kind[t] /\ by'[t] = by[t]
            \/ /\ at[t] = "unused" /\ at'[t] \in {"starting", "done"}
               /\ <<by'[t], kind'[t]>> \in jobs
      /\ \A t, u \in Tasks :
            /\ t # u /\ at[t] = "unused" /\ at[u] = "unused"
            /\ at'[t] # "unused" /\ at'[u] # "unused"
            => <<by'[t], kind'[t]>> # <<by'[u], kind'[u]>>
  BY <1>1, Starting
<1>3. \A t \in Tasks :
         \/ kind'[t] = kind[t] /\ by'[t] = by[t]
         \/ /\ at[t] = "unused" /\ at'[t] # "unused"
            /\ by'[t] \in rings \ {NoCall}
  BY <1>2 DEF jobs
<1>4. ASSUME NEW t \in Tasks, by'[t] # NoCall
      PROVE  phase'[by'[t]] \in {"ended", "lost"}
  <2>1. CASE by'[t] = by[t]
    <3>1. by[t] \in Calls /\ phase[by[t]] \in {"ended", "lost"}
      BY <1>4, <2>1 DEF RingInv, TypeOK, OncePerRing
    <3> QED BY <2>1, <3>1
  <2>2. CASE by'[t] \in rings \ {NoCall}
    BY <2>2
  <2> QED BY <1>3, <2>1, <2>2
<1>5. ASSUME NEW t \in Tasks, NEW u \in Tasks \ {t}, by'[t] # NoCall
      PROVE  <<by'[u], kind'[u]>> # <<by'[t], kind'[t]>>
  <2>1. CASE by'[t] = by[t] /\ kind'[t] = kind[t] /\ by'[u] = by[u] /\ kind'[u] = kind[u]
    BY <1>5, <2>1 DEF RingInv, OncePerRing
  <2>2. CASE by'[t] = by[t] /\ by'[u] \in rings \ {NoCall}
    BY <2>2
  <2>3. CASE by'[u] = by[u] /\ by'[t] \in rings \ {NoCall}
    BY <2>3
  <2>4. CASE /\ at[t] = "unused" /\ at'[t] # "unused"
             /\ at[u] = "unused" /\ at'[u] # "unused"
    BY <1>2, <2>4
  <2> QED BY <1>3, <2>1, <2>2, <2>3, <2>4
<1>6. OncePerRing'
  BY <1>4, <1>5 DEF OncePerRing
<1> QED BY <1>2, <1>3, <1>6

\* Every such pair gets a capture.
LEMMA StartingAll ==
    ASSUME TypeOK, NEW jobs \in SUBSET ((Calls \cup {NoCall}) \X Kinds), Start(jobs),
           NEW j \in jobs
    PROVE  \E t \in Tasks : /\ at[t] = "unused" /\ at'[t] # "unused"
                            /\ by'[t] = j[1] /\ kind'[t] = j[2]
<1> DEFINE Unused == {t \in Tasks : at[t] = "unused"}
           Places == {f \in [jobs -> Unused] : \A i, k \in jobs : f[i] = f[k] => i = k}
           place == CHOOSE f \in Places : TRUE
           Job(t) == {i \in jobs : place[i] = t}
<1>1. place \in Places
  <2>1. Places # {}
    BY DEF Start
  <2> QED BY <2>1
<1>2. place[j] \in Tasks /\ at[place[j]] = "unused" /\ Job(place[j]) = {j}
  <2> HIDE DEF place
  <2> QED BY <1>1
<1>3. (CHOOSE i \in Job(place[j]) : TRUE) = j
  BY <1>2
<1>4. /\ at' = [t \in Tasks |-> IF Job(t) # {}
                                THEN IF owner = "down" THEN "done" ELSE "starting"
                                ELSE at[t]]
      /\ by' = [t \in Tasks |-> IF Job(t) # {} THEN (CHOOSE i \in Job(t) : TRUE)[1] ELSE by[t]]
      /\ kind' = [t \in Tasks |-> IF Job(t) # {} THEN (CHOOSE i \in Job(t) : TRUE)[2] ELSE kind[t]]
  BY DEF Start
<1> HIDE DEF Job, place
<1>5. /\ at'[place[j]] \in {"done", "starting"}
      /\ by'[place[j]] = j[1] /\ kind'[place[j]] = j[2]
  BY <1>2, <1>3, <1>4
<1> QED BY <1>2, <1>5

\* A capture of every kind that the options of now ask for is started for c.
Takes(c) ==
    \A k \in options : \E t \in Tasks :
        at[t] = "unused" /\ at'[t] # "unused" /\ by'[t] = c /\ kind'[t] = k

LEMMA TakingAll ==
    ASSUME RingInv, NEW rings \in SUBSET (Calls \cup {NoCall}), Take(rings),
           NEW c \in rings \ {NoCall}
    PROVE  Takes(c)
<1> SUFFICES ASSUME NEW k \in options
             PROVE  \E t \in Tasks : at[t] = "unused" /\ at'[t] # "unused" /\ by'[t] = c /\ kind'[t] = k
  BY DEF Takes
<1> DEFINE jobs == (rings \ {NoCall}) \X options
<1>1. jobs \in SUBSET ((Calls \cup {NoCall}) \X Kinds) /\ Start(jobs) /\ TypeOK
  BY DEF RingInv, TypeOK, Take
<1>2. <<c, k>> \in jobs /\ <<c, k>>[1] = c /\ <<c, k>>[2] = k
  OBVIOUS
<1> HIDE DEF jobs
<1> QED BY <1>1, <1>2, StartingAll

-----------------------------------------------------------------------------
(* The calls.                                                               *)

\* A ring leaves the ledger in order.
LEMMA RingIsRung ==
    ASSUME Rung, NEW c \in Calls, NEW l \in Lines, Ledger!Ring(c, l)
    PROVE  /\ Rung'
           /\ phase[c] = "none" /\ phase'[c] \in {"ringing", "ended"}
           /\ line'[c] = l /\ \A d \in Calls \ {c} : line'[d] = line[d]
           /\ \A d \in Calls \ {c} :
                 \/ phase'[d] = phase[d] /\ ~(phase[d] = "ringing" /\ line[d] = l)
                 \/ phase'[d] = "ended" /\ phase[d] \in {"ringing", "lost"} /\ line[d] = l
<1> USE DEF Rung, Ledger!LedgerTypeOK, Ledger!Phases
<1>1. PICK late \in SUBSET Ledger!On(l, "lost"), p \in {"ringing", "ended"} :
          phase' = [d \in Calls |-> IF d = c THEN p
                                    ELSE IF d \in Ledger!On(l, "ringing") \cup late
                                         THEN "ended" ELSE phase[d]]
  BY DEF Ledger!Ring
<1>2. line' = [line EXCEPT ![c] = l] /\ phase[c] = "none"
  BY DEF Ledger!Ring
<1>3. Ledger!LedgerTypeOK'
  BY <1>1, <1>2
<1>4. /\ phase'[c] \in {"ringing", "ended"}
      /\ line'[c] = l /\ \A d \in Calls \ {c} : line'[d] = line[d]
  BY <1>1, <1>2
<1>5. \A d \in Calls \ {c} :
         \/ phase'[d] = phase[d] /\ ~(phase[d] = "ringing" /\ line[d] = l)
         \/ phase'[d] = "ended" /\ phase[d] \in {"ringing", "lost"} /\ line[d] = l
  BY <1>1 DEF Ledger!On
<1>6. Ledger!OneCallPerLine'
  BY <1>4, <1>5 DEF Ledger!OneCallPerLine
<1>7. \A d \in Calls : phase'[d] # "none" => line'[d] \in Lines
  BY <1>4, <1>5
<1> QED BY <1>2, <1>3, <1>4, <1>5, <1>6, <1>7

\* A ring takes what the rings before it owe, and what it owes itself only if
\* it is over at once.
LEMMA RingKeeps ==
    ASSUME RingInv, NEW c \in Calls, NEW l \in Lines, Ring(c, l)
    PROVE  RingInv'
<1> DEFINE ended == \E d \in Calls \ {c} : phase[d] # "ended" /\ phase'[d] = "ended"
           before == IF ended THEN owed[l] ELSE NoCall
           after == Owes(c, IF ended THEN NoCall ELSE owed[l])
           rings == IF phase'[c] = "ended" THEN {before, after} ELSE {before}
           x == IF phase'[c] = "ended" THEN NoCall ELSE after
<1>1. /\ Rung'
      /\ phase[c] = "none" /\ phase'[c] \in {"ringing", "ended"}
      /\ line'[c] = l /\ \A d \in Calls \ {c} : line'[d] = line[d]
      /\ \A d \in Calls \ {c} :
            \/ phase'[d] = phase[d] /\ ~(phase[d] = "ringing" /\ line[d] = l)
            \/ phase'[d] = "ended" /\ phase[d] \in {"ringing", "lost"} /\ line[d] = l
  BY RingIsRung DEF RingInv, Ring
<1>2. Take(rings) /\ owed' = [owed EXCEPT ![l] = x] /\ UNCHANGED <<options, proc, listed, unload>>
  BY DEF Ring, LeftAfterEnd
<1>3. owed[l] # NoCall => owed[l] \in Calls \ {c} /\ line[owed[l]] = l
                          /\ phase[owed[l]] \in {"ringing", "lost"}
  BY <1>1 DEF RingInv, TypeOK, OwedIsRinging
<1>4. ~ended => \A d \in Calls \ {c} : phase'[d] = phase[d] /\ ~(phase[d] = "ringing" /\ line[d] = l)
  BY <1>1
<1>5. \/ after = c /\ IsEntranceCall(c)
      \/ IF ended THEN after = NoCall ELSE after = owed[l]
  BY DEF Owes
<1>6. \A t \in Tasks : by[t] # c
  BY <1>1, CaptureConstants DEF RingInv, OncePerRing
<1>7. before \in Calls \cup {NoCall} /\ after \in Calls \cup {NoCall}
  BY <1>3, <1>5
<1>8. before # NoCall => phase'[before] \in {"ended", "lost"} /\ \A t \in Tasks : by[t] # before
  BY <1>1, <1>3 DEF RingInv, Untaken
<1>9. phase'[c] = "ended" /\ after # NoCall
      => phase'[after] \in {"ended", "lost"} /\ \A t \in Tasks : by[t] # after
  <2>1. CASE after = c
    BY <1>6, <2>1
  <2>2. CASE ~ended /\ after = owed[l]
    BY <1>3, <1>4, <2>2 DEF RingInv, Untaken
  <2> QED BY <1>5, <2>1, <2>2
<1> HIDE DEF ended, after
<1>10. /\ at' \in [Tasks -> {"unused", "starting", "spawning", "running", "ending",
                            "killing", "done", "cut"}]
      /\ kind' \in [Tasks -> Kinds] /\ by' \in [Tasks -> Calls \cup {NoCall}]
      /\ OncePerRing'
      /\ \A t \in Tasks : by'[t] = by[t] \/ by'[t] \in rings \ {NoCall}
  <2>1. rings \in SUBSET (Calls \cup {NoCall})
    BY <1>7
  <2>2. \A d \in Calls : phase[d] \in {"ended", "lost"} => phase'[d] \in {"ended", "lost"}
    BY <1>1
  <2>3. \A d \in rings \ {NoCall} : phase'[d] \in {"ended", "lost"}
                                    /\ \A t \in Tasks : by[t] # d
    BY <1>8, <1>9
  <2> HIDE DEF rings
  <2> QED BY <1>2, <2>1, <2>2, <2>3, Taking
<1>11. OwedIsRinging'
  <2>1. ASSUME NEW m \in Lines \ {l}, owed'[m] # NoCall
        PROVE  /\ owed'[m] \in (Tagged \cup InBook) \ Floor
               /\ line'[owed'[m]] = m /\ phase'[owed'[m]] \in {"ringing", "lost"}
    <3>1. owed'[m] = owed[m] /\ owed[m] \in Calls \ {c} /\ line[owed[m]] = m
          /\ phase[owed[m]] \in {"ringing", "lost"} /\ owed[m] \in (Tagged \cup InBook) \ Floor
      BY <1>1, <1>2, <2>1 DEF RingInv, TypeOK, OwedIsRinging
    <3> QED BY <1>1, <3>1
  <2>2. ASSUME owed'[l] # NoCall
        PROVE  /\ owed'[l] \in (Tagged \cup InBook) \ Floor
               /\ line'[owed'[l]] = l /\ phase'[owed'[l]] \in {"ringing", "lost"}
    <3>1. owed'[l] = after /\ phase'[c] = "ringing"
      BY <1>1, <1>2, <2>2 DEF RingInv, TypeOK
    <3>2. CASE after = c /\ IsEntranceCall(c)
      BY <1>1, <3>1, <3>2 DEF IsEntranceCall
    <3>3. CASE ~ended /\ after = owed[l]
      BY <1>1, <1>3, <1>4, <2>2, <3>1, <3>3 DEF RingInv, OwedIsRinging
    <3> QED BY <1>5, <2>2, <3>1, <3>2, <3>3
  <2> QED BY <2>1, <2>2 DEF OwedIsRinging
<1>12. Untaken'
  <2>1. ASSUME NEW m \in Lines \ {l}, NEW t \in Tasks, owed'[m] # NoCall
        PROVE  by'[t] # owed'[m]
    <3>1. owed'[m] = owed[m] /\ owed[m] \in Calls \ {c} /\ line[owed[m]] = m
      BY <1>1, <1>2, <2>1 DEF RingInv, TypeOK, OwedIsRinging
    <3>2. \A r \in rings \ {NoCall} : r # owed[m]
      BY <1>3, <1>5, <3>1
    <3> QED BY <1>10, <2>1, <3>1, <3>2 DEF RingInv, Untaken
  <2>2. ASSUME NEW t \in Tasks, owed'[l] # NoCall
        PROVE  by'[t] # owed'[l]
    <3>1. owed'[l] = after /\ phase'[c] = "ringing"
      BY <1>1, <1>2, <2>2 DEF RingInv, TypeOK
    <3>2. by'[t] = by[t] \/ (by'[t] = owed[l] /\ ended /\ owed[l] # NoCall)
      BY <1>10, <3>1
    <3>3. by[t] # after
      BY <1>5, <1>6, <2>2, <3>1 DEF RingInv, Untaken
    <3>4. ended => after = c
      BY <1>5, <2>2, <3>1
    <3> QED BY <1>3, <3>1, <3>2, <3>3, <3>4
  <2> QED BY <2>1, <2>2 DEF Untaken
<1>13. TypeOK'
  <2>1. x \in Calls \cup {NoCall}
    BY <1>7
  <2> QED BY <1>1, <1>2, <1>10, <2>1, SMT DEF RingInv, Rung, TypeOK, unload
<1> QED BY <1>1, <1>10, <1>11, <1>12, <1>13 DEF RingInv

\* What a ring takes are calls.
LEMMA RingTakes ==
    ASSUME RingInv, NEW c \in Calls, NEW l \in Lines, Ring(c, l)
    PROVE  \E r \in SUBSET (Calls \cup {NoCall}) : Take(r)
<1>1. owed[l] \in Calls \cup {NoCall}
  BY DEF RingInv, TypeOK
<1>2. PICK e \in BOOLEAN :
         LET before == IF e THEN owed[l] ELSE NoCall
             after == Owes(c, IF e THEN NoCall ELSE owed[l])
         IN  Take({before, after}) \/ Take({before})
  BY DEF Ring, LeftAfterEnd
<1> DEFINE before == IF e THEN owed[l] ELSE NoCall
           after == Owes(c, IF e THEN NoCall ELSE owed[l])
<1>3. {before, after} \in SUBSET (Calls \cup {NoCall})
  BY <1>1 DEF Owes
<1>4. {before} \in SUBSET (Calls \cup {NoCall})
  BY <1>1
<1> HIDE DEF before, after
<1> QED BY <1>2, <1>3, <1>4 DEF before, after

\* The end of a ring takes what is owed under its line.
LEMMA EndKeeps ==
    ASSUME RingInv, NEW c \in Calls, End(c)
    PROVE  RingInv'
<1> DEFINE l == line[c]
<1>1. /\ phase[c] = "ringing" /\ phase' = [phase EXCEPT ![c] = "ended"] /\ UNCHANGED line
      /\ Take({owed[l]}) /\ owed' = [owed EXCEPT ![l] = NoCall]
      /\ UNCHANGED <<options, proc, listed, unload>>
  BY DEF End, Ledger!End, LeftAfterEnd
<1>2. l \in Lines
  BY <1>1 DEF RingInv, Rung
<1>3. Rung'
  BY <1>1 DEF RingInv, Rung, Ledger!LedgerTypeOK, Ledger!OneCallPerLine, Ledger!Phases
<1>4. \A d \in Calls : phase'[d] = IF d = c THEN "ended" ELSE phase[d]
  BY <1>1 DEF RingInv, Rung, Ledger!LedgerTypeOK
<1>5. \A m \in Lines : owed'[m] = IF m = l THEN NoCall ELSE owed[m]
  BY <1>1 DEF RingInv, TypeOK
<1>6. \A m \in Lines : owed[m] # NoCall => /\ owed[m] \in Calls /\ line[owed[m]] = m
                                         /\ phase[owed[m]] \in {"ringing", "lost"}
  BY DEF RingInv, TypeOK, OwedIsRinging
<1>7. \A d \in Calls : phase[d] = "ringing" /\ line[d] = l => d = c
  BY <1>1 DEF RingInv, Rung, Ledger!OneCallPerLine
<1>8. owed[l] # NoCall => phase'[owed[l]] \in {"ended", "lost"} /\ \A t \in Tasks : by[t] # owed[l]
  BY <1>2, <1>4, <1>6, <1>7 DEF RingInv, Untaken
<1>9. /\ at' \in [Tasks -> {"unused", "starting", "spawning", "running", "ending",
                            "killing", "done", "cut"}]
      /\ kind' \in [Tasks -> Kinds] /\ by' \in [Tasks -> Calls \cup {NoCall}]
      /\ OncePerRing'
      /\ \A t \in Tasks : by'[t] = by[t] \/ by'[t] \in {owed[l]} \ {NoCall}
  <2>1. {owed[l]} \in SUBSET (Calls \cup {NoCall})
    BY <1>2, <1>6
  <2>2. \A d \in Calls : phase[d] \in {"ended", "lost"} => phase'[d] \in {"ended", "lost"}
    BY <1>4
  <2>3. \A d \in {owed[l]} \ {NoCall} : phase'[d] \in {"ended", "lost"}
                                       /\ \A t \in Tasks : by[t] # d
    BY <1>8
  <2> QED BY <1>1, <2>1, <2>2, <2>3, Taking
<1> HIDE DEF l
<1>10. OwedIsRinging'
  <2> SUFFICES ASSUME NEW m \in Lines, owed'[m] # NoCall
               PROVE  /\ owed'[m] \in (Tagged \cup InBook) \ Floor
                      /\ line'[owed'[m]] = m /\ phase'[owed'[m]] \in {"ringing", "lost"}
    BY DEF OwedIsRinging
  <2>1. m # l /\ owed'[m] = owed[m] /\ owed[m] # NoCall
    BY <1>5
  <2>2. owed[m] # c
    BY <1>6, <2>1 DEF l
  <2> QED BY <1>1, <1>4, <1>6, <2>1, <2>2 DEF RingInv, OwedIsRinging
<1>11. Untaken'
  <2> SUFFICES ASSUME NEW m \in Lines, NEW t \in Tasks, owed'[m] # NoCall
               PROVE  by'[t] # owed'[m]
    BY DEF Untaken
  <2>1. m # l /\ owed'[m] = owed[m] /\ owed[m] # NoCall
    BY <1>5
  <2>2. owed[m] # owed[l]
    BY <1>2, <1>6, <2>1
  <2> QED BY <1>9, <2>1, <2>2 DEF RingInv, Untaken
<1>12. TypeOK'
  <2>1. owed' \in [Lines -> Calls \cup {NoCall}]
    BY <1>1 DEF RingInv, TypeOK
  <2> QED BY <1>1, <1>3, <1>9, <2>1, SMT DEF RingInv, Rung, TypeOK, unload
<1> QED BY <1>3, <1>9, <1>10, <1>11, <1>12 DEF RingInv

\* A ring that is lost stays owed until another takes its line.
LEMMA LoseKeeps ==
    ASSUME RingInv, NEW c \in Calls, Lose(c)
    PROVE  RingInv'
<1> USE DEF RingInv
<1>1. /\ phase[c] = "ringing" /\ phase' = [phase EXCEPT ![c] = "lost"] /\ UNCHANGED line
      /\ UNCHANGED <<options, owed, tasks, proc, listed, unload>>
  BY DEF Lose, Ledger!Lose
<1>2. Rung'
  BY <1>1 DEF Rung, Ledger!LedgerTypeOK, Ledger!OneCallPerLine, Ledger!Phases
<1>3. TypeOK'
  BY <1>1, <1>2 DEF Rung, TypeOK, tasks, unload
<1>4. OwedIsRinging'
  BY <1>1 DEF TypeOK, OwedIsRinging, Rung, Ledger!LedgerTypeOK
<1>5. OncePerRing'
  BY <1>1 DEF OncePerRing, TypeOK, Rung, Ledger!LedgerTypeOK, tasks
<1>6. Untaken'
  BY <1>1 DEF Untaken, tasks
<1> QED BY <1>2, <1>3, <1>4, <1>5, <1>6

\* Whatever leaves the calls and what is owed for them alone.
LEMMA OthersKeepRings ==
    ASSUME RingInv, UNCHANGED <<phase, line, owed, kind, by>>, TypeOK'
    PROVE  RingInv'
BY DEF RingInv, Rung, Untaken, OwedIsRinging, OncePerRing, Ledger!LedgerTypeOK,
       Ledger!OneCallPerLine

\* A button takes a capture for no ring.
LEMMA PressKeeps ==
    ASSUME RingInv, Press
    PROVE  RingInv'
<1> DEFINE jobs == {<<NoCall, "snapshot">>}
<1>1. Start(jobs) /\ UNCHANGED <<phase, line, options, owed, proc, listed, unload>>
  BY DEF Press
<1>2. jobs \in SUBSET ((Calls \cup {NoCall}) \X Kinds)
  BY DEF Kinds
<1>3. TypeOK
  BY DEF RingInv
<1>4. /\ at' \in [Tasks -> {"unused", "starting", "spawning", "running", "ending",
                            "killing", "done", "cut"}]
      /\ kind' \in [Tasks -> Kinds] /\ by' \in [Tasks -> Calls \cup {NoCall}]
      /\ \A t \in Tasks : \/ kind'[t] = kind[t] /\ by'[t] = by[t]
                         \/ <<by'[t], kind'[t]>> \in jobs
  BY <1>1, <1>2, <1>3, Starting
<1>5. \A t \in Tasks : (kind'[t] = kind[t] /\ by'[t] = by[t]) \/ by'[t] = NoCall
  BY <1>4
<1>6. TypeOK'
  BY <1>1, <1>4, SMT DEF RingInv, TypeOK, Ledger!LedgerTypeOK, unload
<1>7. OncePerRing'
  <2>1. ASSUME NEW t \in Tasks, by'[t] # NoCall
        PROVE  phase'[by'[t]] \in {"ended", "lost"}
    BY <1>1, <1>5, <2>1 DEF RingInv, OncePerRing
  <2>2. ASSUME NEW t \in Tasks, NEW u \in Tasks \ {t}, by'[t] # NoCall
        PROVE  <<by'[u], kind'[u]>> # <<by'[t], kind'[t]>>
    BY <1>5, <2>2 DEF RingInv, OncePerRing
  <2> QED BY <2>1, <2>2 DEF OncePerRing
<1>8. Untaken'
  BY <1>1, <1>5 DEF RingInv, Untaken
<1>9. Rung' /\ OwedIsRinging'
  BY <1>1 DEF RingInv, Rung, OwedIsRinging, Ledger!LedgerTypeOK, Ledger!OneCallPerLine
<1> QED BY <1>6, <1>7, <1>8, <1>9 DEF RingInv

-----------------------------------------------------------------------------
(* The captures and the sweep.                                              *)

\* A capture that starts has no process yet.
LEMMA StartKeeps ==
    ASSUME TaskInv, TypeOK', NEW jobs \in SUBSET ((Calls \cup {NoCall}) \X Kinds),
           Start(jobs), UNCHANGED <<proc, listed, unload>>
    PROVE  TaskInv'
<1>1. \A t \in Tasks : at'[t] = at[t] \/ (at[t] = "unused" /\ at'[t] \in {"starting", "done"})
  BY Starting DEF TaskInv
<1> QED BY <1>1, SMT DEF TaskInv, Forks, Sweeping, Reaped, NoneMissed, unload

\* What leaves the captures and their processes alone.
LEMMA OthersKeepTasks ==
    ASSUME TaskInv, TypeOK', UNCHANGED <<tasks, proc, listed, unload>>
    PROVE  TaskInv'
BY DEF TaskInv, Forks, Sweeping, Reaped, NoneMissed, tasks, unload

\* A step of a capture, or of its process.
LEMMA TaskKeeps ==
    ASSUME TaskInv, NEW t \in Tasks,
           Runs(t) \/ Kills(t) \/ Forked(t) \/ Cancelled(t) \/ Exits(t)
    PROVE  TaskInv'
<1> USE CaptureConstants DEF TaskInv, TypeOK, Forks, Sweeping, Reaped, NoneMissed, unload, tasks,
            Goes, Ledger!LedgerTypeOK
<1>1. CASE Started(t)
  BY <1>1, SMT DEF Started
<1>2. CASE Spawned(t)
  BY <1>2, SMT DEF Spawned
<1>3. CASE Interrupted(t)
  BY <1>3, SMT DEF Interrupted, StaysListed
<1>4. CASE Returns(t)
  BY <1>4, SMT DEF Returns, Exited
<1>5. CASE Kills(t)
  BY <1>5, SMT DEF Kills, Killed
<1>6. CASE Forked(t)
  BY <1>6, SMT DEF Forked
<1>7. CASE Cancelled(t)
  BY <1>7, SMT DEF Cancelled, Killed
<1>8. CASE Exits(t)
  BY <1>8, SMT DEF Exits
<1> QED BY <1>1, <1>2, <1>3, <1>4, <1>5, <1>6, <1>7, <1>8 DEF Runs

\* A step of async_shutdown.
LEMMA SweepKeeps ==
    ASSUME TaskInv, Sweeps \/ Shutdown
    PROVE  TaskInv'
<1> USE CaptureConstants DEF TaskInv, TypeOK, Forks, Sweeping, Reaped, NoneMissed, others, tasks,
            Ledger!LedgerTypeOK
<1>1. CASE Sweeps
  BY <1>1, SMT DEF Sweeps
<1>2. CASE SweepsNext
  BY <1>2, SMT DEF SweepsNext
<1>3. CASE SweepKills
  BY <1>3, SMT DEF SweepKills, Killed
<1>4. CASE SweepReaps
  BY <1>4, SMT DEF SweepReaps
<1> QED BY <1>1, <1>2, <1>3, <1>4 DEF Shutdown

-----------------------------------------------------------------------------
(* What is owed is taken.                                                   *)

\* A ring that leaves the table, or whose end is reported, is taken in that
\* step; the one that is not is lost, and a newer ring takes its place.
OwedIsTaken ==
    [][\A l \in Lines :
          owed[l] # NoCall /\ (owed'[l] # owed[l] \/ phase'[owed[l]] = "ended")
          => Takes(owed[l]) \/ phase'[owed[l]] = "lost"]_vars

LEMMA OwedStep ==
    ASSUME IInv, [Next]_vars, NEW l \in Lines, owed[l] # NoCall,
           owed'[l] # owed[l] \/ phase'[owed[l]] = "ended", phase'[owed[l]] # "lost"
    PROVE  Takes(owed[l])
<1> USE DEF IInv, RingInv
<1>1. /\ owed[l] \in Calls /\ line[owed[l]] = l /\ phase[owed[l]] \in {"ringing", "lost"}
      /\ owed \in [Lines -> Calls \cup {NoCall}]
  BY DEF TypeOK, OwedIsRinging
<1>2. ~(UNCHANGED <<phase, owed>>)
  BY <1>1
<1>3. ASSUME NEW c \in Calls, NEW m \in Lines, Ring(c, m) PROVE Takes(owed[l])
  <2> DEFINE ended == \E d \in Calls \ {c} : phase[d] # "ended" /\ phase'[d] = "ended"
             before == IF ended THEN owed[m] ELSE NoCall
             after == Owes(c, IF ended THEN NoCall ELSE owed[m])
  <2>1. /\ phase[c] = "none"
        /\ \A d \in Calls \ {c} :
              \/ phase'[d] = phase[d] /\ ~(phase[d] = "ringing" /\ line[d] = m)
              \/ phase'[d] = "ended" /\ phase[d] \in {"ringing", "lost"} /\ line[d] = m
    BY <1>3, RingIsRung DEF Ring
  <2>2. owed[l] # c
    BY <1>1, <2>1
  <2>3. Take({before}) \/ Take({before, after})
    BY <1>3 DEF Ring, LeftAfterEnd
  <2>4. m = l
    <3>1. \E x : owed' = [owed EXCEPT ![m] = x]
      BY <1>3 DEF Ring
    <3> QED BY <1>1, <2>1, <2>2, <3>1
  <2>5. phase'[owed[l]] = "ended"
    BY <1>1, <2>1, <2>2, <2>4
  <2>6. before = owed[l]
    BY <1>1, <2>2, <2>4, <2>5
  <2>7. before \in Calls \cup {NoCall} /\ after \in Calls \cup {NoCall}
    BY <1>1, <2>6 DEF Owes
  <2> HIDE DEF before, after
  <2> QED BY <2>3, <2>6, <2>7, TakingAll
<1>4. ASSUME NEW c \in Calls, End(c) PROVE Takes(owed[l])
  <2>1. /\ phase' = [phase EXCEPT ![c] = "ended"] /\ Take({owed[line[c]]})
        /\ owed' = [owed EXCEPT ![line[c]] = NoCall]
    BY <1>4 DEF End, Ledger!End, LeftAfterEnd
  <2>2. line[c] = l
    BY <1>1, <2>1 DEF TypeOK, Ledger!LedgerTypeOK
  <2> QED BY <1>1, <2>1, <2>2, TakingAll
<1>5. ASSUME NEW c \in Calls, Lose(c) PROVE FALSE
  BY <1>1, <1>5 DEF Lose, Ledger!Lose, TypeOK, Ledger!LedgerTypeOK
<1>6. ASSUME NEW t \in Tasks, Runs(t) \/ Kills(t) \/ Forked(t) \/ Cancelled(t) \/ Exits(t)
      PROVE  FALSE
  BY <1>2, <1>6 DEF Runs, Started, Spawned, Interrupted, Returns, Kills, Forked, Cancelled, Exits,
     Goes
<1>7. CASE \/ \E s \in SUBSET Kinds : Configure(s)
           \/ Press \/ Sweeps \/ Shutdown \/ UNCHANGED vars
  BY <1>2, <1>7 DEF Configure, Press, Sweeps, Shutdown, SweepsNext, SweepKills, SweepReaps,
     others, vars
<1> QED BY <1>3, <1>4, <1>5, <1>6, <1>7 DEF Next

-----------------------------------------------------------------------------
(* The theorems.                                                            *)

\* What is owed, what is taken and what runs stay in step: the inductive
\* invariant holds in every state, for every value of the constants.
THEOREM Invariance == Spec => []IInv
<1>1. Init => IInv
  <2> SUFFICES ASSUME Init PROVE IInv
    OBVIOUS
  <2>1. TypeOK
    BY SMT DEF Init, TypeOK, Kinds, Ledger!Init, Ledger!LedgerTypeOK, Ledger!Phases
  <2>2. RingInv
    BY <2>1 DEF Init, Ledger!Init, RingInv, Rung, OwedIsRinging, OncePerRing, Untaken,
                Ledger!LedgerTypeOK, Ledger!OneCallPerLine, TypeOK
  <2>3. TaskInv
    BY <2>1 DEF Init, TaskInv, Forks, Sweeping, Reaped, NoneMissed
  <2> QED BY <2>2, <2>3 DEF IInv
<1>2. IInv /\ [Next]_vars => IInv'
  <2> SUFFICES ASSUME IInv, [Next]_vars PROVE IInv'
    OBVIOUS
  <2> USE DEF IInv
  <2>1. ASSUME NEW rings \in SUBSET (Calls \cup {NoCall}), Take(rings),
               UNCHANGED <<proc, listed, unload>>, RingInv'
        PROVE  IInv'
    <3>1. (rings \ {NoCall}) \X options \in SUBSET ((Calls \cup {NoCall}) \X Kinds)
      BY DEF RingInv, TypeOK
    <3> QED BY <2>1, <3>1, StartKeeps DEF Take, RingInv
  <2>2. ASSUME NEW c \in Calls, NEW l \in Lines, Ring(c, l) PROVE IInv'
    <3>1. PICK r \in SUBSET (Calls \cup {NoCall}) : Take(r)
      BY <2>2, RingTakes
    <3> QED BY <2>1, <2>2, <3>1, RingKeeps DEF Ring
  <2>3. ASSUME NEW c \in Calls, End(c) PROVE IInv'
    <3>1. {owed[line[c]]} \in SUBSET (Calls \cup {NoCall})
      BY <2>3 DEF RingInv, Rung, TypeOK, End, Ledger!End
    <3> QED BY <2>1, <2>3, <3>1, EndKeeps DEF End
  <2>4. ASSUME NEW c \in Calls, Lose(c) PROVE IInv'
    BY <2>4, LoseKeeps, OthersKeepTasks DEF Lose, RingInv, tasks, unload
  <2>5. ASSUME NEW s \in SUBSET Kinds, Configure(s) PROVE IInv'
    <3>1. TypeOK'
      BY <2>5 DEF Configure, RingInv, TypeOK, Ledger!LedgerTypeOK, tasks, unload
    <3> QED BY <2>5, <3>1, OthersKeepRings, OthersKeepTasks DEF Configure, tasks
  <2>6. CASE Press
    <3>1. {<<NoCall, "snapshot">>} \in SUBSET ((Calls \cup {NoCall}) \X Kinds)
      BY DEF Kinds
    <3> QED BY <2>6, <3>1, PressKeeps, StartKeeps DEF Press, RingInv
  <2>7. ASSUME NEW t \in Tasks, Runs(t) \/ Kills(t) \/ Forked(t) \/ Cancelled(t) \/ Exits(t)
        PROVE  IInv'
    <3>1. UNCHANGED <<phase, line, owed, kind, by>>
      BY <2>7 DEF Runs, Started, Spawned, Interrupted, Returns, Kills, Forked, Cancelled, Exits,
                  Goes, tasks
    <3> QED BY <2>7, <3>1, TaskKeeps, OthersKeepRings DEF TaskInv
  <2>8. ASSUME Sweeps \/ Shutdown PROVE IInv'
    <3>1. UNCHANGED <<phase, line, owed, kind, by>>
      BY <2>8 DEF Shutdown, Sweeps, SweepsNext, SweepKills, SweepReaps, others, tasks
    <3> QED BY <2>8, <3>1, SweepKeeps, OthersKeepRings DEF TaskInv
  <2>9. CASE UNCHANGED vars
    <3>1. TypeOK'
      BY <2>9 DEF vars, RingInv, TypeOK, Ledger!LedgerTypeOK, tasks, unload
    <3> QED BY <2>9, <3>1, OthersKeepRings, OthersKeepTasks DEF vars, tasks
  <2> QED BY <2>2, <2>3, <2>4, <2>5, <2>6, <2>7, <2>8, <2>9 DEF Next
<1> QED BY <1>1, <1>2, PTL DEF Spec

\* Every capture, process and sweep is in one of the states the code can have
\* it in.
THEOREM TypeCorrect == Spec => []TypeOK
<1>1. IInv => TypeOK
  BY DEF IInv, TaskInv
<1> QED BY <1>1, Invariance, PTL

\* The connection id is a safe key: what is owed under it is a visitor's ring
\* on that id whose end was not reported (_captures_owed, _on_call_end).
THEOREM OwedIsRingingHolds == Spec => []OwedIsRinging
<1>1. IInv => OwedIsRinging
  BY DEF IInv, RingInv
<1> QED BY <1>1, Invariance, PTL

\* A ring takes one picture and one clip at most, and not before it is over.
THEOREM OncePerRingHolds == Spec => []OncePerRing
<1>1. IInv => OncePerRing
  BY DEF IInv, RingInv
<1> QED BY <1>1, Invariance, PTL

\* No capture returns with its ffmpeg alive, but one cancelled inside _end.
THEOREM ReapedHolds == Spec => []Reaped
<1>1. IInv => Reaped
  BY DEF IInv, TaskInv
<1> QED BY <1>1, Invariance, PTL

\* A process a capture waits for is in the set or with the sweep, unless it
\* joined the set after an unload took it: _run_ffmpeg and _stop_processes.
THEOREM NoneMissedHolds == Spec => []NoneMissed
<1>1. IInv => NoneMissed
  BY DEF IInv, TaskInv
<1> QED BY <1>1, Invariance, PTL

\* Nobody's ring is forgotten: an owed ring leaves the table in the step that
\* starts a picture and a clip of it, as the options of that moment ask for, or
\* because a teardown dropped its call and another visitor's ring replaced it:
\* _on_ring, _on_call_end, and the order _displace calls them in.
THEOREM OwedIsTakenHolds == Spec => OwedIsTaken
<1>1. IInv /\ [Next]_vars
      => [\A l \in Lines :
             owed[l] # NoCall /\ (owed'[l] # owed[l] \/ phase'[owed[l]] = "ended")
             => Takes(owed[l]) \/ phase'[owed[l]] = "lost"]_vars
  BY OwedStep
<1> QED BY <1>1, Invariance, PTL DEF Spec, OwedIsTaken
================================================================================
