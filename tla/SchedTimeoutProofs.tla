-------------------------- MODULE SchedTimeoutProofs --------------------------
(***************************************************************************)
(* No poke of the scheduler is lost until the clock is set back, and the   *)
(* flag pending never outlives its timer.                                  *)
(***************************************************************************)
EXTENDS SchedTimeout, TLAPS

\* One tick later is a time, at most one second up.
LEMMA NextTickType ==
  ASSUME NEW t \in Time
  PROVE  /\ NextTick(t) \in Time
         /\ t.sec <= NextTick(t).sec /\ NextTick(t).sec <= t.sec + 1
BY SchedConstants DEF Time, NextTick

LEMMA LaterType ==
  ASSUME NEW t \in Time, NEW s \in Nat
  PROVE  Later(t, s) \in Time /\ Later(t, s).sec = t.sec + s
BY DEF Time, Later

\* start(s) leaves a timer that is due within two seconds, whichever branch
\* it takes, and what the other pokes rely on.
LEMMA StartStep ==
  ASSUME IInv, NEW s \in Delays, Start(s)
  PROVE  IInv'
<1> s \in Nat /\ s <= 1
  BY SchedConstants
<1> now \in Time /\ now' = now /\ timers \subseteq Timer /\ lastRun \in Nat
  BY DEF IInv, TypeOK, Start
<1> DEFINE first == [due |-> NextTick(Later(now, s)), again |-> FALSE]
           second == [due |-> Later(now, s + 1), again |-> TRUE]
<1>1. CASE StartNow(s)
  <2>1. /\ first \in Timer /\ first.due.sec >= now.sec + s
        /\ first.due.sec <= now.sec + 2
    <3>1. Later(now, s) \in Time /\ Later(now, s).sec = now.sec + s
      BY LaterType
    <3>2. /\ NextTick(Later(now, s)) \in Time
          /\ now.sec + s <= NextTick(Later(now, s)).sec
          /\ NextTick(Later(now, s)).sec <= now.sec + s + 1
      BY <3>1, NextTickType
    <3> QED
      BY <3>2 DEF Timer, Time
  <2>2. timers' = timers \cup {first} /\ pending' = FALSE /\ lastRun' = now.sec + s
    BY <1>1 DEF StartNow
  <2> HIDE DEF first
  <2>3. TypeOK'
    <3>1. timers' \subseteq Timer /\ lastRun' \in Nat
      BY <2>1, <2>2 DEF Time
    <3>2. UNCHANGED <<now, inSchedule, jumped>> /\ started' = TRUE /\ wanted' = TRUE
      BY <1>1 DEF Start, StartNow
    <3> QED
      BY <2>2, <3>1, <3>2 DEF IInv, TypeOK
  <2>4. PendingTimer' /\ now' = now /\ jumped' = jumped
    BY <2>2 DEF PendingTimer, Start
  <2>5. TimerAhead' /\ (~jumped => TimersSoon') /\ PokeNotLost'
    BY <2>1, <2>2, <2>4 DEF IInv, TimerAhead, TimersSoon, PokeNotLost
  <2> QED
    BY <2>3, <2>4, <2>5 DEF IInv
<1>2. CASE StartAgain(s)
  <2>1. /\ second \in Timer /\ second.due.sec = now.sec + s + 1
    <3>1. Later(now, s + 1) \in Time /\ Later(now, s + 1).sec = now.sec + (s + 1)
      BY LaterType
    <3> QED
      BY <3>1 DEF Timer, Time
  <2>2. /\ timers' = timers \cup {second} /\ pending' = TRUE
        /\ lastRun' = now.sec + 1 + s
    BY <1>2 DEF StartAgain
  <2> HIDE DEF second
  <2>3. TypeOK'
    BY <1>2, <2>1, <2>2 DEF IInv, TypeOK, Start, StartAgain, Time
  <2>4. PendingTimer' /\ TimerAhead' /\ now' = now /\ jumped' = jumped
    BY <2>1, <2>2 DEF PendingTimer, TimerAhead, Start, Time
  <2>5. second.due.sec <= now.sec + 2 /\ now.sec \in Nat
    BY <2>1 DEF Time
  <2>6. (~jumped => TimersSoon') /\ PokeNotLost'
    BY <2>2, <2>4, <2>5 DEF IInv, TimersSoon, PokeNotLost
  <2> QED
    BY <2>3, <2>4, <2>6 DEF IInv
<1>3. CASE /\ pending \/ lastRun > now.sec
           /\ UNCHANGED <<started, pending, timers, lastRun>>
  <2>1. TypeOK' /\ PendingTimer' /\ jumped' = jumped
    BY <1>3 DEF IInv, TypeOK, PendingTimer, Start
  <2>2. ASSUME ~jumped PROVE TimerAhead' /\ TimersSoon' /\ PokeNotLost'
    <3>1. TimerAhead' /\ TimersSoon'
      BY <1>3, <2>2 DEF IInv, TimerAhead, TimersSoon
    <3>2. \E t \in timers : t.due.sec <= now.sec + 2
      BY <1>3, <2>2 DEF IInv, TimerAhead, PendingTimer, TimersSoon
    <3> QED
      BY <1>3, <3>1, <3>2 DEF PokeNotLost
  <2> QED
    BY <2>1, <2>2 DEF IInv
<1> QED
  BY <1>1, <1>2, <1>3 DEF Start

\* A timer that expires is not one that lies ahead of the clock, and pending
\* is given up unless its second is still to come.
LEMMA ExpiryStep ==
  ASSUME IInv, TimerExpired
  PROVE  IInv'
<1> PICK t \in timers : Before(t.due, now) /\ timers' = timers \ {t}
  BY DEF TimerExpired
<1>1. /\ now' = now /\ lastRun' = lastRun /\ ~wanted'
      /\ pending' => pending /\ lastRun > now.sec
  BY DEF TimerExpired, StillPending
<1>2. TypeOK'
  BY DEF IInv, TypeOK, TimerExpired, StillPending, Time
<1>3. t.due.sec <= now.sec /\ t.due.sec \in Nat /\ now.sec \in Nat /\ lastRun \in Nat
  BY DEF Before, IInv, TypeOK, Timer, Time
<1>4. PendingTimer' /\ jumped' = jumped
  BY <1>1, <1>3 DEF IInv, PendingTimer, TimerExpired
<1>5. ASSUME ~jumped PROVE TimerAhead' /\ TimersSoon' /\ PokeNotLost'
  <2>1. TimerAhead'
    BY <1>1, <1>3, <1>5 DEF IInv, TimerAhead
  <2> QED
    BY <1>1, <1>5, <2>1 DEF IInv, TimersSoon, PokeNotLost
<1> QED
  BY <1>2, <1>4, <1>5 DEF IInv

\* IInv is inductive: setting the clock back leaves pending and the timers.
LEMMA Inductive ==
  ASSUME IInv, [Next]_vars
  PROVE  IInv'
<1>1. CASE \E s \in Delays : Start(s)
  BY <1>1, StartStep
<1>2. CASE TimerExpired
  BY <1>2, ExpiryStep
<1>3. CASE PassEnds
  BY <1>3 DEF PassEnds, IInv, TypeOK, TimerAhead, PendingTimer, TimersSoon, PokeNotLost
<1>4. CASE Tick
  <2>1. now' \in Time /\ now.sec <= now'.sec /\ now.sec \in Nat /\ now'.sec \in Nat
    BY <1>4, NextTickType DEF IInv, TypeOK, Tick, Time
  <2>2. \A t \in timers : t.due.sec \in Nat
    BY DEF IInv, TypeOK, Timer, Time
  <2>3. TypeOK'
    BY <1>4, <2>1 DEF IInv, TypeOK, Tick
  <2>4. UNCHANGED <<timers, pending, lastRun, wanted, jumped>>
    BY <1>4 DEF Tick
  <2>5. lastRun \in Nat
    BY DEF IInv, TypeOK
  <2>6. PendingTimer'
    BY <2>4 DEF IInv, PendingTimer
  <2>7. ASSUME ~jumped PROVE TimerAhead' /\ TimersSoon' /\ PokeNotLost'
    <3>1. TimerAhead'
      BY <2>1, <2>4, <2>5, <2>7 DEF IInv, TimerAhead
    <3>2. TimersSoon' /\ PokeNotLost'
      BY <2>1, <2>2, <2>4, <2>7 DEF IInv, TimersSoon, PokeNotLost
    <3> QED
      BY <3>1, <3>2
  <2> QED
    BY <2>3, <2>4, <2>6, <2>7 DEF IInv
<1>5. CASE SetBack
  <2>1. /\ jumped' = TRUE /\ now' \in Time
        /\ UNCHANGED <<timers, started, pending, lastRun, inSchedule, wanted>>
    BY <1>5 DEF SetBack, IInv, TypeOK, Time
  <2> QED
    BY <2>1 DEF IInv, TypeOK, PendingTimer
<1>6. CASE UNCHANGED vars
  BY <1>6 DEF vars, IInv, TypeOK, TimerAhead, PendingTimer, TimersSoon, PokeNotLost
<1> QED
  BY <1>1, <1>2, <1>3, <1>4, <1>5, <1>6 DEF Next

LEMMA Initially == Init => IInv
<1> SUFFICES ASSUME Init PROVE IInv
  OBVIOUS
<1>1. now \in Time /\ now.sec = 1 /\ lastRun = 0
  BY SchedConstants DEF Init, Time
<1>2. lastRun \in Nat
  BY <1>1
<1>3. TypeOK
  BY <1>1, <1>2, Zenon DEF Init, TypeOK
<1> QED
  BY <1>1, <1>3 DEF Init, IInv, TimerAhead, PendingTimer, TimersSoon, PokeNotLost

\* As long as the clock has not been set back, every poke of the scheduler is
\* served by a timer due within two seconds: for every length of a second in
\* ticks, every mix of delays and every lateness of the process.
THEOREM PokesServed == Spec => [](TypeOK /\ PokeNotLost)
<1>1. IInv => TypeOK /\ PokeNotLost
  BY DEF IInv, PokeNotLost
<1> QED
  BY Initially, Inductive, <1>1, PTL DEF Spec

\* The flag that makes SchedTimeout::start return early always stands for a
\* timer that is still in the queue, whatever is done to the clock.
THEOREM PendingStands == Spec => []PendingTimer
<1>1. IInv => PendingTimer
  BY DEF IInv
<1> QED
  BY Initially, Inductive, <1>1, PTL DEF Spec
=============================================================================
