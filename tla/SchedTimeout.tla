----------------------------- MODULE SchedTimeout -----------------------------
(***************************************************************************)
(* The throttle of faxq's scheduler: faxQueueApp::SchedTimeout and the     *)
(* timers of the Dispatcher it uses (faxd/faxQueueApp.c++, util/           *)
(* Dispatcher.c++).  pokeScheduler asks for a pass of the scheduler; it    *)
(* sets a timer unless one is known to be outstanding.  wanted is what     *)
(* FaxQueue calls faxq.poked: a pass was asked for and none has begun.     *)
(*                                                                         *)
(* Time is a timeval: seconds, and SECOND ticks to the second.  It passes  *)
(* at any moment, so a timer may be served late.                           *)
(***************************************************************************)
EXTENDS Naturals, FiniteSets

CONSTANTS
  SECOND,        \* ticks in a second
  MaxSeconds,    \* bound: the clock stops here
  Delays         \* the arguments of pokeScheduler

ASSUME SchedConstants ==
  /\ SECOND \in Nat \ {0, 1}
  /\ MaxSeconds \in Nat
  /\ Delays \subseteq {0, 1}

VARIABLES
  now,         \* the clock
  timers,      \* the timers of the SchedTimeout in the TimerQueue
  started, pending, lastRun,
  inSchedule,  \* runScheduler is running
  wanted,      \* history: a pass was asked for and none has begun since
  jumped       \* history: the clock has been set back

vars == <<now, timers, started, pending, lastRun, inSchedule, wanted, jumped>>

Time == [sec : Nat, tick : 0..(SECOND - 1)]

\* A timer, and whether it is the one that pending stands for.
Timer == [due : Time, again : BOOLEAN]

Before(a, b) == a.sec < b.sec \/ (a.sec = b.sec /\ a.tick < b.tick)

NextTick(t) == IF t.tick + 1 = SECOND THEN [sec |-> t.sec + 1, tick |-> 0]
                                      ELSE [sec |-> t.sec, tick |-> t.tick + 1]
Later(t, s) == [sec |-> t.sec + s, tick |-> t.tick]

-----------------------------------------------------------------------------
\* The first timer is due s seconds and one tick from now.
StartNow(s) ==
  /\ started' = TRUE /\ pending' = FALSE
  /\ timers' = timers \cup {[due |-> NextTick(Later(now, s)), again |-> FALSE]}
  /\ lastRun' = now.sec + s

\* Mutant: no timer is set for a pass asked for while one runs.
StartAgainNot(s) ==
  /\ pending' = TRUE
  /\ lastRun' = now.sec + 1 + s
  /\ UNCHANGED <<started, timers>>

\* The scheduler is running or has run within the second.
StartAgain(s) ==
  /\ pending' = TRUE
  /\ timers' = timers \cup {[due |-> Later(now, s + 1), again |-> TRUE]}
  /\ lastRun' = now.sec + 1 + s
  /\ UNCHANGED started

\* start(s), called from within a pass as well as from other handlers.
Start(s) ==
  /\ \/ ~started /\ now.sec > lastRun /\ StartNow(s)
     \/ /\ started \/ now.sec <= lastRun
        /\ \/ ~pending /\ lastRun <= now.sec /\ StartAgain(s)
           \/ /\ pending \/ lastRun > now.sec
              /\ UNCHANGED <<started, pending, timers, lastRun>>
  /\ wanted' = TRUE
  /\ UNCHANGED <<now, inSchedule, jumped>>

\* Mutant: the flag is kept although its timer may be the one that expired.
StillPendingAlways == pending

StillPending == pending /\ lastRun > now.sec

\* timerExpired, up to the call of runScheduler: TimerQueue::expire takes the
\* earliest timer that is due.
TimerExpired ==
  /\ ~inSchedule
  /\ \E t \in timers :
       /\ Before(t.due, now)
       /\ \A u \in timers : ~Before(u.due, t.due)
       /\ timers' = timers \ {t}
  /\ pending' = StillPending
  /\ inSchedule' = TRUE /\ wanted' = FALSE
  /\ UNCHANGED <<now, started, lastRun, jumped>>

\* runScheduler returns to timerExpired.
PassEnds ==
  /\ inSchedule
  /\ inSchedule' = FALSE /\ started' = FALSE
  /\ UNCHANGED <<now, timers, pending, lastRun, wanted, jumped>>

Tick ==
  /\ now.sec < MaxSeconds
  /\ now' = NextTick(now)
  /\ UNCHANGED <<timers, started, pending, lastRun, inSchedule, wanted, jumped>>

\* "A computer's clock can jump backwards" (runScheduler).
SetBack ==
  /\ \E s \in 0..(now.sec - 1) : now' = [now EXCEPT !.sec = s]
  /\ jumped' = TRUE
  /\ UNCHANGED <<timers, started, pending, lastRun, inSchedule, wanted>>

Init ==
  /\ now = [sec |-> 1, tick |-> 0]
  /\ timers = {} /\ started = FALSE /\ pending = FALSE
  /\ lastRun = now.sec - 1
  /\ inSchedule = FALSE /\ wanted = FALSE /\ jumped = FALSE

Next == (\E s \in Delays : Start(s)) \/ TimerExpired \/ PassEnds \/ Tick \/ SetBack

Spec == Init /\ [][Next]_vars

-----------------------------------------------------------------------------
\* Every variable of SchedTimeout and every timer keeps its type.
TypeOK ==
  /\ now \in Time /\ timers \subseteq Timer
  /\ started \in BOOLEAN /\ pending \in BOOLEAN /\ lastRun \in Nat
  /\ inSchedule \in BOOLEAN /\ wanted \in BOOLEAN /\ jumped \in BOOLEAN

\* No poke is lost: as long as a pass that was asked for has not begun, a
\* timer will begin one, within two seconds if the process is not late.  In
\* particular start may ignore a poke only when an earlier one will serve.
\* The code has this only as long as the clock has not been set back.
PokeNotLost == wanted /\ ~jumped => \E t \in timers : t.due.sec <= now.sec + 2

\* pending never outlives its timer, whatever the clock does: start relies on
\* it when it drops a poke because an earlier one is pending.
PendingTimer == pending => \E t \in timers : t.due.sec >= lastRun

\* What PokeNotLost rests on besides: a pass that lies ahead of the clock
\* always stands for a timer, and no timer is far away.
TimerAhead == lastRun > now.sec => \E t \in timers : t.due.sec >= lastRun
TimersSoon == \A t \in timers : t.due.sec <= now.sec + 2

IInv == /\ TypeOK /\ PendingTimer
        /\ ~jumped => TimerAhead /\ TimersSoon /\ PokeNotLost
=============================================================================
