------------------------- MODULE FaxQueueSingleProofs -------------------------
(***************************************************************************)
(* Proofs about faxq when it makes one call for each job (MaxBatchJobs = 1) *)
(* and no client is answered while another waits in suspendJob (OneWait):   *)
(* the modems, calls, lists and notices of its jobs.                        *)
(*                                                                          *)
(* The invariant, Shape, says in which phase each job is.  Between two      *)
(* handlers a job rests on a list, or is busy with a subprocess, or has     *)
(* been left by it for a client that waits; within a handler one more job   *)
(* may be half way.  To each phase belong the list, the state, the timers,  *)
(* the modem and the queue file lock of the job, so that the fxAsserts and  *)
(* the counts of modems and calls follow.  Almost every handler is a step   *)
(* about one job and its destination; StepShape (FaxQueueProofs) says what  *)
(* such a step has to keep, and here every handler is shown to keep it.     *)
(***************************************************************************)
EXTENDS FaxQueueProofs

-----------------------------------------------------------------------------
(* Steps about no job, or all *)

\* Between two handlers faxq runs.
LEMMA IdleRuns == ASSUME Idle PROVE faxq.running /\ pc = "idle"
BY DEF Idle

\* So it does within one.
LEMMA ScanRuns == ASSUME Shape, pc # "idle" PROVE faxq.running
BY DEF Shape, Loops

\* In the state of the program between two handlers.
LEMMA IdleJobs ==
  ASSUME Shape, Idle, NEW k \in Jobs
  PROVE  \/ Resting(faxq.job[k]) \/ Busy(faxq.job[k])
         \/ Left(faxq.job[k]) /\ frames # <<>> /\ Top.job = k
BY DEF Shape, Phases, Handling, Idle

\* A handler of input or of a timer finds no job that someone has waited for.
LEMMA InputJobs ==
  ASSUME Shape, Input, NEW k \in Jobs
  PROVE  /\ Resting(faxq.job[k]) \/ Busy(faxq.job[k])
         /\ pc = "idle" /\ faxq.running /\ faxq.fault = "none"
<1>1. frames = <<>> \/ Waiting
  BY Open DEF Shape
<1>2. ~(Left(faxq.job[k]) /\ frames # <<>> /\ Top.job = k)
  BY <1>1 DEF Waiting, Left
<1> QED  BY <1>2, IdleJobs DEF Input, Idle

\* The quit message.
LEMMA QuitShape == ASSUME IInv, Shape, Quit PROVE Shape' /\ DoneStays
<1>1. PICK q : q = [faxq EXCEPT !.quit = TRUE]
  OBVIOUS
<1>2. faxq' = Poke(q)
  BY <1>1 DEF Quit
<1>3. /\ faxq'.job = faxq.job /\ faxq'.di = faxq.di /\ faxq'.modem = faxq.modem
      /\ faxq'.fault = faxq.fault /\ faxq'.running = faxq.running
  BY <1>1, <1>2, MemoryType DEF Poke, Memory
<1>4. LocksSame
  BY <1>3 DEF LocksSame
<1>5. faxq.running
  BY IdleRuns DEF Quit, Input
<1> QED  BY <1>3, <1>4, <1>5, SameJobs DEF Quit, Handled, loop

\* A pass begins with the jobs of the run queue.
LEMMA RunSchedulerShape == ASSUME IInv, Shape, RunScheduler PROVE Shape' /\ DoneStays
<1>1. PICK n : faxq' = [faxq EXCEPT !.poked = FALSE, !.numPrepares = n]
  BY DEF RunScheduler
<1>2. /\ faxq'.job = faxq.job /\ faxq'.di = faxq.di /\ faxq'.modem = faxq.modem
      /\ faxq'.fault = faxq.fault /\ faxq'.running = faxq.running
  BY <1>1, MemoryType DEF Memory
<1>3. LocksSame
  BY <1>2 DEF LocksSame
<1>4. faxq.running
  BY IdleRuns DEF RunScheduler, Input
<1>5. \A k \in todo' : faxq.job[k].on = "runq"
  BY DEF RunScheduler, OnQueue
<1> QED  BY <1>2, <1>3, <1>4, <1>5, SameJobs DEF RunScheduler

\* faxq stops.
LEMMA CloseShape == ASSUME IInv, Shape, Close PROVE Shape' /\ DoneStays
<1>1. faxq' = [faxq EXCEPT !.poked = FALSE, !.running = FALSE]
  BY DEF Close
<1>2. /\ faxq'.job = faxq.job /\ faxq'.di = faxq.di /\ faxq'.modem = faxq.modem
      /\ faxq'.fault = faxq.fault
  BY <1>1, MemoryType DEF Memory
<1>3. LocksSame
  BY <1>2 DEF LocksSame
<1>4. \A k \in Jobs : faxq.job[k].child = "none"
  <2> TAKE k \in Jobs
  <2>1. faxq.job[k].on # "activeq"
    BY DEF Close, OnQueue
  <2>2. Resting(faxq.job[k]) \/ Busy(faxq.job[k])
    BY InputJobs DEF Close
  <2> QED  BY <2>1, <2>2 DEF Resting, Busy, Free
<1>5. pc' = "idle" /\ pc = "idle"
  BY DEF Close, Handled, loop, Input, Idle
<1> QED  BY <1>2, <1>3, <1>4, <1>5, SameJobs DEF Close, Handled, loop

\* A faxgetty speaks of its modem.
LEMMA ModemMessageShape ==
  ASSUME IInv, Shape, NEW m \in Modems, NEW msg \in ModemMessages, ModemMessage(m, msg)
  PROVE  Shape' /\ DoneStays
<1>1. PICK v : faxq' \in {[faxq EXCEPT !.modem[m].state = v, !.modem[m].poll = FALSE],
                          Poke([faxq EXCEPT !.modem[m].state = v, !.modem[m].poll = FALSE])}
  BY DEF ModemMessage
<1>2. PICK q : q = [faxq EXCEPT !.modem[m].state = v, !.modem[m].poll = FALSE]
  OBVIOUS
<1>3. /\ q.job = faxq.job /\ q.di = faxq.di /\ q.fault = faxq.fault /\ q.running = faxq.running
      /\ \A n \in Modems : q.modem[n].lock = faxq.modem[n].lock
  BY <1>2, MemoryType DEF Memory, ModemRecord
<1>4. faxq' = q \/ faxq' = [q EXCEPT !.poked = TRUE]
  BY <1>1, <1>2 DEF Poke
<1>5. /\ faxq'.job = q.job /\ faxq'.di = q.di /\ faxq'.modem = q.modem
      /\ faxq'.fault = q.fault /\ faxq'.running = q.running
  BY <1>2, <1>4, MemoryType DEF Memory
<1>6. LocksSame
  BY <1>3, <1>5 DEF LocksSame
<1>7. faxq.running
  BY IdleRuns DEF ModemMessage, Input
<1> QED  BY <1>3, <1>5, <1>6, <1>7, SameJobs DEF ModemMessage, Handled, loop

\* The lock of a modem is polled.
LEMMA LockPollShape == ASSUME IInv, Shape, NEW m \in Modems, LockPoll(m) PROVE Shape' /\ DoneStays
<1>1. CASE faxq' = faxq
  <2>1. LocksSame
    BY <1>1 DEF LocksSame
  <2>2. faxq.running
    BY IdleRuns DEF LockPoll, Input
  <2> QED  BY <1>1, <2>1, <2>2, SameJobs DEF LockPoll, Handled, loop
<1>2. CASE /\ faxq.modem[m].lock = "free"
           /\ faxq' = [Poke(faxq) EXCEPT !.modem[m] = [Released(@) EXCEPT !.poll = FALSE]]
  <2>1. PICK q : q = Poke(faxq)
    OBVIOUS
  <2>2. Alike(faxq, q) /\ q.fault = faxq.fault
    BY <2>1, MemoryType, PokeIs
  <2>3. PICK v : v = [Released(q.modem[m]) EXCEPT !.poll = FALSE]
    OBVIOUS
  <2>4. q.modem[m].lock = "free" /\ q.modem[m] \in ModemRecord /\ q \in Memory
    BY <1>2, <2>2 DEF Alike, Memory
  <2>5. v.lock = "free"
    BY <2>3, <2>4 DEF Released, ModemRecord
  <2>6. faxq' = [q EXCEPT !.modem[m] = v]
    BY <1>2, <2>1, <2>3
  <2>7. /\ faxq'.job = q.job /\ faxq'.di = q.di /\ faxq'.fault = q.fault
        /\ faxq'.running = q.running
        /\ \A n \in Modems : faxq'.modem[n].lock = q.modem[n].lock
    BY <2>4, <2>5, <2>6 DEF Memory
  <2>8. LocksSame
    BY <2>2, <2>7 DEF LocksSame, Alike
  <2>9. faxq.running
    BY IdleRuns DEF LockPoll, Input
  <2> QED  BY <2>2, <2>7, <2>8, <2>9, SameJobs DEF LockPoll, Handled, loop, Alike
<1> QED  BY <1>1, <1>2 DEF LockPoll

\* Another program takes or gives back a lock that faxq has not.
LEMMA OtherLockShape == ASSUME IInv, Shape, NEW m \in Modems, OtherLock(m) PROVE Shape' /\ DoneStays
<1>1. PICK v : /\ v \in {"free", "other"}
               /\ faxq' = [faxq EXCEPT !.modem[m].lock = v]
  BY DEF OtherLock
<1>2. /\ faxq'.job = faxq.job /\ faxq'.di = faxq.di /\ faxq'.fault = faxq.fault
      /\ faxq'.running = faxq.running
      /\ faxq'.modem[m].lock = v /\ \A n \in Modems \ {m} : faxq'.modem[n] = faxq.modem[n]
  BY <1>1, MemoryType DEF Memory, ModemRecord
<1>3. LocksSame
  BY <1>1, <1>2 DEF LocksSame, OtherLock
<1>4. faxq.running
  BY IdleRuns DEF OtherLock
<1> QED  BY <1>2, <1>3, <1>4, SameJobs DEF OtherLock, loop

\* A job the pass is at.
LEMMA VisitedIs ==
  ASSUME IInv, Shape, NEW j \in Jobs, Visiting(j), NEW r, r = faxq.job[j]
  PROVE  /\ Resting(r) /\ r.on = "runq" /\ r.state = "ready"
         /\ Visited(j) = faxq /\ Here(faxq, j, r)
         /\ pc = "scan" /\ faxq.running
<1>1. pc = "scan" /\ j \in todo
  BY DEF Visiting
<1>2. r.on = "runq"
  BY <1>1 DEF Shape, Loops
<1>3. Resting(r) \/ Busy(r) \/ Left(r)
  BY <1>1 DEF Shape, Phases, Handling
<1>4. Resting(r) /\ r.state = "ready" /\ r.modem = NoModem /\ ~r.qlock
  BY <1>2, <1>3 DEF Resting, Busy, Left, Free
<1>5. Visited(j) = faxq
  BY <1>4 DEF Visited, FxAssert, ReadRequest
<1>6. Here(faxq, j, r)
  BY MemoryType, RecordType DEF Here, Shape
<1>7. faxq.running
  BY <1>1, ScanRuns
<1> QED  BY <1>1, <1>2, <1>4, <1>5, <1>6, <1>7

\* Modems that are polled keep their locks.
LEMMA PollingIs ==
  ASSUME NEW p \in Memory, NEW T, NEW q, q = Polling(p, T)
  PROVE  /\ q \in Memory /\ q.job = p.job /\ q.di = p.di /\ q.fault = p.fault
         /\ q.running = p.running
         /\ \A m \in Modems : q.modem[m].lock = p.modem[m].lock
<1>1. PICK f : f = [m \in Modems |->
                      IF m \in T THEN [p.modem[m] EXCEPT !.state = "busy", !.poll = TRUE]
                      ELSE p.modem[m]]
  OBVIOUS
<1>2. q = [p EXCEPT !.modem = f]
  BY <1>1 DEF Polling
<1>3. p.modem \in [Modems -> ModemRecord]
  BY DEF Memory
<1>4. f \in [Modems -> ModemRecord] /\ \A m \in Modems : f[m].lock = p.modem[m].lock
  BY <1>1, <1>3 DEF ModemRecord
<1> QED  BY <1>2, <1>4 DEF Memory

\* The job stays on the run queue.
LEMMA VisitNoModemShape == ASSUME IInv, Shape, NEW j \in Jobs, VisitNoModem(j) PROVE Shape' /\ DoneStays
<1>1. PICK r : r = faxq.job[j]
  OBVIOUS
<1>2. Visited(j) = faxq /\ pc = "scan" /\ faxq.running
  BY <1>1, VisitedIs DEF VisitNoModem, Eligible
<1>3. /\ faxq'.job = faxq.job /\ faxq'.di = faxq.di /\ faxq'.fault = faxq.fault
      /\ faxq'.running = faxq.running
      /\ \A m \in Modems : faxq'.modem[m].lock = faxq.modem[m].lock
  <2>1. PICK T, q : T = Locked(j) /\ q = faxq'
    OBVIOUS
  <2>2. q = Polling(faxq, T) /\ faxq \in Memory
    BY <1>2, <2>1, MemoryType DEF VisitNoModem
  <2> QED  BY <2>1, <2>2, PollingIs
<1>4. LocksSame
  BY <1>3 DEF LocksSame
<1> QED  BY <1>2, <1>3, <1>4, SameJobs
         DEF VisitNoModem, Eligible, Visiting, OnToNext

\* The pass ends and the dead are reaped.
LEMMA EndScanShape == ASSUME IInv, Shape, EndScan PROVE Shape' /\ DoneStays
<1>1. PICK f : f = [k \in Jobs |->
        IF faxq.job[k].on = "deadq"
        THEN [faxq.job[k] EXCEPT !.on = "absent", !.tts = FALSE, !.kill = FALSE]
        ELSE faxq.job[k]]
  OBVIOUS
<1>2. faxq' = [faxq EXCEPT !.job = f] /\ pc = "scan" /\ pc' = "idle" /\ UNCHANGED frames
  BY <1>1 DEF EndScan
<1>3. /\ faxq'.job = f /\ faxq'.di = faxq.di /\ faxq'.modem = faxq.modem
      /\ faxq'.fault = faxq.fault /\ faxq'.running = faxq.running
  BY <1>2, MemoryType DEF Memory
<1>4. ASSUME NEW k \in Jobs
      PROVE  /\ faxq'.job[k].on = faxq.job[k].on \/ (faxq.job[k].on = "deadq" /\ faxq'.job[k].on = "absent")
             /\ faxq'.job[k].bprev = faxq.job[k].bprev /\ faxq'.job[k].bnext = faxq.job[k].bnext
             /\ faxq'.job[k].modem = faxq.job[k].modem /\ faxq'.job[k].state = faxq.job[k].state
             /\ faxq'.job[k].notices = faxq.job[k].notices
             /\ faxq'.job[k].qfile = faxq.job[k].qfile /\ faxq'.job[k].child = faxq.job[k].child
             /\ (faxq'.job[k].suspendPending <=> faxq.job[k].suspendPending)
             /\ (faxq'.job[k].kill => faxq.job[k].kill)
             /\ (faxq.job[k].on # "deadq" => faxq'.job[k] = faxq.job[k])
             /\ (Resting(faxq.job[k]) => Resting(faxq'.job[k]))
  <2>1. faxq.job[k] \in JobRecord
    BY MemoryType, RecordType
  <2>2. CASE faxq.job[k].on = "deadq"
    <3>1. PICK r : r = faxq.job[k]
      OBVIOUS
    <3>2. PICK t : t = [r EXCEPT !.on = "absent", !.tts = FALSE, !.kill = FALSE]
      OBVIOUS
    <3>3. faxq'.job[k] = t
      BY <1>1, <1>3, <2>2, <3>1, <3>2
    <3>4. /\ t.on = "absent" /\ ~t.tts /\ ~t.kill
          /\ t.bprev = r.bprev /\ t.bnext = r.bnext
          /\ t.modem = r.modem /\ t.state = r.state /\ t.notices = r.notices
          /\ t.qfile = r.qfile /\ t.child = r.child
          /\ (t.suspendPending <=> r.suspendPending) /\ (t.qlock <=> r.qlock)
      BY <2>1, <3>1, <3>2 DEF JobRecord
    <3>5. Resting(r) => Resting(t)
      BY <3>4 DEF Resting, Free
    <3> QED  BY <2>2, <3>1, <3>3, <3>4, <3>5
  <2>3. CASE faxq.job[k].on # "deadq"
    <3>1. faxq'.job[k] = faxq.job[k]
      BY <1>1, <1>3, <2>3
    <3> QED  BY <3>1
  <2> QED  BY <2>2, <2>3
<1>5. frames = <<>> \/ Waiting
  BY <1>2, Open DEF Shape
<1>6. Plain(faxq')
  BY <1>4 DEF Shape, Plain
<1>7. Loops'
  BY <1>2, <1>3, ScanRuns DEF Shape, Loops
<1>8. Phases'
  <2> SUFFICES ASSUME NEW k \in Jobs
               PROVE  \/ Resting(faxq'.job[k]) \/ Busy(faxq'.job[k])
                      \/ Left(faxq'.job[k]) /\ frames' # <<>> /\ (Top.job)' = k
    BY DEF Phases
  <2>1. \/ Resting(faxq.job[k]) \/ Busy(faxq.job[k])
        \/ Left(faxq.job[k]) /\ frames # <<>> /\ Top.job = k
    BY <1>2 DEF Shape, Phases, Handling
  <2>2. CASE Resting(faxq.job[k])
    BY <1>4, <2>2
  <2>3. CASE ~Resting(faxq.job[k])
    <3>1. faxq'.job[k] = faxq.job[k]
      BY <1>4, <2>1, <2>3 DEF Busy, Left
    <3> QED  BY <1>2, <2>1, <2>3, <3>1 DEF Top
  <2> QED  BY <2>2, <2>3
<1>9. Waits'
  <2>1. \A k \in Jobs : faxq'.job[k].suspendPending =>
          frames' # <<>> /\ (Top.job)' = k /\ ~faxq'.job[k].kill
    BY <1>2, <1>4 DEF Shape, Waits, Top
  <2>2. frames' = <<>> \/ Waiting'
    BY <1>2, <1>4, <1>5, FramesType DEF Waiting, Top
  <2>3. Commands \subseteq {"Q"} => frames' = <<>>
    BY <1>2 DEF Shape, Waits
  <2> QED  BY <1>2, <2>1, <2>2, <2>3 DEF Waits
<1>10. Members'
  BY <1>2, <1>3, <1>4 DEF Shape, Members
<1>11. LocksHeld'
  BY <1>3, <1>4 DEF Shape, LocksHeld
<1>12. CallCounts'
  <2>1. \A d \in Dests : Slack(d) = 0 /\ Slack(d)' = 0
    BY <1>2 DEF Slack
  <2>2. \A d \in Dests : Calling(faxq', d) = Calling(faxq, d)
    BY <1>4 DEF Calling
  <2> QED  BY <1>3, <2>1, <2>2 DEF Shape, CallCounts, Calm
<1>13. BlockedCounts'
  <2>1. \A d \in Dests : BlockedOn(faxq', d) = BlockedOn(faxq, d)
    BY <1>4 DEF BlockedOn
  <2> QED  BY <1>3, <2>1 DEF Shape, BlockedCounts
<1>14. Reports'
  <2> SUFFICES ASSUME ~KillTimers, NEW k \in Jobs PROVE Tale(faxq'.job[k])
    BY DEF Reports
  <2>1. Tale(faxq.job[k])
    BY DEF Shape, Reports
  <2> QED  BY <1>4, <2>1 DEF Tale
<1> QED  BY <1>6, <1>7, <1>8, <1>9, <1>10, <1>11, <1>12, <1>13, <1>14, <1>4 DEF Shape, DoneStays

-----------------------------------------------------------------------------
(* Jobs between two places of rest *)

\* The destination, the modems and the fault stay.
LEMMA RestMoved ==
  ASSUME IInv, Shape, NEW j \in Jobs, NEW r, r = faxq.job[j], NEW t, Moved(faxq, faxq', j, t),
         Resting(r), Resting(t), r.on # "blocked",
         t.on \notin {"absent", "suspendq", "deadq", "blocked"}, faxq.running,
         Input \/ pc = "scan", UNCHANGED <<pc, caller, cur, head, dest, frames>>,
         pc = "scan" => todo' \subseteq todo \ {j},
         ~KillTimers => Tale(t) /\ r.state # "done"
  PROVE  Shape' /\ DoneStays /\ Spared(j)
<1>1. faxq \in Memory /\ Plain(faxq) /\ BlockedCounts
  BY MemoryType DEF Shape
<1>2. PICK x, y : x = faxq.di[DestOf[j]] /\ y = faxq'.di[DestOf[j]]
  OBVIOUS
<1>3. Step(faxq, faxq', j, t) /\ y = x /\ faxq'.modem = faxq.modem /\ faxq'.fault = faxq.fault
  BY <1>2 DEF Moved, SameDest
<1>4. Effect(j, t) /\ faxq' \in Memory
  BY <1>1, <1>3, StepEffect DEF Step
<1>5. LocksSame
  BY <1>3 DEF LocksSame
<1>6. y \in DestRecord
  BY <1>2, <1>4, EntryType, DestOfType
<1>7. ~KillTimers => BlockedFor(faxq')
  <2>1. y.blocked + Blocks(r) = x.blocked + Blocks(t)
    BY <1>3 DEF Blocks
  <2>2. ~KillTimers => BlockedFor(faxq) /\ faxq \in Memory
    BY <1>1 DEF BlockedCounts, BlockedFor
  <2>3. Step(faxq, faxq', j, t)
    BY <1>3
  <2> QED  BY <1>2, <2>1, <2>2, <2>3, BlockedStep
<1>8. ~KillTimers => BlockedFor(faxq') /\ Tale(t) /\ r.state # "done"
  BY <1>7
<1> QED  BY <1>2, <1>3, <1>4, <1>5, <1>6, <1>8, RestStep

\* The destination forgets the job.
LEMMA RestLeft ==
  ASSUME IInv, Shape, NEW j \in Jobs, NEW r, r = faxq.job[j], NEW t, Effect(j, t),
         NEW x, NEW y, x = faxq.di[DestOf[j]], y = faxq'.di[DestOf[j]],
         y.active = x.active \ {j}, y = NewDest \/ (y.calls = x.calls /\ y.pending = x.pending),
         faxq'.modem = faxq.modem,
         Resting(r), Resting(t), faxq.running,
         Input \/ pc = "scan", UNCHANGED <<pc, caller, cur, head, dest, frames>>,
         pc = "scan" => todo' \subseteq todo \ {j},
         ~KillTimers => BlockedFor(faxq') /\ Tale(t) /\ r.state # "done"
  PROVE  Shape' /\ DoneStays /\ Spared(j)
<1>1. LocksSame
  BY DEF LocksSame
<1>2. y \in DestRecord /\ j \notin y.active
  BY EntryType, DestOfType DEF Effect
<1> QED  BY <1>1, <1>2, RestStep

\* The same from the operators that bury a job without a modem.
LEMMA RestBuried ==
  ASSUME IInv, Shape, NEW j \in Jobs, NEW r, r = faxq.job[j], NEW t,
         Freed(faxq, faxq', j, t, NoModem), LeftDest(faxq, faxq', j),
         Resting(r), Resting(t), r.on # "blocked" \/ KillTimers, t.on # "blocked", faxq.running,
         Input \/ pc = "scan", UNCHANGED <<pc, caller, cur, head, dest, frames>>,
         pc = "scan" => todo' \subseteq todo \ {j},
         ~KillTimers => Tale(t) /\ r.state # "done"
  PROVE  Shape' /\ DoneStays /\ Spared(j) /\ faxq'.job[j].on # "blocked"
<1>1. faxq \in Memory /\ Plain(faxq) /\ BlockedCounts
  BY MemoryType DEF Shape
<1>2. PICK x, y : x = faxq.di[DestOf[j]] /\ y = faxq'.di[DestOf[j]]
  OBVIOUS
<1>3. /\ Step(faxq, faxq', j, t) /\ faxq'.modem = faxq.modem /\ faxq'.fault = faxq.fault
      /\ Dropped(x, y, j)
  BY <1>1, <1>2, WithoutIs DEF Freed, LeftDest
<1>4. Effect(j, t)
  BY <1>1, <1>3, StepEffect
<1>5. ~KillTimers => BlockedFor(faxq')
  <2>1. ~KillTimers => y.blocked + Blocks(r) = x.blocked + Blocks(t)
    BY <1>3 DEF Blocks, Dropped
  <2>2. ~KillTimers => BlockedFor(faxq) /\ faxq \in Memory
    BY <1>1 DEF BlockedCounts, BlockedFor
  <2> QED  BY <1>2, <1>3, <2>1, <2>2, BlockedStep
<1>6. faxq'.job[j] = t
  BY <1>4 DEF Effect
<1> QED  BY <1>2, <1>3, <1>4, <1>5, <1>6, RestLeft DEF Dropped

\* The records of a job that is over.
LEMMA OverIs ==
  ASSUME NEW r \in JobRecord, NEW t, t = Buried(Reported(r)) \/ t = Reported(Buried(r)),
         r.child = "none"
  PROVE  /\ Resting(t) /\ t.on = "deadq" /\ t \in JobRecord
         /\ r.notices = 0 => Tale(t)
         /\ r.state # "done" => t.state = "failed"
         /\ r.state = "done" => t.state = "done"
<1>1. PICK n, s : /\ n = (IF r.notices < 2 THEN r.notices + 1 ELSE 2)
                  /\ s = (IF r.state = "done" THEN r.state ELSE "failed")
  OBVIOUS
<1>2. n \in 0..2 /\ (r.notices = 0 => n = 1) /\ s \in States /\ s \in {"done", "failed"}
  BY <1>1, RecordPlaces DEF JobRecord
<1>3. PICK u : u = [r EXCEPT !.qfile = "doneq", !.qlock = FALSE, !.notices = n]
  OBVIOUS
<1>4. Reported(r) = u
  BY <1>1, <1>3, Zenon DEF Reported
<1>5. /\ u \in JobRecord /\ u.state = r.state /\ ~u.qlock /\ u.child = r.child
      /\ u.notices = n /\ u.qfile = "doneq"
  BY <1>2, <1>3 DEF JobRecord
<1>6. PICK v : v = [r EXCEPT !.tts = FALSE, !.suspendPending = FALSE, !.state = s,
                             !.on = "deadq", !.modem = NoModem]
  OBVIOUS
<1>7. Buried(r) = v
  BY <1>1, <1>6, BuriedIs
<1>8. /\ v \in JobRecord /\ v.state = s /\ v.on = "deadq" /\ v.modem = NoModem
      /\ ~v.tts /\ ~v.suspendPending /\ v.child = r.child /\ v.notices = r.notices
  BY <1>2, <1>6, RecordPlaces DEF JobRecord
<1>9. /\ t \in JobRecord /\ t.state = s /\ t.on = "deadq" /\ t.modem = NoModem
      /\ ~t.tts /\ ~t.suspendPending /\ t.child = r.child /\ t.notices = n
      /\ ~t.qlock /\ t.qfile = "doneq"
  <2>1. CASE t = Buried(Reported(r))
    <3>1. t = [u EXCEPT !.tts = FALSE, !.suspendPending = FALSE, !.state = s,
                        !.on = "deadq", !.modem = NoModem]
      <4>1. s = (IF u.state = "done" THEN u.state ELSE "failed") /\ u \in JobRecord
        BY <1>1, <1>5
      <4>2. t = Buried(u)
        BY <1>4, <2>1
      <4> QED  BY <4>1, <4>2, BuriedIs
    <3> QED  BY <1>2, <1>5, <3>1, RecordPlaces DEF JobRecord
  <2>2. CASE t = Reported(Buried(r))
    <3>1. t = [v EXCEPT !.qfile = "doneq", !.qlock = FALSE, !.notices = n]
      BY <1>1, <1>7, <1>8, <2>2, Zenon DEF Reported
    <3> QED  BY <1>2, <1>8, <3>1 DEF JobRecord
  <2> QED  BY <2>1, <2>2
<1>10. Resting(t)
  BY <1>2, <1>9 DEF Resting, Free
<1>11. r.notices = 0 => Tale(t)
  BY <1>2, <1>9 DEF Tale
<1> QED  BY <1>1, <1>9, <1>10, <1>11

\* The job is rejected.
LEMMA VisitExhaustedShape ==
  ASSUME IInv, Shape, NEW j \in Jobs, Visiting(j), RejectJob(j)
  PROVE  Shape' /\ DoneStays /\ Spared(j) /\ faxq'.job[j].on # "blocked"
<1>1. PICK r : r = faxq.job[j]
  OBVIOUS
<1>2. /\ Resting(r) /\ r.on = "runq" /\ Visited(j) = faxq /\ Here(faxq, j, r)
      /\ pc = "scan" /\ faxq.running /\ r.state = "ready"
  BY <1>1, VisitedIs
<1>3. PICK a, u : a = SetDead(faxq, j) /\ u = Buried(r)
  OBVIOUS
<1>4. Freed(faxq, a, j, u, r.modem) /\ LeftDest(faxq, a, j) /\ Here(a, j, u)
  BY <1>2, <1>3, SetDeadIs
<1>5. PICK t : t = Reported(u)
  OBVIOUS
<1>6. faxq' = DeleteRequest(a, j)
  BY <1>2, <1>3 DEF RejectJob
<1>7. Moved(a, faxq', j, t) /\ Here(faxq', j, t)
  BY <1>4, <1>5, <1>6, DeleteRequestIs
<1>8. r.modem = NoModem /\ r.child = "none" /\ r \in JobRecord
  BY <1>2 DEF Resting, Free, Here
<1>9. Freed(faxq, faxq', j, t, NoModem) /\ LeftDest(faxq, faxq', j)
  BY <1>4, <1>7, <1>8, StepChain DEF Freed, Moved, LeftDest, SameDest
<1>10. Resting(t) /\ t.on = "deadq" /\ (r.notices = 0 => Tale(t))
  BY <1>3, <1>5, <1>8, OverIs
<1>11. ~KillTimers => Tale(t) /\ r.state # "done"
  BY <1>1, <1>2, <1>10 DEF Shape, Reports, Tale
<1> QED  BY <1>1, <1>2, <1>9, <1>10, <1>11, RestBuried DEF Visiting, RejectJob, OnToNext

\* The job is put back to sleep.
LEMMA VisitDelayedShape ==
  ASSUME IInv, Shape, NEW j \in Jobs, VisitDelayed(j)
  PROVE  /\ Shape' /\ DoneStays /\ Spared(j)
         /\ faxq'.job[j].on = "sleepq" /\ faxq'.job[j].tries = faxq.job[j].tries
<1>1. PICK r : r = faxq.job[j]
  OBVIOUS
<1>2. /\ Resting(r) /\ r.on = "runq" /\ Visited(j) = faxq /\ Here(faxq, j, r)
      /\ pc = "scan" /\ faxq.running /\ r.state = "ready"
  BY <1>1, VisitedIs DEF VisitDelayed, Eligible
<1>3. PICK a, u : a = Unlist(faxq, j) /\ u = Unlisted(r)
  OBVIOUS
<1>4. Moved(faxq, a, j, u) /\ Here(a, j, u)
  BY <1>2, <1>3, UnlistMoved
<1>5. u = [r EXCEPT !.on = "none"] /\ r \in JobRecord
  BY <1>2, <1>3, UnlistedIs DEF Here
<1>6. u.on = "none" /\ u.modem = r.modem
  BY <1>5, RecordPlaces DEF JobRecord
<1>7. PICK t : t = Delayed(u)
  OBVIOUS
<1>8. faxq' = DelayJob(a, j)
  BY <1>2, <1>3 DEF VisitDelayed
<1>9. Freed(a, faxq', j, t, u.modem) /\ SameDest(a, faxq', j)
  BY <1>4, <1>6, <1>7, <1>8, DelayJobIs
<1>10. r.modem = NoModem
  BY <1>2 DEF Resting, Free
<1>11. Moved(faxq, faxq', j, t)
  <2>1. Step(faxq, faxq', j, t)
    BY <1>4, <1>9, StepChain DEF Moved, Freed
  <2>2. Without(a, NoModem) = a.modem
    BY <1>4, WithoutIs DEF Here
  <2> QED  BY <1>4, <1>6, <1>9, <1>10, <2>1, <2>2 DEF Moved, Freed, SameDest
<1>12. /\ t.on = "sleepq" /\ t.state = "sleeping" /\ t.tts /\ t.modem = NoModem
       /\ t.child = r.child /\ (t.qlock <=> r.qlock) /\ (t.suspendPending <=> r.suspendPending)
       /\ t.notices = r.notices /\ t.qfile = r.qfile /\ t.tries = r.tries
  BY <1>5, <1>7, RecordPlaces DEF Delayed, Asleep, JobRecord
<1>13. Resting(t)
  BY <1>2, <1>12 DEF Resting, Free
<1>14. ~KillTimers => Tale(t) /\ r.state # "done"
  BY <1>1, <1>2, <1>12 DEF Shape, Reports, Tale
<1>15. faxq'.job[j] = t
  BY <1>11 DEF Moved, Step
<1> QED  BY <1>1, <1>2, <1>11, <1>12, <1>13, <1>14, <1>15, RestMoved
         DEF VisitDelayed, Eligible, Visiting, OnToNext

\* The job is blocked by the calls to its destination.
LEMMA VisitBlockedShape ==
  ASSUME IInv, Shape, NEW j \in Jobs, VisitBlocked(j)
  PROVE  /\ Shape' /\ DoneStays /\ Spared(j)
         /\ faxq'.job[j].tries = faxq.job[j].tries
<1>1. PICK r : r = faxq.job[j]
  OBVIOUS
<1>2. /\ Resting(r) /\ r.on = "runq" /\ Visited(j) = faxq /\ Here(faxq, j, r)
      /\ pc = "scan" /\ faxq.running /\ r.state = "ready"
  BY <1>1, VisitedIs DEF VisitBlocked, Eligible
<1>3. PICK a, u : a = Unlist(faxq, j) /\ u = Unlisted(r)
  OBVIOUS
<1>4. Moved(faxq, a, j, u) /\ Here(a, j, u)
  BY <1>2, <1>3, UnlistMoved
<1>5. u = [r EXCEPT !.on = "none"] /\ r \in JobRecord
  BY <1>2, <1>3, UnlistedIs DEF Here
<1>6. u.on = "none"
  BY <1>5, RecordPlaces DEF JobRecord
<1>7. PICK b, v : b = Insert(a, j, "blocked") /\ v = [u EXCEPT !.on = "blocked"]
  OBVIOUS
<1>8. Moved(a, b, j, v) /\ Here(b, j, v)
  BY <1>4, <1>6, <1>7, RecordPlaces, InsertMoved
<1>9. PICK c, t : c = [b EXCEPT !.job[j].state = "blocked"] /\ t = [v EXCEPT !.state = "blocked"]
  OBVIOUS
<1>10. Moved(b, c, j, t) /\ Here(c, j, t)
  BY <1>8, <1>9, RecordPlaces, StateSet
<1>11. Moved(faxq, c, j, t)
  BY <1>4, <1>8, <1>10, MovedChain
<1>12. PICK x : x = faxq.di[DestOf[j]]
  OBVIOUS
<1>13. PICK y : y = [x EXCEPT !.blocked = @ + 1]
  OBVIOUS
<1>14. x \in DestRecord /\ y \in DestRecord
  <2>1. x \in DestRecord
    BY <1>2, <1>12, EntryType, DestOfType DEF Here
  <2> QED  BY <1>13, <2>1 DEF DestRecord
<1>15. y.active = x.active /\ y.calls = x.calls /\ y.pending = x.pending /\ y.blocked = x.blocked + 1
  BY <1>13, <1>14 DEF DestRecord
<1>16. c.di[DestOf[j]] = x
  BY <1>11, <1>12 DEF Moved, SameDest
<1>17. faxq' = [c EXCEPT !.di[DestOf[j]] = y]
  <2>1. faxq' = [b EXCEPT !.job[j].state = "blocked", !.di[DestOf[j]].blocked = @ + 1]
    BY <1>2, <1>3, <1>7 DEF VisitBlocked
  <2>2. faxq' = [c EXCEPT !.di[DestOf[j]].blocked = @ + 1]
    BY <1>9, <2>1
  <2> QED  BY <1>13, <1>16, <2>2
<1>18. Turned(c, faxq', j, t, y) /\ Here(faxq', j, t)
  BY <1>10, <1>14, <1>17, EntrySet
<1>19. Step(faxq, faxq', j, t) /\ faxq'.modem = faxq.modem /\ faxq'.fault = faxq.fault
       /\ faxq'.di[DestOf[j]] = y
  BY <1>11, <1>18, StepChain DEF Turned, Moved
<1>20. /\ t.on = "blocked" /\ t.state = "blocked" /\ (t.tts <=> r.tts) /\ t.modem = r.modem
       /\ t.child = r.child /\ (t.qlock <=> r.qlock) /\ (t.suspendPending <=> r.suspendPending)
       /\ t.notices = r.notices /\ t.qfile = r.qfile /\ t.tries = r.tries
  BY <1>5, <1>7, <1>9, RecordPlaces DEF JobRecord
<1>21. Resting(t)
  BY <1>2, <1>20 DEF Resting, Free
<1>22. ~KillTimers => Tale(t)
  BY <1>1, <1>2, <1>20 DEF Shape, Reports, Tale
<1>23. faxq \in Memory /\ Plain(faxq) /\ BlockedCounts
  BY <1>2 DEF Shape, Here
<1>24. Effect(j, t)
  BY <1>19, <1>23, StepEffect
<1>25. ~KillTimers => BlockedFor(faxq')
  <2>1. y.blocked + Blocks(r) = x.blocked + Blocks(t)
    BY <1>2, <1>14, <1>15, <1>20 DEF Blocks, DestRecord
  <2> QED  BY <1>1, <1>12, <1>19, <1>23, <2>1, BlockedStep DEF BlockedCounts, BlockedFor
<1>26. LocksSame
  BY <1>19 DEF LocksSame
<1>27. faxq'.job[j].tries = r.tries
  BY <1>19, <1>20 DEF Step
<1>28. Shape' /\ DoneStays /\ Spared(j)
  BY <1>1, <1>2, <1>12, <1>14, <1>15, <1>19, <1>20, <1>21, <1>22, <1>24, <1>25, <1>26, RestStep
     DEF VisitBlocked, Eligible, Visiting, OnToNext
<1> QED  BY <1>1, <1>27, <1>28

-----------------------------------------------------------------------------
(* Submission, timers and commands *)

\* Input is served between two handlers.
LEMMA InputOpen == ASSUME Input PROVE pc = "idle" /\ faxq.running /\ faxq.fault = "none"
BY DEF Input, Idle

\* Setting a record's list aside.
LEMMA AsideIs ==
  ASSUME NEW r \in JobRecord, Resting(r), NEW u, u = [r EXCEPT !.on = "none"]
  PROVE  /\ u \in JobRecord /\ u.on = "none" /\ u.modem = NoModem /\ u.child = "none"
         /\ ~u.qlock /\ ~u.suspendPending /\ u.state = r.state
         /\ u.notices = r.notices /\ u.qfile = r.qfile
         /\ (u.tts <=> r.tts) /\ (u.kill <=> r.kill)
<1>1. "none" \in Places
  BY RecordPlaces
<1> QED  BY <1>1 DEF JobRecord, Resting, Free

\* A record on the run queue, or asleep.
LEMMA ReadiedRests ==
  ASSUME NEW u \in JobRecord, u.modem = NoModem, u.child = "none", ~u.qlock, ~u.suspendPending,
         NEW t, \/ t = Readied(u) /\ ~u.tts
                \/ t = Asleep(u, "sleeping") \/ t = Asleep(u, "pending")
  PROVE  /\ Resting(t) /\ t.on \in {"runq", "sleepq"} /\ t.state # "done"
         /\ (u.notices = 0 => Tale(t))
<1>1. CASE t = Readied(u) /\ ~u.tts
  BY <1>1, ReadiedIs DEF Resting, Free, Tale
<1>2. CASE t = Asleep(u, "sleeping")
  <2>1. "sleeping" \in States
    BY RecordPlaces
  <2>2. /\ t.on = "sleepq" /\ t.state = "sleeping" /\ t.tts /\ t.modem = u.modem /\ t.child = u.child
        /\ t.notices = u.notices /\ t.qfile = u.qfile
        /\ (t.suspendPending <=> u.suspendPending) /\ (t.qlock <=> u.qlock)
    BY <1>2, <2>1, AsleepIs
  <2> QED  BY <2>2 DEF Resting, Free, Tale
<1>3. CASE t = Asleep(u, "pending")
  <2>1. "pending" \in States
    BY RecordPlaces
  <2>2. /\ t.on = "sleepq" /\ t.state = "pending" /\ t.tts /\ t.modem = u.modem /\ t.child = u.child
        /\ t.notices = u.notices /\ t.qfile = u.qfile
        /\ (t.suspendPending <=> u.suspendPending) /\ (t.qlock <=> u.qlock)
    BY <1>3, <2>1, AsleepIs
  <2> QED  BY <2>2 DEF Resting, Free, Tale
<1> QED  BY <1>1, <1>2, <1>3

\* A job is submitted, or submitted again after it was suspended.
LEMMA SubmitShape ==
  ASSUME IInv, Shape, NEW j \in Jobs, Submit(j)
  PROVE  Shape' /\ DoneStays /\ Spared(j) /\ faxq'.job[j].on # "blocked"
<1>1. PICK r : r = faxq.job[j]
  OBVIOUS
<1>2. /\ faxq \in Memory /\ Plain(faxq) /\ r \in JobRecord /\ Here(faxq, j, r)
      /\ Input /\ faxq.running /\ faxq.fault = "none"
  BY <1>1, MemoryType, RecordType, InputOpen DEF Shape, Submit, Here
<1>3. \/ r.on = "absent" /\ r.qfile = "sendq"
      \/ r.on # "absent" /\ r.state = "suspended"
  BY <1>1 DEF Submit
<1>4. Resting(r) /\ r.on \in {"absent", "suspendq"} /\ r.modem = NoModem /\ ~r.tts /\ ~r.qlock
  <2>1. Resting(r) \/ Busy(r)
    BY <1>1, <1>2, InputJobs
  <2> QED  BY <1>3, <2>1 DEF Resting, Busy, Free
<1>5. PICK q : q = IF r.on = "absent" /\ r.qfile = "sendq" THEN [faxq EXCEPT !.job[j].on = "none"]
                   ELSE ReadRequest(Remove(faxq, j), j)
  OBVIOUS
<1>6. PICK u : u = [r EXCEPT !.on = "none"]
  OBVIOUS
<1>7. /\ u \in JobRecord /\ u.on = "none" /\ u.modem = NoModem /\ u.child = "none"
      /\ ~u.qlock /\ ~u.suspendPending /\ u.notices = r.notices /\ u.qfile = r.qfile
      /\ ~u.tts
  BY <1>2, <1>4, <1>6, AsideIs
<1>8. Moved(faxq, q, j, u) /\ Here(q, j, u)
  <2>1. CASE r.on = "absent" /\ r.qfile = "sendq"
    BY <1>2, <1>5, <1>6, <2>1, RecordPlaces, OnSet
  <2>2. CASE ~(r.on = "absent" /\ r.qfile = "sendq")
    <3>1. PICK a : a = Remove(faxq, j)
      OBVIOUS
    <3>2. Moved(faxq, a, j, u)
      BY <1>1, <1>2, <1>3, <1>4, <1>6, <2>2, <3>1, RemoveIs DEF Moved
    <3>3. Here(a, j, u) /\ q = ReadRequest(a, j)
      BY <1>2, <1>5, <2>2, <3>1, <3>2, MovedHere
    <3>4. Alike(a, q) /\ q.fault = a.fault
      BY <1>7, <3>3, ReadRequestIs DEF Here
    <3> QED  BY <1>2, <3>2, <3>4, MovedAlike
  <2> QED  BY <2>1, <2>2
<1>9. PICK b, v : b = [q EXCEPT !.job[j].kill = TRUE] /\ v = [u EXCEPT !.kill = TRUE]
  OBVIOUS
<1>10. Moved(q, b, j, v) /\ Here(b, j, v)
  <2>1. TRUE \in BOOLEAN
    OBVIOUS
  <2> QED  BY <1>8, <1>9, <2>1, KillSet
<1>11. PICK c, w : c = [b EXCEPT !.job[j].expired = FALSE] /\ w = [v EXCEPT !.expired = FALSE]
  OBVIOUS
<1>12. Moved(b, c, j, w) /\ Here(c, j, w)
  <2>1. FALSE \in BOOLEAN
    OBVIOUS
  <2> QED  BY <1>10, <1>11, <2>1, ExpiredSet
<1>13. c = [q EXCEPT !.job[j].kill = TRUE, !.job[j].expired = FALSE]
  BY <1>9, <1>11
<1>14. Moved(faxq, c, j, w)
  BY <1>8, <1>10, <1>12, MovedChain
<1>15. /\ w \in JobRecord /\ w.on = "none" /\ w.modem = NoModem /\ w.child = "none"
       /\ ~w.qlock /\ ~w.suspendPending /\ w.notices = r.notices /\ w.qfile = r.qfile
       /\ ~w.tts
  BY <1>7, <1>9, <1>11 DEF JobRecord
<1>16. UNCHANGED <<pc, caller, cur, head, dest, frames>> /\ pc # "scan"
  <2>1. Handled
    BY DEF Submit
  <2> QED  BY <1>2, <2>1 DEF Handled, loop, Input, Idle
<1>17. ~KillTimers => r.notices = 0 /\ r.state # "done"
  BY <1>1, <1>3, <1>4 DEF Shape, Reports, Tale
<1>18. ASSUME NEW t, Moved(faxq, faxq', j, t), \/ t = Readied(w) \/ t = Asleep(w, "pending")
       PROVE  Shape' /\ DoneStays /\ Spared(j) /\ faxq'.job[j].on # "blocked"
  <2>1. /\ Resting(t) /\ t.on \in {"runq", "sleepq"}
        /\ (w.notices = 0 => Tale(t))
    BY <1>15, <1>18, ReadiedRests
  <2>2. faxq'.job[j] = t
    BY <1>18 DEF Moved, Step
  <2> QED  BY <1>1, <1>2, <1>4, <1>15, <1>16, <1>17, <1>18, <2>1, <2>2, RestMoved
<1>19. CASE faxq' = Poke(SetReadyToRun(c, j))
  <2>1. PICK d, t : d = SetReadyToRun(c, j) /\ t = Readied(w)
    OBVIOUS
  <2>2. Moved(c, d, j, t) /\ Here(d, j, t)
    BY <1>12, <1>15, <2>1, SetReadyToRunIs
  <2>3. Alike(d, faxq') /\ faxq'.fault = d.fault
    BY <1>19, <2>1, <2>2, PokeIs DEF Here
  <2>4. Moved(faxq, d, j, t)
    BY <1>14, <2>2, MovedChain
  <2>5. Moved(faxq, faxq', j, t)
    BY <1>2, <2>3, <2>4, MovedAlike
  <2> QED  BY <1>18, <2>1, <2>5
<1>20. CASE faxq' = Poke(SetSleep(c, j, "pending"))
  <2>1. PICK d, t : d = SetSleep(c, j, "pending") /\ t = Asleep(w, "pending")
    OBVIOUS
  <2>2. Moved(c, d, j, t) /\ Here(d, j, t)
    BY <1>12, <1>15, <2>1, SetSleepIs, RecordPlaces
  <2>3. Alike(d, faxq') /\ faxq'.fault = d.fault
    BY <1>20, <2>1, <2>2, PokeIs DEF Here
  <2>4. Moved(faxq, d, j, t)
    BY <1>14, <2>2, MovedChain
  <2>5. Moved(faxq, faxq', j, t)
    BY <1>2, <2>3, <2>4, MovedAlike
  <2> QED  BY <1>18, <2>1, <2>5
<1>21. CASE faxq' = SetDead(DeleteRequest(q, j), j)
  <2>1. PICK t : t = Buried(Reported(u))
    OBVIOUS
  <2>2. Freed(q, faxq', j, t, u.modem) /\ LeftDest(q, faxq', j)
    BY <1>8, <1>21, <2>1, DeadAfter
  <2>3. Freed(faxq, faxq', j, t, NoModem) /\ LeftDest(faxq, faxq', j)
    BY <1>7, <1>8, <2>2, StepChain, WithoutSame DEF Freed, LeftDest, Moved, SameDest
  <2>4. Resting(t) /\ t.on = "deadq" /\ (u.notices = 0 => Tale(t))
    BY <1>7, <2>1, OverIs
  <2> QED  BY <1>1, <1>2, <1>4, <1>7, <1>16, <1>17, <2>3, <2>4, RestBuried
<1> QED
  <2>1. q = IF faxq.job[j].on = "absent" /\ faxq.job[j].qfile = "sendq"
            THEN [faxq EXCEPT !.job[j].on = "none"] ELSE ReadRequest(Remove(faxq, j), j)
    BY <1>1, <1>5
  <2>2. \/ faxq' = Poke(SetReadyToRun([q EXCEPT !.job[j].kill = TRUE, !.job[j].expired = FALSE], j))
        \/ faxq' = Poke(SetSleep([q EXCEPT !.job[j].kill = TRUE, !.job[j].expired = FALSE], j, "pending"))
        \/ faxq' = SetDead(DeleteRequest(q, j), j)
    BY <2>1, Zenon DEF Submit
  <2> QED  BY <1>13, <1>19, <1>20, <1>21, <2>2

\* The time to send has come.
LEMMA TtsTimerShape ==
  ASSUME IInv, Shape, NEW j \in Jobs, TtsTimer(j)
  PROVE  /\ Shape' /\ DoneStays /\ Spared(j)
         /\ faxq'.job[j].on = "runq" /\ faxq'.job[j].tries = faxq.job[j].tries
<1>1. PICK r : r = faxq.job[j]
  OBVIOUS
<1>2. /\ faxq \in Memory /\ Plain(faxq) /\ r \in JobRecord /\ Here(faxq, j, r)
      /\ Input /\ faxq.running /\ faxq.fault = "none" /\ r.tts
  BY <1>1, MemoryType, RecordType, InputOpen DEF Shape, TtsTimer, Here
<1>3. Resting(r) /\ r.on = "sleepq" /\ r.state \in {"sleeping", "pending"}
  <2>1. Resting(r) \/ Busy(r)
    BY <1>1, <1>2, InputJobs
  <2> QED  BY <1>2, <2>1 DEF Resting, Busy
<1>4. PICK q, u : q = [faxq EXCEPT !.job[j].tts = FALSE] /\ u = [r EXCEPT !.tts = FALSE]
  OBVIOUS
<1>5. Moved(faxq, q, j, u) /\ Here(q, j, u)
  <2>1. FALSE \in BOOLEAN
    OBVIOUS
  <2> QED  BY <1>2, <1>4, <2>1, TtsSet
<1>6. /\ u \in JobRecord /\ u.on = "sleepq" /\ u.state = r.state /\ ~u.tts
      /\ u.modem = r.modem /\ u.child = r.child /\ (u.qlock <=> r.qlock)
      /\ (u.suspendPending <=> r.suspendPending) /\ u.notices = r.notices /\ u.qfile = r.qfile
      /\ u.tries = r.tries
  BY <1>2, <1>3, <1>4 DEF JobRecord
<1>7. PICK a, v : a = Unlist(q, j) /\ v = Unlisted(u)
  OBVIOUS
<1>8. Moved(q, a, j, v) /\ Here(a, j, v)
  BY <1>5, <1>7, UnlistMoved
<1>9. v = [u EXCEPT !.on = "none"]
  BY <1>6, <1>7, UnlistedIs
<1>10. /\ v \in JobRecord /\ v.on = "none" /\ ~v.tts /\ v.modem = NoModem /\ v.child = "none"
       /\ ~v.qlock /\ ~v.suspendPending /\ v.notices = r.notices /\ v.qfile = r.qfile
       /\ v.tries = r.tries
  BY <1>3, <1>6, <1>9, RecordPlaces DEF JobRecord, Resting, Free
<1>11. PICK b, t : b = SetReadyToRun(a, j) /\ t = Readied(v)
  OBVIOUS
<1>12. Moved(a, b, j, t) /\ Here(b, j, t)
  BY <1>8, <1>10, <1>11, SetReadyToRunIs
<1>13. /\ Resting(t) /\ t.on \in {"runq", "sleepq"} /\ ~t.qlock
       /\ (v.notices = 0 => Tale(t))
  BY <1>10, <1>11, ReadiedRests DEF Resting, Free
<1>14. PICK c : c = ReadRequest(b, j)
  OBVIOUS
<1>15. Alike(b, c) /\ c.fault = b.fault
  BY <1>12, <1>13, <1>14, ReadRequestIs DEF Here
<1>16. Moved(faxq, b, j, t)
  BY <1>5, <1>8, <1>12, MovedChain
<1>17. Moved(faxq, c, j, t) /\ Here(c, j, t)
  BY <1>2, <1>15, <1>16, MovedAlike
<1>18. faxq' = Poke(c)
  <2>1. q.job[j].state # "failed"
    BY <1>3, <1>5, <1>6 DEF Here
  <2>2. faxq' = Poke(IF q.job[j].state = "failed" THEN q
                     ELSE ReadRequest(SetReadyToRun(Unlist(q, j), j), j))
    BY <1>4, Zenon DEF TtsTimer
  <2> QED  BY <1>7, <1>11, <1>14, <2>1, <2>2
<1>19. Moved(faxq, faxq', j, t)
  BY <1>2, <1>17, <1>18, PokeIs, MovedAlike DEF Here
<1>20. ~KillTimers => Tale(t)
  <2>1. ~KillTimers => r.notices = 0
    BY <1>1, <1>3 DEF Shape, Reports, Tale
  <2> QED  BY <1>10, <1>13, <2>1
<1>21. t.on = "runq" /\ t.tries = r.tries
  BY <1>10, <1>11 DEF Readied, JobRecord
<1>22. faxq'.job[j] = t
  BY <1>19 DEF Moved, Step
<1> QED  BY <1>1, <1>2, <1>3, <1>13, <1>19, <1>20, <1>21, <1>22, RestMoved
         DEF TtsTimer, Handled, loop, Input, Idle

\* A step to a Busy job that leaves its destination, modem and locks alone,
\* except perhaps for jobs it wakes.
LEMMA BusyStep ==
  ASSUME IInv, Shape, NEW j \in Jobs, NEW r, r = faxq.job[j], NEW t, Effect(j, t),
         NEW x, NEW y, x = faxq.di[DestOf[j]], y = faxq'.di[DestOf[j]],
         Busy(r), Busy(t), t.modem = r.modem, faxq.running, Idle,
         UNCHANGED <<pc, caller, cur, head, dest>>,
         y.active = x.active, y.calls = x.calls, y.pending => x.pending, y \in DestRecord,
         frames' = frames \/ frames = <<>>, Waits',
         LocksSame, ~KillTimers => BlockedFor(faxq') /\ Tale(t)
  PROVE  Shape' /\ DoneStays /\ Spared(j)
<1>1. faxq \in Memory /\ Loops /\ Members /\ CallCounts
  BY MemoryType DEF Shape
<1>2. pc = "idle" /\ pc' = "idle"
  BY DEF Idle
<1>3. At(j)
  BY <1>2 DEF At, Handling
<1>4. Loops'
  <2>1. AtJob(j, t)'
    BY <1>2 DEF AtJob
  <2> QED  BY <1>1, <1>2, <2>1, LoopsAfter
<1>5. Listed(j, t, x, y)
  <2>1. j \in x.active
    BY <1>1, <1>2 DEF Members, Busy
  <2> QED  BY <2>1 DEF Listed, Busy
<1>6. Locking(r, t)
  BY DEF Locking
<1>7. \A e \in Dests : Slack(e) = 0 /\ Slack(e)' = 0
  BY <1>2 DEF Slack
<1>8. Dealt(j, r, t, x, y, Slack(DestOf[j]), Slack(DestOf[j])')
  <2>1. Slack(DestOf[j]) = 0 /\ Slack(DestOf[j])' = 0 /\ Cost(r) = Cost(t)
    BY <1>7, DestOfType DEF Cost
  <2>2. y.calls \in Nat /\ Cost(t) \in {0, 1}
    BY DEF DestRecord, Cost
  <2>3. y.pending => y.calls > 0
    BY <1>1, DestOfType DEF CallCounts
  <2> QED  BY <2>1, <2>2, <2>3 DEF Dealt
<1>9. /\ Handling(j)' \/ Resting(t) \/ Busy(t) \/ (Left(t) /\ frames' # <<>> /\ (Top.job)' = j)
      /\ frames' = frames \/ frames = <<>> \/ Top.job = j
      /\ pc = "process" => cur \in {j, NoJob}
      /\ \A e \in Dests \ {DestOf[j]} : Slack(e)' = Slack(e)
  BY <1>2, <1>7
<1>10. ~KillTimers => BlockedFor(faxq') /\ Tale(t) /\ r.state # "done"
  BY DEF Busy
<1> QED  BY <1>3, <1>4, <1>5, <1>6, <1>8, <1>9, <1>10, StepShape

\* The same with nobody woken.
LEMMA BusyMoved ==
  ASSUME IInv, Shape, NEW j \in Jobs, NEW r, r = faxq.job[j], NEW t, Moved(faxq, faxq', j, t),
         Busy(r), Busy(t), t.modem = r.modem, Idle, UNCHANGED <<pc, caller, cur, head, dest>>,
         frames' = frames \/ frames = <<>>, Waits',
         t.notices = r.notices, t.qfile = r.qfile
  PROVE  Shape' /\ DoneStays
<1>1. faxq \in Memory /\ Plain(faxq) /\ BlockedCounts /\ faxq.running
  BY MemoryType, IdleRuns DEF Shape
<1>2. PICK x, y : x = faxq.di[DestOf[j]] /\ y = faxq'.di[DestOf[j]]
  OBVIOUS
<1>3. y = x /\ faxq'.modem = faxq.modem /\ faxq'.fault = faxq.fault
  BY <1>2 DEF Moved, SameDest
<1>4. Step(faxq, faxq', j, t)
  BY DEF Moved
<1>5. Effect(j, t) /\ faxq' \in Memory
  BY <1>1, <1>3, <1>4, StepEffect DEF Step
<1>6. LocksSame
  BY <1>3 DEF LocksSame
<1>7. y \in DestRecord
  BY <1>2, <1>5, EntryType, DestOfType
<1>8. ~KillTimers => BlockedFor(faxq')
  <2>1. y.blocked + Blocks(r) = x.blocked + Blocks(t)
    BY <1>3 DEF Blocks, Busy
  <2>2. ~KillTimers => BlockedFor(faxq) /\ faxq \in Memory
    BY <1>1 DEF BlockedCounts, BlockedFor
  <2> QED  BY <1>2, <1>4, <2>1, <2>2, BlockedStep
<1>9. ~KillTimers => BlockedFor(faxq') /\ Tale(t)
  BY <1>8 DEF Shape, Reports, Tale, Busy
<1>10. y.active = x.active /\ y.calls = x.calls /\ (y.pending => x.pending)
  BY <1>3
<1> QED  BY <1>1, <1>2, <1>5, <1>6, <1>7, <1>9, <1>10, BusyStep

\* The kill time has come.
LEMMA KillTimerShape ==
  ASSUME IInv, Shape, NEW j \in Jobs, KillTimer(j)
  PROVE  Shape' /\ DoneStays
<1>1. PICK r : r = faxq.job[j]
  OBVIOUS
<1>2. /\ faxq \in Memory /\ Plain(faxq) /\ r \in JobRecord /\ Here(faxq, j, r) /\ Waits
      /\ Input /\ Idle /\ faxq.running /\ faxq.fault = "none" /\ KillTimers /\ r.kill
  BY <1>1, MemoryType, RecordType, InputOpen DEF Shape, KillTimer, Here, Input
<1>3. Resting(r) \/ Busy(r)
  BY <1>1, <1>2, InputJobs
<1>4. UNCHANGED <<pc, caller, cur, head, dest, frames>> /\ pc # "scan" /\ pc' = "idle"
  <2>1. Handled
    BY DEF KillTimer
  <2> QED  BY <1>2, <2>1 DEF Handled, loop, Idle
<1>5. PICK q, u : q = [faxq EXCEPT !.job[j].kill = FALSE] /\ u = [r EXCEPT !.kill = FALSE]
  OBVIOUS
<1>6. Moved(faxq, q, j, u) /\ Here(q, j, u)
  <2>1. FALSE \in BOOLEAN
    OBVIOUS
  <2> QED  BY <1>2, <1>5, <2>1, KillSet
<1>7. /\ u \in JobRecord /\ u.on = r.on /\ u.state = r.state /\ ~u.kill /\ (u.tts <=> r.tts)
      /\ u.modem = r.modem /\ u.child = r.child /\ (u.qlock <=> r.qlock) /\ u.pid = r.pid
      /\ (u.suspendPending <=> r.suspendPending) /\ u.notices = r.notices /\ u.qfile = r.qfile
  BY <1>2, <1>5 DEF JobRecord
<1>8. faxq' = IF r.state = "active" THEN [q EXCEPT !.job[j].expired = TRUE]
              ELSE SetDead(DeleteRequest(ReadRequest(
                     [Unlist(q, j) EXCEPT !.job[j].state = "failed"], j), j), j)
  <2>1. q.job[j].state = r.state
    BY <1>6, <1>7 DEF Here
  <2>2. faxq' = IF q.job[j].state = "active" THEN [q EXCEPT !.job[j].expired = TRUE]
                ELSE SetDead(DeleteRequest(ReadRequest(
                       [Unlist(q, j) EXCEPT !.job[j].state = "failed"], j), j), j)
    BY <1>5, Zenon DEF KillTimer
  <2> QED  BY <2>1, <2>2
<1>9. CASE r.state = "active"
  <2>1. Busy(r)
    BY <1>2, <1>3, <1>9 DEF Resting
  <2>2. PICK t : t = [u EXCEPT !.expired = TRUE]
    OBVIOUS
  <2>3. Moved(q, faxq', j, t)
    <3>1. TRUE \in BOOLEAN
      OBVIOUS
    <3> QED  BY <1>6, <1>8, <1>9, <2>2, <3>1, ExpiredSet
  <2>4. Moved(faxq, faxq', j, t)
    BY <1>6, <2>3, MovedChain
  <2>5. /\ Busy(t) /\ t.modem = r.modem /\ t.notices = r.notices /\ t.qfile = r.qfile
        /\ (t.suspendPending <=> r.suspendPending) /\ ~t.kill
    BY <1>7, <2>1, <2>2 DEF JobRecord, Busy
  <2>6. Effect(j, t)
    BY <1>2, <2>4, StepEffect DEF Moved
  <2>7. frames = <<>> \/ Waiting
    BY <1>2, Open
  <2>8. Waits'
    BY <1>1, <1>2, <1>4, <2>5, <2>6, <2>7, WaitsOn
  <2> QED  BY <1>1, <1>2, <1>4, <2>1, <2>4, <2>5, <2>8, BusyMoved
<1>10. CASE r.state # "active"
  <2>1. Resting(r)
    BY <1>3, <1>10 DEF Busy
  <2>2. PICK a, v : a = Unlist(q, j) /\ v = Unlisted(u)
    OBVIOUS
  <2>3. Moved(q, a, j, v) /\ Here(a, j, v)
    BY <1>6, <2>2, UnlistMoved
  <2>4. v \in JobRecord /\ v = [u EXCEPT !.on = v.on]
    BY <1>7, <2>2, UnlistedIs
  <2>5. PICK b, w : b = [a EXCEPT !.job[j].state = "failed"] /\ w = [v EXCEPT !.state = "failed"]
    OBVIOUS
  <2>6. Moved(a, b, j, w) /\ Here(b, j, w)
    <3>1. "failed" \in States
      BY RecordPlaces
    <3> QED  BY <2>3, <2>5, <3>1, StateSet
  <2>7. w \in JobRecord /\ w.modem = NoModem /\ w.child = "none" /\ ~w.qlock
    BY <1>7, <2>1, <2>4, <2>5, RecordPlaces DEF JobRecord, Resting, Free
  <2>8. PICK c : c = ReadRequest(b, j)
    OBVIOUS
  <2>9. Alike(b, c) /\ c.fault = b.fault
    BY <2>6, <2>7, <2>8, ReadRequestIs DEF Here
  <2>10. Moved(faxq, b, j, w)
    BY <1>6, <2>3, <2>6, MovedChain
  <2>11. Moved(faxq, c, j, w) /\ Here(c, j, w)
    BY <1>2, <2>9, <2>10, MovedAlike
  <2>12. PICK t : t = Buried(Reported(w))
    OBVIOUS
  <2>13. faxq' = SetDead(DeleteRequest(c, j), j)
    BY <1>8, <1>10, <2>2, <2>5, <2>8
  <2>14. Freed(c, faxq', j, t, w.modem) /\ LeftDest(c, faxq', j)
    BY <2>11, <2>12, <2>13, DeadAfter
  <2>15. Freed(faxq, faxq', j, t, NoModem) /\ LeftDest(faxq, faxq', j)
    <3>1. Step(faxq, faxq', j, t)
      BY <2>11, <2>14, StepChain DEF Freed, Moved
    <3>2. Without(c, NoModem) = Without(faxq, NoModem)
      BY <2>11, WithoutSame DEF Moved
    <3>3. LeftDest(faxq, faxq', j)
      BY <2>11, <2>14 DEF Moved, SameDest, LeftDest
    <3>4. faxq'.fault = faxq.fault
      BY <2>11, <2>14 DEF Moved, Freed
    <3> QED  BY <2>7, <2>14, <3>1, <3>2, <3>3, <3>4 DEF Freed
  <2>16. Resting(t) /\ t.on = "deadq"
    BY <2>7, <2>12, OverIs
  <2> QED  BY <1>1, <1>2, <1>4, <2>1, <2>15, <2>16, RestBuried
<1> QED  BY <1>9, <1>10

\* What suspendJob and terminateJob do to a job without a subprocess.
Answered(p, q, j, t) ==
  /\ Step(p, q, j, t) /\ LeftDest(p, q, j) /\ q.modem = p.modem /\ q.fault = p.fault
  /\ Resting(t) /\ t.on \in {"suspendq", "deadq"} /\ t.modem = NoModem /\ ~t.suspendPending

\* A suspended job rests, and a killed one is dead.
LEMMA AnswerIs ==
  ASSUME NEW p, NEW j, NEW r, Here(p, j, r), Free(r), ~r.tts, ~r.suspendPending,
         NEW cmd, NEW q, q = Answer(p, j, cmd)
  PROVE  \E t : Answered(p, q, j, t) /\ (r.notices = 0 => Tale(t))
<1>1. r \in JobRecord /\ p \in Memory /\ r.modem = NoModem /\ r.child = "none" /\ ~r.qlock
  BY DEF Here, Free
<1>2. PICK u : u = Departed(r)
  OBVIOUS
<1>3. u \in JobRecord /\ u = [r EXCEPT !.on = u.on, !.kill = FALSE]
  BY <1>1, <1>2, DepartedIs
<1>4. /\ u.modem = NoModem /\ u.child = "none" /\ ~u.qlock /\ ~u.kill /\ ~u.tts
      /\ ~u.suspendPending /\ u.notices = r.notices /\ u.qfile = r.qfile
  BY <1>1, <1>3 DEF JobRecord
<1>5. CASE cmd = "K"
  <2>1. q = Killed(p, j)
    BY <1>5 DEF Answer
  <2>2. PICK v, t : v = FailedNow(r) /\ t = Buried(Reported(v))
    OBVIOUS
  <2>3. Freed(p, q, j, t, r.modem) /\ LeftDest(p, q, j)
    BY <1>1, <2>1, <2>2, KilledIs
  <2>4. v = [u EXCEPT !.state = "failed"]
    BY <1>2, <2>2 DEF FailedNow
  <2>5. v \in JobRecord /\ v.child = "none" /\ v.notices = r.notices
    BY <1>3, <1>4, <2>4, RecordPlaces DEF JobRecord
  <2>6. Resting(t) /\ t.on = "deadq" /\ (v.notices = 0 => Tale(t))
    BY <2>2, <2>5, OverIs
  <2>7. t.modem = NoModem /\ ~t.suspendPending
    BY <2>6 DEF Resting, Free
  <2>8. q.modem = p.modem
    BY <1>1, <2>3, WithoutIs DEF Freed
  <2> QED  BY <2>3, <2>5, <2>6, <2>7, <2>8 DEF Answered, Freed
<1>6. CASE cmd # "K"
  <2>1. q = Suspended(p, j)
    BY <1>6 DEF Answer
  <2>2. PICK t : t = Paused(u)
    OBVIOUS
  <2>3. Purged(p, q, j, t)
    BY <1>1, <1>2, <2>1, <2>2, SuspendedIs
  <2>4. t = [u EXCEPT !.on = "suspendq", !.state = "suspended"]
    BY <2>2 DEF Paused
  <2>5. /\ t.on = "suspendq" /\ t.state = "suspended" /\ t.modem = NoModem /\ t.child = "none"
        /\ ~t.qlock /\ ~t.kill /\ ~t.tts /\ ~t.suspendPending
        /\ t.notices = r.notices /\ t.qfile = r.qfile
    BY <1>3, <1>4, <2>4, RecordPlaces DEF JobRecord
  <2>6. Resting(t) /\ (r.notices = 0 => Tale(t))
    BY <2>5 DEF Resting, Free, Tale
  <2> QED  BY <2>3, <2>5, <2>6 DEF Answered, Purged
<1> QED  BY <1>5, <1>6

\* suspendJob and terminateJob of a job that no subprocess works on.
LEMMA CommandShape ==
  ASSUME IInv, Shape, NEW j \in Jobs, NEW cmd, Command(j, cmd)
  PROVE  Shape' /\ DoneStays
<1>1. PICK r : r = faxq.job[j]
  OBVIOUS
<1>2. /\ faxq \in Memory /\ Plain(faxq) /\ r \in JobRecord /\ Here(faxq, j, r) /\ BlockedCounts
      /\ Input /\ faxq.running /\ faxq.fault = "none"
  BY <1>1, MemoryType, RecordType, InputOpen DEF Shape, Command, Commanded, Here
<1>3. /\ Resting(r) /\ r.on \notin {"absent", "deadq"} /\ r.state \notin {"active", "done", "failed"}
      /\ r.modem = NoModem
  <2>1. r.on # "absent" /\ r.state \notin {"active", "done", "failed"}
    BY <1>1 DEF Command, Commanded
  <2>2. Resting(r) \/ Busy(r)
    BY <1>1, <1>2, InputJobs
  <2> QED  BY <2>1, <2>2 DEF Resting, Busy, Free
<1>4. UNCHANGED <<pc, caller, cur, head, dest, frames>> /\ pc # "scan"
  <2>1. UNCHANGED <<loop, frames>>
    BY DEF Command
  <2> QED  BY <1>2, <2>1 DEF loop, Input, Idle
<1>5. PICK v : v = IF r.state \in {"sleeping", "pending"} THEN FALSE ELSE r.tts
  OBVIOUS
<1>6. v = FALSE
  BY <1>2, <1>3, <1>5 DEF Resting, JobRecord
<1>7. PICK q, u : q = [faxq EXCEPT !.job[j].tts = FALSE] /\ u = [r EXCEPT !.tts = FALSE]
  OBVIOUS
<1>8. Moved(faxq, q, j, u) /\ Here(q, j, u)
  <2>1. FALSE \in BOOLEAN
    OBVIOUS
  <2> QED  BY <1>2, <1>7, <2>1, TtsSet
<1>9. /\ u \in JobRecord /\ u.on = r.on /\ u.state = r.state /\ ~u.tts
      /\ u.modem = r.modem /\ u.child = r.child /\ (u.qlock <=> r.qlock)
      /\ (u.suspendPending <=> r.suspendPending) /\ u.notices = r.notices
  BY <1>2, <1>7 DEF JobRecord
<1>10. Free(u) /\ ~u.suspendPending
  BY <1>3, <1>9 DEF Resting, Free
<1>11. PICK x : x = faxq.di[DestOf[j]]
  OBVIOUS
<1>12. q.di[DestOf[j]] = x
  BY <1>8, <1>11 DEF Moved, SameDest
<1>13. PICK p : p = IF r.state = "blocked" THEN UnblockOne(q, DestOf[j]) ELSE q
  OBVIOUS
<1>14. \E z : /\ Turned(q, p, j, u, z) /\ Here(p, j, u)
              /\ z.active = x.active /\ z.calls = x.calls /\ z.pending = x.pending
              /\ z.blocked = (IF r.on = "blocked" THEN Minus(x.blocked, 1) ELSE x.blocked)
  <2>1. r.on = "blocked" <=> r.state = "blocked"
    BY <1>3 DEF Resting
  <2>2. CASE r.state = "blocked"
    BY <1>8, <1>12, <1>13, <2>1, <2>2, UnblockOneIs
  <2>3. CASE r.state # "blocked"
    <3>1. p = q
      BY <1>13, <2>3
    <3>2. Turned(q, p, j, u, x)
      BY <1>8, <1>12, <3>1 DEF Turned, Here, Step
    <3> QED  BY <1>8, <2>1, <2>3, <3>1, <3>2
  <2> QED  BY <2>2, <2>3
<1>15. PICK z : /\ Turned(q, p, j, u, z) /\ Here(p, j, u)
                /\ z.active = x.active /\ z.calls = x.calls /\ z.pending = x.pending
                /\ z.blocked = (IF r.on = "blocked" THEN Minus(x.blocked, 1) ELSE x.blocked)
  BY <1>14
<1>16. faxq' = Answer(p, j, cmd)
  <2>1. q = [faxq EXCEPT !.job[j].tts =
                 IF faxq.job[j].state \in {"sleeping", "pending"} THEN FALSE ELSE @]
    BY <1>1, <1>5, <1>6, <1>7
  <2>2. q.job[j].state = r.state
    BY <1>8, <1>9 DEF Here
  <2>3. faxq' = Answer(IF q.job[j].state = "blocked" THEN UnblockOne(q, DestOf[j]) ELSE q, j, cmd)
    BY <2>1, Zenon DEF Command
  <2> QED  BY <1>13, <2>2, <2>3
<1>17. PICK t : Answered(p, faxq', j, t) /\ (u.notices = 0 => Tale(t))
  BY <1>9, <1>10, <1>15, <1>16, AnswerIs
<1>18. PICK y : y = faxq'.di[DestOf[j]]
  OBVIOUS
<1>19. Dropped(z, y, j)
  BY <1>15, <1>17, <1>18 DEF Answered, LeftDest, Turned
<1>20. Step(faxq, p, j, u) /\ Step(faxq, faxq', j, t)
  BY <1>8, <1>15, <1>17, StepChain DEF Moved, Turned, Answered
<1>21. faxq'.modem = faxq.modem /\ faxq'.fault = faxq.fault
  BY <1>8, <1>15, <1>17 DEF Moved, Turned, Answered
<1>22. Effect(j, t)
  BY <1>2, <1>20, <1>21, StepEffect
<1>23. y.active = x.active \ {j} /\ (y = NewDest \/ (y.calls = x.calls /\ y.pending = x.pending))
  BY <1>15, <1>19 DEF Dropped
<1>24. ~KillTimers => BlockedFor(faxq')
  <2>1. \/ y.blocked + Blocks(r) = x.blocked + Blocks(t)
        \/ y.blocked = Minus(x.blocked, 1) /\ Blocks(r) = 1 /\ Blocks(t) = 0
    BY <1>15, <1>17, <1>19 DEF Blocks, Dropped, Answered
  <2>2. ~KillTimers => BlockedFor(faxq) /\ faxq \in Memory
    BY <1>2 DEF BlockedCounts, BlockedFor
  <2> QED  BY <1>1, <1>11, <1>18, <1>20, <2>1, <2>2, BlockedStep
<1>25. ~KillTimers => r.notices = 0
  BY <1>1, <1>3 DEF Shape, Reports, Tale
<1>26. ~KillTimers => BlockedFor(faxq') /\ Tale(t) /\ r.state # "done"
  BY <1>3, <1>9, <1>17, <1>24, <1>25
<1>27. Resting(t)
  BY <1>17 DEF Answered
<1> QED  BY <1>1, <1>2, <1>3, <1>4, <1>11, <1>18, <1>21, <1>22, <1>23, <1>26, <1>27, RestLeft

\* The same for an active job: a wait begins.
LEMMA CommandActiveShape ==
  ASSUME IInv, Shape, NEW j \in Jobs, NEW cmd \in Commands, CommandActive(j, cmd),
         Len(frames') <= 1
  PROVE  Shape' /\ DoneStays
<1>1. PICK r : r = faxq.job[j]
  OBVIOUS
<1>2. /\ faxq \in Memory /\ Plain(faxq) /\ r \in JobRecord /\ Here(faxq, j, r) /\ Waits
      /\ Input /\ Idle /\ faxq.running /\ faxq.fault = "none"
  BY <1>1, MemoryType, RecordType, InputOpen DEF Shape, CommandActive, Commanded, Here, Input
<1>3. Busy(r)
  <2>1. Resting(r) \/ Busy(r)
    BY <1>1, <1>2, InputJobs
  <2>2. r.state = "active" /\ r.on # "absent"
    BY <1>1 DEF CommandActive, Commanded
  <2> QED  BY <2>1, <2>2 DEF Resting
<1>4. PICK f : f = [job |-> j, cmd |-> cmd]
  OBVIOUS
<1>5. frames' = Append(frames, f) /\ frames \in Seq([job : Jobs, cmd : Commands])
  BY <1>4 DEF CommandActive, IInv, TypeOK
<1>6. Len(frames') = Len(frames) + 1 /\ Len(frames) \in Nat /\ frames'[Len(frames) + 1] = f
  <2>1. f \in [job : Jobs, cmd : Commands]
    BY <1>4
  <2> QED  BY <1>5, <2>1, AppendProperties
<1>7. Len(frames) = 0
  BY <1>6
<1>8. frames = <<>>
  BY <1>5, <1>7
<1>9. frames' # <<>> /\ (Top.job)' = j
  <2>1. (Top)' = f
    BY <1>6 DEF Top
  <2> QED  BY <1>4, <1>6, <1>7, <2>1
<1>10. UNCHANGED <<pc, caller, cur, head, dest>> /\ pc' = "idle" /\ phase' = "any"
  <2>1. UNCHANGED loop /\ phase' = "any"
    BY DEF CommandActive, Commanded
  <2> QED  BY <1>2, <2>1 DEF loop, Idle
<1>11. PICK q, u : q = [faxq EXCEPT !.job[j].suspendPending = TRUE]
                   /\ u = [r EXCEPT !.suspendPending = TRUE]
  OBVIOUS
<1>12. Moved(faxq, q, j, u) /\ Here(q, j, u)
  <2>1. TRUE \in BOOLEAN
    OBVIOUS
  <2> QED  BY <1>2, <1>11, <2>1, PendingSet
<1>13. PICK a, t : a = [q EXCEPT !.job[j].kill = FALSE] /\ t = [u EXCEPT !.kill = FALSE]
  OBVIOUS
<1>14. Moved(q, a, j, t) /\ Here(a, j, t)
  <2>1. FALSE \in BOOLEAN
    OBVIOUS
  <2> QED  BY <1>12, <1>13, <2>1, KillSet
<1>15. Moved(faxq, a, j, t)
  BY <1>12, <1>14, MovedChain
<1>16. /\ t \in JobRecord /\ t.on = r.on /\ t.state = r.state /\ ~t.kill /\ (t.tts <=> r.tts)
       /\ t.modem = r.modem /\ t.child = r.child /\ (t.qlock <=> r.qlock) /\ t.pid = r.pid
       /\ t.suspendPending /\ t.notices = r.notices /\ t.qfile = r.qfile
  BY <1>2, <1>11, <1>13 DEF JobRecord
<1>17. Busy(t)
  BY <1>3, <1>16 DEF Busy
<1>18. faxq' = a
  <2>1. a = [faxq EXCEPT !.job[j].suspendPending = TRUE, !.job[j].kill = FALSE]
    BY <1>11, <1>13
  <2>2. a.job[j].pid # "zero"
    BY <1>14, <1>16, <1>3 DEF Busy, Here
  <2> QED  BY <2>1, <2>2 DEF CommandActive
<1>19. Moved(faxq, faxq', j, t)
  BY <1>15, <1>18
<1>20. Waits'
  <2>1. \A k \in Jobs \ {j} : faxq'.job[k] = faxq.job[k]
    BY <1>19 DEF Moved, Step
  <2>2. faxq'.job[j] = t
    BY <1>19 DEF Moved, Step
  <2>3. \A k \in Jobs : faxq.job[k].suspendPending => FALSE
    BY <1>2, <1>8 DEF Waits
  <2>4. \A k \in Jobs : faxq'.job[k].suspendPending =>
          frames' # <<>> /\ (Top.job)' = k /\ ~faxq'.job[k].kill
    BY <1>9, <1>16, <2>1, <2>2, <2>3
  <2>5. Waiting'
    BY <1>9, <1>16, <2>2 DEF Waiting
  <2>6. ~(Commands \subseteq {"Q"})
    BY DEF CommandActive, Commanded
  <2> QED  BY <1>10, <2>4, <2>5, <2>6 DEF Waits
<1> QED  BY <1>1, <1>2, <1>3, <1>8, <1>10, <1>16, <1>17, <1>19, <1>20, BusyMoved

\* The end of the wait.
LEMMA ResumeShape ==
  ASSUME IInv, Shape, Resume, Len(frames) <= 1
  PROVE  Shape' /\ DoneStays
<1>1. PICK j : j = Top.job
  OBVIOUS
<1>2. PICK r : r = faxq.job[j]
  OBVIOUS
<1>3. frames # <<>> /\ ~Waiting /\ Idle /\ pc = "idle" /\ j \in Jobs /\ faxq.running
  BY <1>1, FramesType, IdleRuns DEF Resume
<1>4. /\ faxq \in Memory /\ Plain(faxq) /\ r \in JobRecord /\ Here(faxq, j, r) /\ Waits
      /\ BlockedCounts
  BY <1>2, <1>3, MemoryType, RecordType DEF Shape, Here
<1>5. frames' = <<>>
  <2>1. frames \in Seq([job : Jobs, cmd : Commands])
    BY DEF IInv, TypeOK
  <2>2. Len(frames) \in Nat
    BY <2>1
  <2>3. frames' = SubSeq(frames, 1, Len(frames) - 1)
    BY DEF Resume
  <2>4. Len(frames) - 1 <= 0
    BY <2>2
  <2> QED  BY <2>1, <2>2, <2>3, <2>4
<1>6. UNCHANGED <<pc, caller, cur, head, dest>> /\ pc' = "idle"
  BY <1>3 DEF Resume, loop
<1>7. r.on = "deadq" \/ Left(r)
  BY <1>1, <1>2, <1>3, <1>4 DEF Waits
<1>8. \A k \in Jobs : faxq.job[k].suspendPending => k = j
  BY <1>1, <1>4 DEF Waits
<1>9. At(j) /\ At(j)' /\ \A d \in Dests : Slack(d) = 0 /\ Slack(d)' = 0
  BY <1>3, <1>6 DEF At, Handling, Slack
<1>10. PICK x, y : x = faxq.di[DestOf[j]] /\ y = faxq'.di[DestOf[j]]
  OBVIOUS
<1>11. ASSUME NEW t, Effect(j, t), Resting(t), r.modem = NoModem,
              y.active = x.active \ {j} \/ y.active = x.active,
              t.on \in {"absent", "suspendq", "deadq"} => j \notin y.active,
              y = NewDest \/ (y.calls = x.calls /\ y.pending = x.pending),
              faxq'.modem = faxq.modem,
              ~KillTimers => BlockedFor(faxq') /\ Tale(t),
              r.state # "done"
       PROVE  Shape' /\ DoneStays
  <2>1. Loops'
    <3>1. AtJob(j, t)'
      BY <1>6 DEF AtJob
    <3> QED  BY <1>3, <1>4, <1>6, <1>11, <3>1, LoopsAfter DEF Shape
  <2>2. t.modem = NoModem /\ ~t.suspendPending
    BY <1>11 DEF Resting, Free
  <2>3. Waits'
    <3>1. \A k \in Jobs : ~faxq'.job[k].suspendPending
      <4> SUFFICES ASSUME NEW k \in Jobs PROVE ~faxq'.job[k].suspendPending
        OBVIOUS
      <4>1. CASE k = j
        BY <1>11, <2>2, <4>1 DEF Effect
      <4>2. CASE k # j
        <5>1. faxq.job[k] \in JobRecord /\ Woken(faxq.job[k], faxq'.job[k])
          BY <1>4, <1>11, <4>2, RecordType DEF Effect
        <5> QED  BY <1>8, <4>2, <5>1, WokenIs
      <4> QED  BY <4>1, <4>2
    <3> QED  BY <1>5, <1>6, <3>1 DEF Waits
  <2>4. Listed(j, t, x, y)
    BY <1>11, <2>2 DEF Listed
  <2>5. Locking(r, t)
    BY <1>11, <2>2 DEF Locking, LocksSame
  <2>6. Dealt(j, r, t, x, y, Slack(DestOf[j]), Slack(DestOf[j])')
    <3>1. Slack(DestOf[j]) = 0 /\ Slack(DestOf[j])' = 0 /\ Cost(r) = 0 /\ Cost(t) = 0
      BY <1>3, <1>9, <1>11, <2>2, DestOfType DEF Cost
    <3>2. y \in DestRecord
      BY <1>3, <1>10, <1>11, EntryType, DestOfType DEF Effect
    <3>3. CASE y = NewDest
      <4>1. x.active \subseteq {j}
        BY <1>11, <3>3 DEF NewDest
      <4> QED  BY <2>2, <3>1, <3>3, <4>1 DEF Dealt
    <3>4. CASE y.calls = x.calls /\ y.pending = x.pending
      <4>1. y.calls \in Nat
        BY <3>2 DEF DestRecord
      <4>2. y.pending => y.calls > 0
        BY <1>3, <1>10, <3>4, DestOfType DEF Shape, CallCounts
      <4> QED  BY <3>1, <3>4, <4>1, <4>2 DEF Dealt
    <3> QED  BY <1>11, <3>3, <3>4
  <2>7. /\ Handling(j)' \/ Resting(t) \/ Busy(t) \/ (Left(t) /\ frames' # <<>> /\ (Top.job)' = j)
        /\ frames' = frames \/ frames = <<>> \/ Top.job = j
        /\ pc = "process" => cur \in {j, NoJob}
        /\ \A e \in Dests \ {DestOf[j]} : Slack(e)' = Slack(e)
    BY <1>1, <1>3, <1>9, <1>11
  <2>8. ~KillTimers => BlockedFor(faxq') /\ Tale(t) /\ r.state # "done"
    BY <1>11
  <2> QED  BY <1>2, <1>3, <1>9, <1>10, <1>11, <2>1, <2>3, <2>4, <2>5, <2>6, <2>7, <2>8, StepShape
<1>12. CASE Left(r)
  <2>1. Free(r) /\ ~r.tts /\ ~r.suspendPending /\ r.on = "activeq" /\ r.state # "done"
        /\ r.state # "failed"
    BY <1>12 DEF Left
  <2>2. faxq' = Answer(faxq, j, Top.cmd)
    BY <1>1, <1>2, <2>1 DEF Resume
  <2>3. PICK t : Answered(faxq, faxq', j, t) /\ (r.notices = 0 => Tale(t))
    BY <1>4, <2>1, <2>2, AnswerIs
  <2>4. Effect(j, t)
    BY <1>3, <1>4, <2>3, StepEffect DEF Answered
  <2>5. Dropped(x, y, j) /\ Step(faxq, faxq', j, t)
    BY <1>10, <2>3 DEF Answered, LeftDest
  <2>6. ~KillTimers => BlockedFor(faxq') /\ Tale(t)
    <3>1. y.blocked + Blocks(r) = x.blocked + Blocks(t)
      BY <2>1, <2>3, <2>5 DEF Blocks, Dropped, Answered
    <3>2. ~KillTimers => BlockedFor(faxq) /\ faxq \in Memory
      BY <1>4 DEF BlockedCounts, BlockedFor
    <3>3. ~KillTimers => BlockedFor(faxq')
      BY <1>2, <1>3, <1>10, <2>5, <3>1, <3>2, BlockedStep
    <3>4. ~KillTimers => r.notices = 0
      BY <1>2, <1>3, <2>1 DEF Shape, Reports, Tale
    <3> QED  BY <2>3, <3>3, <3>4
  <2>7. Resting(t) /\ r.modem = NoModem /\ faxq'.modem = faxq.modem
    BY <2>1, <2>3 DEF Answered, Free
  <2> QED  BY <1>11, <2>1, <2>4, <2>5, <2>6, <2>7 DEF Dropped
<1>13. CASE r.on = "deadq"
  <2>1. Resting(r)
    BY <1>2, <1>3, <1>13, IdleJobs DEF Busy, Left
  <2>2. r.state \in {"done", "failed"}
    BY <1>13, <2>1 DEF Resting
  <2>3. faxq' = faxq
    BY <1>1, <1>2, <1>13, <2>2 DEF Resume
  <2>4. \A k \in Jobs : ~faxq.job[k].suspendPending
    BY <1>2, <1>8, <2>1 DEF Resting
  <2>5. Shape'
    <3>1. Loops'
      BY <1>6, <2>3 DEF Shape, Loops
    <3>2. Phases'
      <4> SUFFICES ASSUME NEW k \in Jobs PROVE Resting(faxq.job[k]) \/ Busy(faxq.job[k])
        BY <2>3 DEF Phases
      <4>1. CASE k = j
        BY <1>2, <2>1, <4>1
      <4>2. CASE k # j
        BY <1>1, <1>3, <4>2, IdleJobs
      <4> QED  BY <4>1, <4>2
    <3>3. Waits'
      BY <1>5, <1>6, <2>3, <2>4 DEF Waits
    <3>4. Members'
      BY <1>3, <1>6, <2>3 DEF Shape, Members
    <3>5. CallCounts'
      BY <1>9, <2>3 DEF Shape, CallCounts, Calm
    <3> QED  BY <2>3, <3>1, <3>2, <3>3, <3>4, <3>5
             DEF Shape, LocksHeld, BlockedCounts, Reports
  <2> QED  BY <2>3, <2>5 DEF DoneStays
<1> QED  BY <1>7, <1>12, <1>13

-----------------------------------------------------------------------------
(* A call is started *)

\* The job gets modem m and leaves the run queue.
LEMMA AssignedIs ==
  ASSUME NEW p, NEW j, NEW r, Here(p, j, r), r.on = "runq", NEW m \in Modems,
         NEW lock \in {"free", "faxq", "other"}, NEW q, q = Assigned(p, j, m, lock)
  PROVE  \E t : /\ Step(p, q, j, t) /\ SameDest(p, q, j) /\ q.fault = p.fault /\ Here(q, j, t)
                /\ t \in JobRecord /\ t.on = "none" /\ t.modem = m /\ t.qlock
                /\ t.state = r.state /\ t.child = r.child /\ (t.tts <=> r.tts)
                /\ (t.suspendPending <=> r.suspendPending) /\ (t.kill <=> r.kill)
                /\ t.notices = r.notices /\ t.qfile = r.qfile
                /\ q.modem[m].lock = lock
                /\ \A n \in Modems \ {m} : q.modem[n] = p.modem[n]
<1>1. PICK a, u : a = Unlist(p, j) /\ u = Unlisted(r)
  OBVIOUS
<1>2. Moved(p, a, j, u) /\ Here(a, j, u)
  BY <1>1, UnlistMoved
<1>3. u \in JobRecord /\ u.on = "none" /\ u = [r EXCEPT !.on = u.on]
  BY <1>1, UnlistedIs DEF Here
<1>4. PICK v : v = [[a.modem[m] EXCEPT !.state = "busy"] EXCEPT !.lock = lock]
  OBVIOUS
<1>5. a \in Memory /\ a.modem[m] \in ModemRecord
  BY <1>2 DEF Here, Memory
<1>6. v \in ModemRecord /\ v.lock = lock
  BY <1>4, <1>5 DEF ModemRecord
<1>7. PICK b : b = [a EXCEPT !.modem[m] = v]
  OBVIOUS
<1>8. /\ b \in Memory /\ b.job = a.job /\ b.di = a.di /\ b.fault = a.fault
      /\ b.running = a.running
      /\ b.modem[m] = v /\ \A n \in Modems \ {m} : b.modem[n] = a.modem[n]
  BY <1>5, <1>6, <1>7 DEF Memory
<1>9. Step(a, b, j, u) /\ Here(b, j, u)
  BY <1>2, <1>3, <1>8 DEF Step, Here, Plain
<1>10. PICK c, w : c = [b EXCEPT !.job[j].modem = m] /\ w = [u EXCEPT !.modem = m]
  OBVIOUS
<1>11. Moved(b, c, j, w) /\ Here(c, j, w)
  BY <1>9, <1>10, ModemOfJobSet
<1>12. PICK d, s : d = [c EXCEPT !.job[j].qlock = TRUE] /\ s = [w EXCEPT !.qlock = TRUE]
  OBVIOUS
<1>13. Moved(c, d, j, s) /\ Here(d, j, s)
  <2>1. TRUE \in BOOLEAN
    OBVIOUS
  <2> QED  BY <1>11, <1>12, <2>1, QlockSet
<1>14. PICK t : t = [s EXCEPT !.bnext = NoJob]
  OBVIOUS
<1>15. s \in JobRecord /\ s.bnext = NoJob
  BY <1>13 DEF Here, Plain
<1>16. t \in JobRecord /\ t.bnext = s.bnext /\ t.bprev = s.bprev
  BY <1>14, <1>15 DEF JobRecord
<1>17. q = [d EXCEPT !.job[j].bnext = NoJob]
  <2>1. b = [a EXCEPT !.modem[m].state = "busy", !.modem[m].lock = lock]
    BY <1>4, <1>5, <1>7 DEF Memory
  <2>2. q = [a EXCEPT !.modem[m].state = "busy", !.modem[m].lock = lock,
                      !.job[j].modem = m, !.job[j].qlock = TRUE, !.job[j].bnext = NoJob]
    BY <1>1 DEF Assigned
  <2> QED  BY <1>10, <1>12, <2>1, <2>2
<1>18. Replaced(d, q, j, t)
  BY <1>13, <1>14, <1>16, <1>17 DEF Replaced, Here, Memory
<1>19. Moved(d, q, j, t) /\ Here(q, j, t)
  BY <1>13, <1>18, ReplacedMoved
<1>20. Moved(b, q, j, t)
  BY <1>11, <1>13, <1>19, MovedChain
<1>21. Step(p, q, j, t)
  <2>1. Step(p, b, j, u)
    BY <1>2, <1>9, StepChain DEF Moved
  <2> QED  BY <1>20, <2>1, StepChain DEF Moved
<1>22. SameDest(p, q, j) /\ q.fault = p.fault
  BY <1>2, <1>8, <1>20 DEF Moved, SameDest
<1>23. q.modem[m].lock = lock /\ \A n \in Modems \ {m} : q.modem[n] = p.modem[n]
  BY <1>2, <1>6, <1>8, <1>20 DEF Moved
<1>24. /\ t.on = "none" /\ t.modem = m /\ t.qlock
       /\ t.state = r.state /\ t.child = r.child /\ (t.tts <=> r.tts)
       /\ (t.suspendPending <=> r.suspendPending) /\ (t.kill <=> r.kill)
       /\ t.notices = r.notices /\ t.qfile = r.qfile
  <2>1. r \in JobRecord
    BY DEF Here
  <2>2. /\ u.state = r.state /\ u.child = r.child /\ (u.tts <=> r.tts)
        /\ (u.suspendPending <=> r.suspendPending) /\ (u.kill <=> r.kill)
        /\ u.notices = r.notices /\ u.qfile = r.qfile
    BY <1>3, <2>1 DEF JobRecord
  <2>3. w \in JobRecord /\ s \in JobRecord
    BY <1>11, <1>13 DEF Here
  <2>4. /\ t.on = u.on /\ t.modem = m /\ t.qlock
        /\ t.state = u.state /\ t.child = u.child /\ (t.tts <=> u.tts)
        /\ (t.suspendPending <=> u.suspendPending) /\ (t.kill <=> u.kill)
        /\ t.notices = u.notices /\ t.qfile = u.qfile
    BY <1>3, <1>10, <1>12, <1>14, <2>3 DEF JobRecord
  <2> QED  BY <1>3, <2>2, <2>4
<1> QED  BY <1>16, <1>19, <1>21, <1>22, <1>23, <1>24

\* After the step job j has a modem, and is not blocked.
Held(j) == faxq'.job[j].on # "blocked" /\ faxq'.job[j].modem # NoModem

\* startCall, for a job that is called alone.
LEMMA StartCallShape ==
  ASSUME IInv, Shape, MaxBatchJobs = 1, NEW j \in Jobs, Visiting(j), ~MustBlock(j),
         NEW T, NEW m \in Modems, NEW lock \in {"free", "faxq", "other"},
         StartCall(Assigned(Polling(faxq, T), j, m, lock), j),
         IgnoreModemBusy = {} => faxq.modem[m].lock # "faxq" /\ lock = "faxq"
  PROVE  Shape' /\ DoneStays /\ Spared(j) /\ Held(j)
<1>1. PICK r : r = faxq.job[j]
  OBVIOUS
<1>2. /\ Resting(r) /\ r.on = "runq" /\ r.state = "ready" /\ Here(faxq, j, r)
      /\ pc = "scan" /\ faxq.running
  BY <1>1, VisitedIs
<1>3. faxq \in Memory /\ Plain(faxq) /\ r \in JobRecord /\ Waits /\ BlockedCounts
  BY <1>2, MemoryType DEF Here, Shape
<1>4. PICK p, b : p = Polling(faxq, T) /\ b = Assigned(p, j, m, lock)
  OBVIOUS
<1>5. /\ p \in Memory /\ p.job = faxq.job /\ p.di = faxq.di /\ p.fault = faxq.fault
      /\ p.running = faxq.running
      /\ \A n \in Modems : p.modem[n].lock = faxq.modem[n].lock
  BY <1>3, <1>4, PollingIs
<1>6. Step(faxq, p, j, r) /\ Here(p, j, r)
  BY <1>1, <1>2, <1>5 DEF Step, Here, Plain
<1>7. PICK t : /\ Step(p, b, j, t) /\ SameDest(p, b, j) /\ b.fault = p.fault /\ Here(b, j, t)
               /\ t \in JobRecord /\ t.on = "none" /\ t.modem = m /\ t.qlock
               /\ t.state = r.state /\ t.child = r.child /\ (t.tts <=> r.tts)
               /\ (t.suspendPending <=> r.suspendPending) /\ (t.kill <=> r.kill)
               /\ t.notices = r.notices /\ t.qfile = r.qfile
               /\ b.modem[m].lock = lock
               /\ \A n \in Modems \ {m} : b.modem[n] = p.modem[n]
  BY <1>2, <1>4, <1>6, AssignedIs
<1>8. /\ faxq' = Call(b, DestOf[j]) /\ pc' = "process" /\ todo' = todo \ {j}
      /\ cur' = j /\ head' = j /\ dest' = DestOf[j] /\ caller' = "scan"
  BY <1>4 DEF StartCall
<1>9. UNCHANGED <<frames, phase, commands>>
  BY DEF Visiting
<1>10. PICK x, y : x = faxq.di[DestOf[j]] /\ y = faxq'.di[DestOf[j]]
  OBVIOUS
<1>11. /\ y \in DestRecord /\ y.active = x.active /\ y.blocked = x.blocked
       /\ y.calls = x.calls + 1 /\ Turned(b, faxq', j, t, y)
  <2>1. b.di[DestOf[j]] = x
    BY <1>5, <1>7, <1>10 DEF SameDest
  <2>2. PICK z : /\ z \in DestRecord /\ z.active = x.active /\ z.blocked = x.blocked
                 /\ z.calls = x.calls + 1 /\ Turned(b, faxq', j, t, z)
    BY <1>7, <1>8, <2>1, CallIs
  <2>3. z = y
    BY <1>10, <2>2 DEF Turned
  <2> QED  BY <2>2, <2>3
<1>12. Step(faxq, faxq', j, t)
  <2>1. Step(faxq, b, j, t)
    BY <1>6, <1>7, StepChain
  <2> QED  BY <1>11, <2>1, StepChain DEF Turned
<1>13. faxq'.fault = faxq.fault /\ faxq'.modem = b.modem
  BY <1>5, <1>7, <1>11 DEF Turned
<1>14. Effect(j, t)
  BY <1>3, <1>12, <1>13, StepEffect
<1>15. /\ r.modem = NoModem /\ ~r.qlock /\ r.child = "none" /\ ~r.suspendPending /\ ~r.tts
       /\ m # NoModem
  BY <1>2, Constants DEF Resting, Free
<1>16. Entering(t)
  BY <1>2, <1>7, <1>15 DEF Entering
<1>17. At(j) /\ Handling(j)' /\ \A e \in Dests : Slack(e) = 0 /\ Slack(e)' = 0
  BY <1>2, <1>8, Constants DEF At, Handling, Slack
<1>18. Loops'
  <2>1. AtJob(j, t)'
    BY <1>8, <1>16, DestOfType DEF AtJob
  <2> QED  BY <1>2, <1>3, <1>8, <1>14, <2>1, LoopsAfter DEF Shape
<1>19. Waits'
  <2>1. frames = <<>> \/ Waiting
    BY <1>2, <1>3, Open
  <2> QED  BY <1>1, <1>3, <1>7, <1>8, <1>9, <1>14, <1>15, <2>1, WaitsOn
<1>20. Listed(j, t, x, y)
  BY <1>7, <1>8, <1>11 DEF Listed
<1>21. Locking(r, t)
  <2>1. IgnoreModemBusy = {} =>
          /\ faxq.modem[m].lock # "faxq" /\ faxq'.modem[m].lock = "faxq"
          /\ \A n \in Modems \ {m} : faxq'.modem[n].lock = "faxq" <=> faxq.modem[n].lock = "faxq"
    BY <1>5, <1>7, <1>13
  <2>2. LockTaken(t.modem)
    BY <1>7, <2>1 DEF LockTaken
  <2> QED  BY <1>7, <1>15, <2>2 DEF Locking
<1>22. Dealt(j, r, t, x, y, Slack(DestOf[j]), Slack(DestOf[j])')
  <2>1. Cost(r) = 0 /\ Cost(t) = 1 /\ Slack(DestOf[j]) = 0 /\ Slack(DestOf[j])' = 0
    BY <1>7, <1>15, <1>17, DestOfType DEF Cost
  <2>2. x.calls \in Nat
    BY <1>3, <1>10, DestOfType, EntryType
  <2>3. MaxConcurrentCalls > 0 => y.calls <= MaxConcurrentCalls
    BY <1>10, <1>11, <2>2, Constants DEF MustBlock
  <2> QED  BY <1>11, <2>1, <2>2, <2>3 DEF Dealt
<1>23. ~KillTimers => BlockedFor(faxq') /\ Tale(t) /\ r.state # "done"
  <2>1. y.blocked + Blocks(r) = x.blocked + Blocks(t)
    BY <1>2, <1>7, <1>11 DEF Blocks
  <2>2. ~KillTimers => BlockedFor(faxq) /\ faxq \in Memory
    BY <1>3 DEF BlockedCounts, BlockedFor
  <2>3. ~KillTimers => BlockedFor(faxq')
    BY <1>1, <1>10, <1>12, <2>1, <2>2, BlockedStep
  <2>4. ~KillTimers => Tale(r)
    BY <1>1 DEF Shape, Reports
  <2>5. ~KillTimers => Tale(t)
    BY <1>2, <1>7, <2>4 DEF Tale
  <2> QED  BY <1>2, <2>3, <2>5
<1>24. pc = "process" => cur \in {j, NoJob}
  BY <1>2
<1>25. \A e \in Dests \ {DestOf[j]} : Slack(e)' = Slack(e)
  BY <1>17
<1>26. Held(j)
  BY <1>7, <1>14, <1>15 DEF Effect, Held
<1> QED  BY <1>1, <1>2, <1>26, <1>9, <1>10, <1>14, <1>17, <1>18, <1>19, <1>20, <1>21, <1>22, <1>23,
            <1>24, <1>25, StepShape

\* A modem is found.
LEMMA VisitAssignShape ==
  ASSUME IInv, Shape, MaxBatchJobs = 1, NEW j \in Jobs, VisitAssign(j)
  PROVE  Shape' /\ DoneStays /\ Spared(j) /\ Held(j)
<1>1. Visiting(j) /\ ~MustBlock(j)
  BY DEF VisitAssign, Eligible
<1>2. Visited(j) = faxq
  <2>1. PICK r : r = faxq.job[j]
    OBVIOUS
  <2> QED  BY <1>1, <2>1, VisitedIs
<1>3. PICK m \in ReadyFor(j) \ Locked(j), T \in SUBSET Locked(j) :
        StartCall(Assigned(Polling(faxq, T), j, m, "faxq"), j)
  BY <1>2 DEF VisitAssign
<1>4. m \in Modems /\ faxq.modem[m].lock = "free"
  BY Constants DEF ReadyFor, Locked, Candidates
<1> QED  BY <1>1, <1>3, <1>4, StartCallShape

\* A modem is taken without its lock.
LEMMA VisitAssignBusyShape ==
  ASSUME IInv, Shape, MaxBatchJobs = 1, NEW j \in Jobs, VisitAssignBusy(j)
  PROVE  Shape' /\ DoneStays
<1>1. Visiting(j) /\ ~MustBlock(j)
  BY DEF VisitAssignBusy, Eligible
<1>2. Visited(j) = faxq
  <2>1. PICK r : r = faxq.job[j]
    OBVIOUS
  <2> QED  BY <1>1, <2>1, VisitedIs
<1>3. PICK m, lock, T : m = ModemOf[j] /\ lock = faxq.modem[m].lock /\ T = Locked(j)
  OBVIOUS
<1>4. StartCall(Assigned(Polling(faxq, T), j, m, lock), j) /\ Ignoring(j)
  BY <1>2, <1>3 DEF VisitAssignBusy
<1>5. m \in Modems /\ IgnoreModemBusy # {}
  BY <1>3, <1>4, Constants DEF Ignoring
<1>6. lock \in {"free", "faxq", "other"}
  <2>1. faxq.modem[m] \in ModemRecord
    BY <1>5, MemoryType DEF Memory
  <2> QED  BY <1>3, <2>1 DEF ModemRecord
<1> QED  BY <1>1, <1>4, <1>5, <1>6, StartCallShape

-----------------------------------------------------------------------------
(* processJob *)

\* A step of processJob about the job it is at.
LEMMA ProcessStep ==
  ASSUME IInv, Shape, pc = "process", NEW j \in Jobs, head = j, cur \in {j, NoJob},
         NEW r, r = faxq.job[j], NEW t, Effect(j, t),
         NEW x, NEW y, x = faxq.di[DestOf[j]], y = faxq'.di[DestOf[j]],
         UNCHANGED <<caller, todo, frames, phase>>,
         \/ pc' = "process" /\ dest' \in {dest, NoDest}
         \/ pc' = "scan" /\ caller = "scan"
         \/ pc' = "idle" /\ caller = "prepareJobDone",
         AtJob(j, t)',
         Handling(j)' \/ Resting(t) \/ Busy(t), ~t.suspendPending,
         Listed(j, t, x, y), Locking(r, t),
         Dealt(j, r, t, x, y, 0, Slack(DestOf[j])'),
         ~KillTimers => BlockedFor(faxq') /\ Tale(t)
  PROVE  Shape' /\ DoneStays /\ Spared(j)
<1>1. faxq \in Memory /\ Waits /\ Loops /\ j # NoJob /\ faxq.running
  BY MemoryType, ScanRuns, Constants DEF Shape
<1>2. dest = DestOf[j] /\ (Entering(r) \/ Sending(r))
  BY <1>1 DEF Loops
<1>3. r.on \in {"none", "activeq"} /\ r.state \in {"ready", "active"} /\ ~r.suspendPending
  BY <1>2 DEF Entering, Sending
<1>4. At(j)
  BY DEF At, Handling
<1>5. \A e \in Dests : Slack(e) = 0
  BY <1>1 DEF Slack
<1>6. \A e \in Dests \ {DestOf[j]} : Slack(e)' = 0
  <2>1. pc' = "process" => dest' \in {DestOf[j], NoDest}
    BY <1>2
  <2>2. NoDest \notin Dests
    BY Constants
  <2> QED  BY <2>1, <2>2 DEF Slack
<1>7. Loops'
  <2>1. pc = "process" /\ caller = "scan" => j \notin todo
    BY <1>1, <1>3 DEF Loops
  <2>2. pc' = "scan" \/ (pc' = "process" /\ caller' = "scan") =>
          /\ pc = "scan" \/ (pc = "process" /\ caller = "scan")
          /\ todo' \subseteq todo \ {j}
    BY <2>1
  <2> QED  BY <1>1, <2>2, LoopsAfter
<1>8. Waits'
  <2>1. Waiting' <=> Waiting
    <3>1. t.suspendPending <=> faxq.job[j].suspendPending
      BY <1>3, EffectType DEF JobRecord
    <3> QED  BY <1>1, <3>1, WaitingAfter
  <2>2. ~Waiting /\ frames # <<>> =>
          /\ phase = "reap" /\ caller = "prepareJobDone"
          /\ faxq.job[Top.job].on = "deadq" \/ Left(faxq.job[Top.job])
    BY <1>1 DEF Waits
  <2>3. ~Waiting /\ frames # <<>> => Top.job # j
    BY <1>2, <1>3, <2>2, Exclusive
  <2>4. pc' # "finish"
    OBVIOUS
  <2>5. frames # <<>> /\ ~Waiting' =>
           /\ phase' = "reap" /\ pc' # "scan"
           /\ pc' = "process" => caller' = "prepareJobDone"
           /\ pc' = "finish" => cur' # Top.job
           /\ Top.job = j => t.on = "deadq" \/ Left(t)
    BY <2>1, <2>2, <2>3, <2>4
  <2>6. frames # <<>> /\ pc' = "finish" => phase' = "reap"
    BY <2>4
  <2>7. t.suspendPending => faxq.job[j].suspendPending /\ ~t.kill
    OBVIOUS
  <2> QED  BY <1>1, <2>5, <2>6, <2>7, WaitsThrough
<1>9. Slack(DestOf[j]) = 0 /\ \A e \in Dests \ {DestOf[j]} : Slack(e)' = Slack(e)
  BY <1>5, <1>6, DestOfType
<1>10. Dealt(j, r, t, x, y, Slack(DestOf[j]), Slack(DestOf[j])')
  BY <1>9
<1>11. ~KillTimers => BlockedFor(faxq') /\ Tale(t) /\ r.state # "done"
  BY <1>3
<1>12. pc = "process" => cur \in {j, NoJob}
  OBVIOUS
<1>13. \/ Handling(j)' \/ Resting(t) \/ Busy(t)
       \/ Left(t) /\ frames' # <<>> /\ (Top.job)' = j
  OBVIOUS
<1>14. frames' = frames \/ frames = <<>> \/ Top.job = j
  OBVIOUS
<1> QED  BY <1>1, <1>4, <1>7, <1>8, <1>9, <1>10, <1>11, <1>12, <1>13, <1>14, StepShape

\* The job processJob is at.
LEMMA ProcessIs ==
  ASSUME IInv, Shape, Processing, cur # NoJob, NEW r, r = faxq.job[cur]
  PROVE  /\ pc = "process" /\ cur \in Jobs /\ head = cur /\ dest = DestOf[cur] /\ dest \in Dests
         /\ Entering(r) /\ Here(faxq, cur, r) /\ UNCHANGED <<frames, phase>> /\ dest # NoDest
         /\ (~KillTimers => Tale(r))
<1>1. pc = "process" /\ UNCHANGED <<frames, phase>>
  BY DEF Processing
<1>2. /\ head \in Jobs /\ dest = DestOf[head] /\ cur = head /\ Entering(faxq.job[head])
  BY <1>1 DEF Shape, Loops
<1>3. Here(faxq, cur, r)
  BY <1>2, MemoryType, RecordType DEF Here, Shape
<1>4. dest \in Dests /\ dest # NoDest
  BY <1>2, DestOfType, Constants
<1>5. ~KillTimers => Tale(r)
  BY <1>2 DEF Shape, Reports
<1> QED  BY <1>1, <1>2, <1>3, <1>4, <1>5

\* The job is active, and counted in its destination.
Enters(p, q, j, r, u) ==
  /\ Step(p, q, j, u) /\ Here(q, j, u) /\ q.modem = p.modem /\ q.fault = p.fault
  /\ q.di[DestOf[j]] \in DestRecord
  /\ q.di[DestOf[j]].active = p.di[DestOf[j]].active \cup {j}
  /\ q.di[DestOf[j]].blocked = p.di[DestOf[j]].blocked
  /\ q.di[DestOf[j]].calls = p.di[DestOf[j]].calls
  /\ q.di[DestOf[j]].pending = p.di[DestOf[j]].pending
  /\ u \in JobRecord /\ u.on = "activeq" /\ u.state = "active" /\ u.modem = r.modem
  /\ u.child = r.child /\ (u.qlock <=> r.qlock) /\ (u.tts <=> r.tts)
  /\ (u.suspendPending <=> r.suspendPending)
  /\ u.notices = r.notices /\ u.qfile = r.qfile

\* di.active(job) and setActive(job).
LEMMA ActivatedIs ==
  ASSUME NEW p, NEW j, NEW r, Here(p, j, r), r.on = "none",
         NEW q, q = SetActive(Active(p, j), j),
         NEW u, u = Activated(r)
  PROVE  Enters(p, q, j, r, u)
<1>1. PICK a, x, y : a = Active(p, j) /\ x = p.di[DestOf[j]] /\ y = q.di[DestOf[j]]
  OBVIOUS
<1>2. PICK z : /\ z \in DestRecord /\ z.active = x.active \cup {j} /\ z.blocked = x.blocked
               /\ z.calls = x.calls /\ z.pending = x.pending
               /\ Turned(p, a, j, r, z) /\ Here(a, j, r)
  BY <1>1, ActiveIs
<1>3. Moved(a, q, j, u) /\ Here(q, j, u)
  BY <1>1, <1>2, SetActiveIs
<1>4. z = y
  BY <1>1, <1>2, <1>3 DEF Turned, Moved, SameDest
<1>5. Step(p, q, j, u) /\ q.modem = p.modem /\ q.fault = p.fault
  BY <1>2, <1>3, StepChain DEF Turned, Moved
<1>6. r \in JobRecord
  BY DEF Here
<1>7. /\ u \in JobRecord /\ u.on = "activeq" /\ u.state = "active" /\ u.modem = r.modem
      /\ u.child = r.child /\ (u.qlock <=> r.qlock) /\ (u.tts <=> r.tts)
      /\ (u.suspendPending <=> r.suspendPending)
      /\ u.notices = r.notices /\ u.qfile = r.qfile
  BY <1>6, RecordPlaces DEF Activated, JobRecord
<1> QED  BY <1>1, <1>2, <1>3, <1>4, <1>5, <1>7 DEF Enters

\* The same for the job processJob is at.
LEMMA EnteredIs ==
  ASSUME IInv, Shape, Processing, cur # NoJob, NEW j, j = cur, NEW r, r = faxq.job[j],
         NEW q \in Entered, NEW u, u = Activated(r)
  PROVE  Enters(faxq, q, j, r, u)
<1>1. /\ Here(faxq, j, r) /\ Entering(r) /\ dest # NoDest /\ j \in Jobs
  BY ProcessIs
<1>2. q = SetActive(Active(faxq, j), j)
  BY <1>1 DEF Entered
<1>3. r.on = "none"
  BY <1>1 DEF Entering
<1> QED  BY <1>1, <1>2, <1>3, ActivatedIs


\* The jobs blocked on a destination are as many as before.
LEMMA BlockedSame ==
  ASSUME IInv, Shape, NEW q, NEW j \in Jobs, NEW r, r = faxq.job[j], NEW t, Step(faxq, q, j, t),
         r.on # "blocked", t.on # "blocked",
         q.di[DestOf[j]].blocked = faxq.di[DestOf[j]].blocked
  PROVE  ~KillTimers => BlockedFor(q)
<1>1. PICK x, y : x = faxq.di[DestOf[j]] /\ y = q.di[DestOf[j]]
  OBVIOUS
<1>2. Blocks(r) = 0 /\ Blocks(t) = 0
  BY DEF Blocks
<1>3. x.blocked \in Nat
  BY <1>1, MemoryType, DestOfType, EntryType
<1>4. y.blocked + Blocks(r) = x.blocked + Blocks(t)
  BY <1>1, <1>2, <1>3
<1>5. faxq \in Memory /\ (~KillTimers => BlockedFor(faxq))
  BY MemoryType DEF Shape, BlockedCounts, BlockedFor
<1> QED  BY <1>1, <1>4, <1>5, BlockedStep

\* prepareJobDone gives up its slot.
LEMMA PrepareFinishedIs ==
  ASSUME NEW q \in Memory, NEW s, s = PrepareFinished(q)
  PROVE  Alike(q, s) /\ s.fault = q.fault
<1>1. PICK n : n = Minus(q.numPrepares, 1)
  OBVIOUS
<1>2. n \in Nat
  BY <1>1 DEF Minus, Memory
<1>3. PICK a : a = [q EXCEPT !.numPrepares = n]
  OBVIOUS
<1>4. Alike(q, a) /\ a.fault = q.fault /\ a \in Memory
  BY <1>2, <1>3 DEF Alike, Memory
<1>5. s = a \/ s = Poke(a)
  BY <1>1, <1>3 DEF PrepareFinished
<1>6. CASE s = a
  BY <1>4, <1>6
<1>7. CASE s = Poke(a)
  <2>1. Alike(a, s) /\ s.fault = a.fault
    BY <1>4, <1>7, PokeIs
  <2> QED  BY <1>4, <2>1 DEF Alike
<1> QED  BY <1>5, <1>6, <1>7

\* The return of processJob.
LEMMA ReturnWithIs ==
  ASSUME NEW q \in Memory, ReturnWith(q)
  PROVE  /\ Alike(q, faxq') /\ faxq'.fault = q.fault
         /\ cur' = NoJob /\ head' = NoJob /\ dest' = NoDest /\ UNCHANGED <<caller, todo>>
         /\ (pc' = "scan" /\ caller = "scan") \/ (pc' = "idle" /\ caller = "prepareJobDone")
<1>1. Alike(q, q)
  BY DEF Alike
<1>2. CASE faxq' = PrepareFinished(q) /\ pc' = "idle" /\ caller = "prepareJobDone"
  BY <1>2, PrepareFinishedIs DEF ReturnWith
<1>3. CASE faxq' = q /\ pc' = "scan" /\ caller = "scan"
  BY <1>1, <1>3 DEF ReturnWith
<1> QED  BY <1>2, <1>3 DEF ReturnWith

\* The tale of a job goes on with its record.
LEMMA TaleStays ==
  ASSUME NEW r, NEW t, Tale(r), r.on \notin {"absent", "deadq"},
         t.on \notin {"absent", "deadq"}, t.state # "done",
         t.notices = r.notices, t.qfile = r.qfile
  PROVE  Tale(t)
BY DEF Tale

\* A step of processJob that keeps the call.
LEMMA ProcessKeeps ==
  ASSUME IInv, Shape, pc = "process", NEW j \in Jobs, head = j, cur \in {j, NoJob},
         NEW r, r = faxq.job[j], NEW q, NEW t, Step(faxq, q, j, t), Alike(q, faxq'),
         faxq'.fault = faxq.fault, q.modem = faxq.modem, t.modem = r.modem, t.modem # NoModem,
         NEW x, NEW y, x = faxq.di[DestOf[j]], y = q.di[DestOf[j]],
         y.active = x.active \cup {j} \/ (y.active = x.active /\ cur = NoJob),
         y.blocked = x.blocked, y.calls = x.calls, y.pending = x.pending,
         UNCHANGED <<caller, todo, frames, phase>>,
         \/ pc' = "process" /\ dest' \in {dest, NoDest} /\ head' # NoJob
         \/ pc' = "scan" /\ caller = "scan"
         \/ pc' = "idle" /\ caller = "prepareJobDone",
         AtJob(j, t)', Handling(j)' \/ Busy(t), ~t.suspendPending,
         t.on = "activeq", t.state = "active", t.notices = r.notices, t.qfile = r.qfile
  PROVE  Shape' /\ DoneStays /\ Spared(j) /\ Held(j)
<1>1. faxq \in Memory /\ Plain(faxq) /\ Members /\ Loops /\ CallCounts /\ j # NoJob
  BY MemoryType, Constants DEF Shape
<1>2. Entering(r) \/ Sending(r)
  BY <1>1 DEF Loops
<1>3. r.on \in {"none", "activeq"} /\ r.state \in {"ready", "active"}
  BY <1>2 DEF Entering, Sending
<1>4. Step(faxq, faxq', j, t)
  BY StepAlike
<1>5. Effect(j, t)
  BY <1>1, <1>4, StepEffect
<1>6. y = faxq'.di[DestOf[j]] /\ faxq'.modem = faxq.modem
  BY DEF Alike
<1>7. Listed(j, t, x, y)
  <2>1. CASE y.active = x.active \cup {j}
    BY <2>1 DEF Listed
  <2>2. CASE y.active = x.active /\ cur = NoJob
    <3>1. j \in x.active
      BY <1>1, <2>2 DEF Members
    <3> QED  BY <2>2, <3>1 DEF Listed
  <2> QED  BY <2>1, <2>2
<1>8. Locking(r, t)
  BY <1>6 DEF Locking, LocksSame
<1>9. Slack(DestOf[j])' = 0
  BY DEF Slack
<1>10. Dealt(j, r, t, x, y, 0, Slack(DestOf[j])')
  <2>1. x.calls \in Nat /\ (x.pending => x.calls > 0)
    BY <1>1, DestOfType, EntryType DEF CallCounts
  <2>2. Cost(r) = 1 /\ Cost(t) = 1
    BY DEF Cost
  <2> QED  BY <1>9, <2>1, <2>2 DEF Dealt
<1>11. ~KillTimers => BlockedFor(faxq') /\ Tale(t)
  <2>1. ~KillTimers => BlockedFor(faxq')
    <3>1. r.on # "blocked" /\ t.on # "blocked"
      BY <1>3
    <3>2. faxq'.di[DestOf[j]].blocked = faxq.di[DestOf[j]].blocked
      BY <1>6
    <3> QED  BY <1>4, <3>1, <3>2, BlockedSame
  <2>2. ~KillTimers => Tale(r)
    BY DEF Shape, Reports
  <2>3. r.on \notin {"absent", "deadq"} /\ t.on \notin {"absent", "deadq"} /\ t.state # "done"
    BY <1>3
  <2> QED  BY <2>1, <2>2, <2>3, TaleStays
<1>12. \/ pc' = "process" /\ dest' \in {dest, NoDest}
       \/ pc' = "scan" /\ caller = "scan"
       \/ pc' = "idle" /\ caller = "prepareJobDone"
  OBVIOUS
<1>13. Handling(j)' \/ Resting(t) \/ Busy(t)
  OBVIOUS
<1>14. Held(j)
  BY <1>5 DEF Effect, Held
<1> QED  BY <1>5, <1>6, <1>7, <1>8, <1>14, <1>10, <1>11, <1>12, <1>13, ProcessStep

\* Nothing is to be prepared.
LEMMA ProcessReadyShape ==
  ASSUME IInv, Shape, ProcessReady
  PROVE  Shape' /\ DoneStays /\ Spared(head) /\ Held(head)
<1>1. PICK j : j = cur
  OBVIOUS
<1>2. PICK r : r = faxq.job[j]
  OBVIOUS
<1>3. Processing /\ cur # NoJob
  BY DEF ProcessReady
<1>4. /\ pc = "process" /\ j \in Jobs /\ head = j /\ dest = DestOf[j] /\ dest \in Dests
      /\ Entering(r) /\ Here(faxq, j, r) /\ UNCHANGED <<frames, phase>>
  BY <1>1, <1>2, <1>3, ProcessIs
<1>5. PICK q \in Entered : OnToNextInBatch(q, head)
  BY DEF ProcessReady
<1>6. PICK x, y, u : x = faxq.di[DestOf[j]] /\ y = q.di[DestOf[j]] /\ u = Activated(r)
  OBVIOUS
<1>7. /\ Step(faxq, q, j, u) /\ Here(q, j, u) /\ q.modem = faxq.modem /\ q.fault = faxq.fault
      /\ y \in DestRecord /\ y.active = x.active \cup {j} /\ y.blocked = x.blocked
      /\ y.calls = x.calls /\ y.pending = x.pending
      /\ u \in JobRecord /\ u.on = "activeq" /\ u.state = "active" /\ u.modem = r.modem
      /\ u.child = "none" /\ u.qlock /\ ~u.tts /\ ~u.suspendPending /\ u.modem # NoModem
      /\ u.notices = r.notices /\ u.qfile = r.qfile
  <2>1. Enters(faxq, q, j, r, u)
    BY <1>1, <1>2, <1>3, <1>5, <1>6, EnteredIs
  <2> QED  BY <1>4, <1>6, <2>1 DEF Enters, Entering
<1>8. /\ faxq' = q /\ head' = j /\ cur' = NoJob /\ dest' = dest
      /\ UNCHANGED <<pc, caller, todo>>
  <2>1. r.bnext = NoJob
    BY <1>2, <1>4 DEF Here, Plain
  <2> QED  BY <1>1, <1>2, <1>4, <1>5, <2>1 DEF ProcessReady, OnToNextInBatch
<1>9. Sending(u) /\ j # NoJob
  BY <1>1, <1>3, <1>7 DEF Sending
<1>10. AtJob(j, u)' /\ Handling(j)'
  BY <1>4, <1>8, <1>9 DEF AtJob, Handling
<1>11. Alike(q, faxq') /\ faxq'.fault = faxq.fault
  BY <1>7, <1>8 DEF Alike, Here
<1> QED  BY <1>1, <1>2, <1>4, <1>6, <1>7, <1>8, <1>9, <1>10, <1>11, ProcessKeeps

\* The preparation of the job, or its transmission, has begun.
Begun(r, c) == [r EXCEPT !.child = c, !.pid = "set", !.qlock = FALSE]
BeganAt(p, j, c) ==
  [p EXCEPT !.job[j].child = c, !.job[j].pid = "set", !.job[j].qlock = FALSE]

\* A subprocess is started for the job.
LEMMA BusyIs ==
  ASSUME NEW p, NEW j, NEW r, Here(p, j, r), NEW c \in {"prepare", "send"},
         NEW q, q = BeganAt(p, j, c), NEW t, t = Begun(r, c)
  PROVE  Moved(p, q, j, t) /\ Here(q, j, t)
<1>1. PICK a, u : a = [p EXCEPT !.job[j].child = c] /\ u = [r EXCEPT !.child = c]
  OBVIOUS
<1>2. Moved(p, a, j, u) /\ Here(a, j, u)
  BY <1>1, ChildSet
<1>3. PICK b, v : b = [a EXCEPT !.job[j].pid = "set"] /\ v = [u EXCEPT !.pid = "set"]
  OBVIOUS
<1>4. Moved(a, b, j, v) /\ Here(b, j, v)
  <2>1. "set" \in {"zero", "set"}
    OBVIOUS
  <2> QED  BY <1>2, <1>3, <2>1, PidSet
<1>5. t = [v EXCEPT !.qlock = FALSE]
  BY <1>1, <1>3 DEF Begun
<1>6. q = [b EXCEPT !.job[j].qlock = FALSE]
  BY <1>1, <1>3, Zenon DEF BeganAt
<1>7. Moved(b, q, j, t) /\ Here(q, j, t)
  <2>1. FALSE \in BOOLEAN
    OBVIOUS
  <2> QED  BY <1>4, <1>5, <1>6, <2>1, QlockSet
<1>8. Moved(p, q, j, t)
  BY <1>2, <1>4, <1>7, MovedChain
<1> QED  BY <1>7, <1>8

\* The job is busy then.
LEMMA BegunIs ==
  ASSUME NEW r \in JobRecord, r.on = "activeq", r.state = "active", ~r.tts,
         ~r.suspendPending, r.modem # NoModem, NEW c \in {"prepare", "send"},
         NEW t, t = Begun(r, c)
  PROVE  /\ Busy(t) /\ ~t.suspendPending
         /\ t.on = "activeq" /\ t.state = "active" /\ t.modem = r.modem
         /\ t.notices = r.notices /\ t.qfile = r.qfile
<1>1. /\ t.on = r.on /\ t.state = r.state /\ t.modem = r.modem /\ t.child = c /\ t.pid = "set"
      /\ ~t.qlock /\ (t.tts <=> r.tts) /\ (t.suspendPending <=> r.suspendPending)
      /\ t.notices = r.notices /\ t.qfile = r.qfile
  BY DEF JobRecord, Begun
<1> QED  BY <1>1 DEF Busy

\* The job is prepared.
LEMMA ProcessPrepareShape ==
  ASSUME IInv, Shape, ProcessPrepare
  PROVE  Shape' /\ DoneStays /\ Spared(head) /\ Held(head)
<1>1. PICK j : j = cur
  OBVIOUS
<1>2. PICK r : r = faxq.job[j]
  OBVIOUS
<1>3. Processing /\ cur # NoJob
  BY DEF ProcessPrepare
<1>4. /\ pc = "process" /\ j \in Jobs /\ head = j /\ dest = DestOf[j] /\ dest \in Dests
      /\ Entering(r) /\ Here(faxq, j, r) /\ UNCHANGED <<frames, phase>>
  BY <1>1, <1>2, <1>3, ProcessIs
<1>5. PICK q \in Entered : ReturnWith([q EXCEPT
        !.numPrepares = @ + 1, !.job[cur].child = "prepare",
        !.job[cur].pid = "set", !.job[cur].qlock = FALSE])
  BY DEF ProcessPrepare
<1>6. PICK x, y, u : x = faxq.di[DestOf[j]] /\ y = q.di[DestOf[j]] /\ u = Activated(r)
  OBVIOUS
<1>7. /\ Step(faxq, q, j, u) /\ Here(q, j, u) /\ q.modem = faxq.modem /\ q.fault = faxq.fault
      /\ y \in DestRecord /\ y.active = x.active \cup {j} /\ y.blocked = x.blocked
      /\ y.calls = x.calls /\ y.pending = x.pending
      /\ u \in JobRecord /\ u.on = "activeq" /\ u.state = "active" /\ u.modem = r.modem
      /\ u.child = "none" /\ u.qlock /\ ~u.tts /\ ~u.suspendPending /\ u.modem # NoModem
      /\ u.notices = r.notices /\ u.qfile = r.qfile
  <2>1. Enters(faxq, q, j, r, u)
    BY <1>1, <1>2, <1>3, <1>5, <1>6, EnteredIs
  <2> QED  BY <1>4, <1>6, <2>1 DEF Enters, Entering
<1>8. PICK a : a = [q EXCEPT !.numPrepares = @ + 1]
  OBVIOUS
<1>9. Moved(q, a, j, u) /\ Here(a, j, u)
  <2>1. Alike(q, a) /\ a.fault = q.fault
    BY <1>7, <1>8 DEF Alike, Here, Memory
  <2>2. Moved(q, q, j, u)
    BY <1>7 DEF Moved, Step, SameDest, Here
  <2> QED  BY <1>7, <2>1, <2>2, MovedAlike
<1>10. PICK b : b = BeganAt(a, j, "prepare")
  OBVIOUS
<1>10a. PICK t : t = Begun(u, "prepare")
  OBVIOUS
<1>11. /\ Moved(a, b, j, t) /\ Here(b, j, t) /\ Busy(t) /\ ~t.suspendPending
       /\ t.on = "activeq" /\ t.state = "active" /\ t.modem = u.modem
       /\ t.notices = u.notices /\ t.qfile = u.qfile
  <2>1. "prepare" \in {"prepare", "send"}
    OBVIOUS
  <2>2. Moved(a, b, j, t) /\ Here(b, j, t)
    BY <1>9, <1>10, <1>10a, <2>1, BusyIs
  <2> QED  BY <1>7, <1>10a, <2>1, <2>2, BegunIs
<1>12. ReturnWith(b)
  <2>1. b = [q EXCEPT !.numPrepares = @ + 1, !.job[j].child = "prepare",
                      !.job[j].pid = "set", !.job[j].qlock = FALSE]
    BY <1>8, <1>10, Zenon DEF BeganAt
  <2> QED  BY <1>1, <1>5, <2>1, Zenon
<1>13. /\ Alike(b, faxq') /\ faxq'.fault = b.fault
       /\ cur' = NoJob /\ head' = NoJob /\ dest' = NoDest /\ UNCHANGED <<caller, todo>>
       /\ (pc' = "scan" /\ caller = "scan") \/ (pc' = "idle" /\ caller = "prepareJobDone")
  BY <1>11, <1>12, ReturnWithIs DEF Here
<1>14. Step(faxq, b, j, t)
  <2>1. Moved(q, b, j, t)
    BY <1>9, <1>11, MovedChain
  <2> QED  BY <1>7, <2>1, StepChain DEF Moved
<1>15. y = b.di[DestOf[j]] /\ b.modem = faxq.modem /\ faxq'.fault = faxq.fault
  BY <1>6, <1>7, <1>9, <1>11, <1>13 DEF Moved, SameDest
<1>16. AtJob(j, t)'
  BY <1>13 DEF AtJob
<1>17. cur \in {j, NoJob} /\ t.modem = r.modem /\ t.modem # NoModem
       /\ t.notices = r.notices /\ t.qfile = r.qfile
  BY <1>1, <1>7, <1>11
<1> QED  BY <1>2, <1>4, <1>6, <1>7, <1>11, <1>13, <1>14, <1>15, <1>16, <1>17, ProcessKeeps

\* fork failed.
LEMMA ProcessForkFailsShape == ASSUME IInv, Shape, ProcessForkFails PROVE Shape' /\ DoneStays
<1>1. PICK j : j = cur
  OBVIOUS
<1>2. PICK r : r = faxq.job[j]
  OBVIOUS
<1>3. Processing /\ cur # NoJob
  BY DEF ProcessForkFails
<1>4. /\ pc = "process" /\ j \in Jobs /\ head = j /\ dest = DestOf[j] /\ dest \in Dests
      /\ Entering(r) /\ Here(faxq, j, r) /\ UNCHANGED <<frames, phase>>
      /\ (~KillTimers => Tale(r))
  BY <1>1, <1>2, <1>3, ProcessIs
<1>5. PICK q \in Entered :
        OnToNextInBatch([DelayJob(Unlist(q, cur), cur) EXCEPT
                          !.job[cur].qlock = FALSE, !.numPrepares = @ + 1],
                       faxq.job[cur].bnext)
  BY DEF ProcessForkFails
<1>6. PICK x, y, u : x = faxq.di[DestOf[j]] /\ y = q.di[DestOf[j]] /\ u = Activated(r)
  OBVIOUS
<1>7. /\ Step(faxq, q, j, u) /\ Here(q, j, u) /\ q.modem = faxq.modem /\ q.fault = faxq.fault
      /\ y \in DestRecord /\ y.active = x.active \cup {j} /\ y.blocked = x.blocked
      /\ y.calls = x.calls /\ y.pending = x.pending
      /\ u \in JobRecord /\ u.on = "activeq" /\ u.state = "active" /\ u.modem = r.modem
      /\ u.child = "none" /\ u.qlock /\ ~u.tts /\ ~u.suspendPending /\ u.modem # NoModem
      /\ u.notices = r.notices /\ u.qfile = r.qfile
  <2>1. Enters(faxq, q, j, r, u)
    BY <1>1, <1>2, <1>3, <1>5, <1>6, EnteredIs
  <2> QED  BY <1>4, <1>6, <2>1 DEF Enters, Entering
<1>8. PICK a, v : a = Unlist(q, j) /\ v = Unlisted(u)
  OBVIOUS
<1>9. Moved(q, a, j, v) /\ Here(a, j, v)
  BY <1>7, <1>8, UnlistMoved
<1>10. v \in JobRecord /\ v.on = "none" /\ v = [u EXCEPT !.on = v.on]
  BY <1>7, <1>8, UnlistedIs
<1>11. PICK b, w : b = DelayJob(a, j) /\ w = Delayed(v)
  OBVIOUS
<1>12. Freed(a, b, j, w, v.modem) /\ SameDest(a, b, j) /\ Here(b, j, w)
  BY <1>9, <1>10, <1>11, DelayJobIs
<1>13. PICK c, t : c = [b EXCEPT !.job[j].qlock = FALSE] /\ t = [w EXCEPT !.qlock = FALSE]
  OBVIOUS
<1>14. Moved(b, c, j, t) /\ Here(c, j, t)
  <2>1. FALSE \in BOOLEAN
    OBVIOUS
  <2> QED  BY <1>12, <1>13, <2>1, QlockSet
<1>15. /\ faxq' = [c EXCEPT !.numPrepares = @ + 1] /\ head' = NoJob /\ cur' = NoJob
       /\ dest' = dest /\ UNCHANGED <<pc, caller, todo>>
  <2>1. r.bnext = NoJob
    BY <1>2, <1>4 DEF Here, Plain
  <2>2. faxq' = [b EXCEPT !.job[j].qlock = FALSE, !.numPrepares = @ + 1]
    BY <1>1, <1>5, <1>8, <1>11 DEF OnToNextInBatch
  <2>3. [b EXCEPT !.job[j].qlock = FALSE, !.numPrepares = @ + 1] = [c EXCEPT !.numPrepares = @ + 1]
    BY <1>12, <1>13 DEF Here, Memory
  <2> QED  BY <1>1, <1>2, <1>5, <2>1, <2>2, <2>3 DEF ProcessForkFails, OnToNextInBatch
<1>16. Alike(c, faxq') /\ faxq'.fault = c.fault
  BY <1>14, <1>15 DEF Alike, Here, Memory
<1>17. Step(faxq, faxq', j, t)
  <2>1. Step(faxq, a, j, v)
    BY <1>7, <1>9, StepChain DEF Moved
  <2>2. Step(faxq, c, j, t)
    BY <1>12, <1>14, <2>1, StepChain DEF Moved, Freed
  <2> QED  BY <1>4, <1>16, <2>2, StepAlike
<1>18. faxq'.fault = faxq.fault /\ y = faxq'.di[DestOf[j]] /\ LockGiven(r.modem)
  <2>1. v.modem = r.modem
    BY <1>7, <1>10 DEF JobRecord
  <2>2. faxq'.modem = Without(a, r.modem)
    BY <1>12, <1>14, <1>16, <2>1 DEF Freed, Moved, Alike
  <2>3. a.modem = faxq.modem
    BY <1>7, <1>9 DEF Moved
  <2>4. Without(a, r.modem) = Without(faxq, r.modem)
    BY <2>3, WithoutSame
  <2> QED  BY <1>6, <1>7, <1>9, <1>12, <1>14, <1>16, <2>2, <2>4
           DEF Freed, Moved, Alike, SameDest, LockGiven
<1>19. Effect(j, t)
  BY <1>4, <1>17, <1>18, StepEffect DEF Here
<1>20. /\ t.on = "sleepq" /\ t.state = "sleeping" /\ t.tts /\ t.modem = NoModem /\ ~t.qlock
       /\ t.child = "none" /\ ~t.suspendPending /\ t.notices = r.notices /\ t.qfile = r.qfile
  <2>1. PICK s : s = Asleep(v, "sleeping")
    OBVIOUS
  <2>2. /\ s \in JobRecord /\ s.on = "sleepq" /\ s.state = "sleeping" /\ s.tts
        /\ s.child = v.child /\ s.notices = v.notices /\ s.qfile = v.qfile
        /\ (s.suspendPending <=> v.suspendPending)
    <3>1. "sleeping" \in States
      BY RecordPlaces
    <3> QED  BY <1>10, <2>1, <3>1, AsleepIs
  <2>3. w = [s EXCEPT !.modem = NoModem]
    BY <1>11, <2>1 DEF Delayed
  <2>4. /\ v.child = "none" /\ ~v.suspendPending /\ v.notices = r.notices /\ v.qfile = r.qfile
    BY <1>7, <1>10 DEF JobRecord
  <2> QED  BY <1>13, <2>2, <2>3, <2>4 DEF JobRecord
<1>21. Resting(t)
  BY <1>20 DEF Resting, Free
<1>22. j # NoJob /\ Cost(r) = 1 /\ Cost(t) = 0
  BY <1>1, <1>3, <1>4, <1>20 DEF Cost, Entering
<1>23. AtJob(j, t)' /\ Slack(DestOf[j])' = 1
  BY <1>4, <1>15 DEF AtJob, Slack
<1>24. Listed(j, t, x, y)
  BY <1>7, <1>20 DEF Listed
<1>25. Locking(r, t)
  BY <1>18, <1>20 DEF Locking
<1>26. Dealt(j, r, t, x, y, 0, Slack(DestOf[j])')
  <2>1. x.calls \in Nat /\ (x.pending => x.calls > 0)
    BY <1>4, <1>6, MemoryType, DestOfType, EntryType DEF Shape, CallCounts
  <2> QED  BY <1>7, <1>22, <1>23, <2>1 DEF Dealt
<1>27. ~KillTimers => BlockedFor(faxq') /\ Tale(t)
  <2>1. r.on = "none"
    BY <1>4 DEF Entering
  <2>2. ~KillTimers => Tale(t)
    <3>1. /\ r.on \notin {"absent", "deadq"} /\ t.on \notin {"absent", "deadq"}
          /\ t.state # "done"
      BY <1>20, <2>1
    <3> QED  BY <1>4, <1>20, <3>1, TaleStays
  <2>3. r.on # "blocked" /\ t.on # "blocked"
    BY <1>20, <2>1
  <2>4. faxq'.di[DestOf[j]].blocked = faxq.di[DestOf[j]].blocked
    BY <1>6, <1>7, <1>18
  <2> QED  BY <1>2, <1>4, <1>17, <2>2, <2>3, <2>4, BlockedSame
<1>28. /\ pc' = "process" /\ dest' \in {dest, NoDest} /\ cur \in {j, NoJob} /\ ~t.suspendPending
       /\ UNCHANGED <<caller, todo, frames, phase>>
  BY <1>1, <1>4, <1>15, <1>20
<1> QED  BY <1>2, <1>4, <1>6, <1>18, <1>19, <1>21, <1>23, <1>24, <1>25, <1>26, <1>27, <1>28,
            ProcessStep

\* The job cannot be sent with the modem.
LEMMA ProcessRejectShape == ASSUME IInv, Shape, ProcessReject PROVE Shape' /\ DoneStays
<1>1. PICK j : j = cur
  OBVIOUS
<1>2. PICK r : r = faxq.job[j]
  OBVIOUS
<1>3. Processing /\ cur # NoJob
  BY DEF ProcessReject
<1>4. /\ pc = "process" /\ j \in Jobs /\ head = j /\ dest = DestOf[j] /\ dest \in Dests
      /\ Entering(r) /\ Here(faxq, j, r) /\ UNCHANGED <<frames, phase>>
      /\ (~KillTimers => Tale(r))
  BY <1>1, <1>2, <1>3, ProcessIs
<1>5. PICK q \in Entered :
       LET failed == DeleteRequest([q EXCEPT !.job[cur].state = "failed"], cur)
           dead == SetDead(failed, cur)
       IN /\ OnToNextInBatch(dead, IF faxq.job[cur].bprev = NoJob
                                   THEN faxq.job[cur].bnext ELSE head)
          /\ dest' = IF dead.di[DestOf[cur]] = NewDest THEN NoDest ELSE dest
  BY DEF ProcessReject
<1>5a. q \in Entered
  BY <1>5
<1>6. PICK x, z, u : x = faxq.di[DestOf[j]] /\ z = q.di[DestOf[j]] /\ u = Activated(r)
  OBVIOUS
<1>7. /\ Step(faxq, q, j, u) /\ Here(q, j, u) /\ q.modem = faxq.modem /\ q.fault = faxq.fault
      /\ z \in DestRecord /\ z.active = x.active \cup {j} /\ z.blocked = x.blocked
      /\ z.calls = x.calls /\ z.pending = x.pending
      /\ u \in JobRecord /\ u.on = "activeq" /\ u.state = "active" /\ u.modem = r.modem
      /\ u.child = "none" /\ u.qlock /\ ~u.tts /\ ~u.suspendPending /\ u.modem # NoModem
      /\ u.notices = r.notices /\ u.qfile = r.qfile
  <2>1. Enters(faxq, q, j, r, u)
    BY <1>1, <1>2, <1>3, <1>5a, <1>6, EnteredIs
  <2> QED  BY <1>4, <1>6, <2>1 DEF Enters, Entering
<1>8. PICK a, v : a = [q EXCEPT !.job[j].state = "failed"] /\ v = [u EXCEPT !.state = "failed"]
  OBVIOUS
<1>9. Moved(q, a, j, v) /\ Here(a, j, v)
  <2>1. "failed" \in States
    BY RecordPlaces
  <2> QED  BY <1>7, <1>8, <2>1, StateSet
<1>10. PICK t : t = Buried(Reported(v))
  OBVIOUS
<1>11. PICK y : y = faxq'.di[DestOf[j]]
  OBVIOUS
<1>12. /\ faxq' = SetDead(DeleteRequest(a, j), j) /\ head' = NoJob /\ cur' = NoJob
       /\ dest' = (IF y = NewDest THEN NoDest ELSE dest) /\ UNCHANGED <<pc, caller, todo>>
       /\ "reject" \in PrepOutcomes
  <2>1. r.bnext = NoJob /\ r.bprev = NoJob
    BY <1>2, <1>4 DEF Here, Plain
  <2> QED  BY <1>1, <1>2, <1>5, <1>8, <1>11, <2>1 DEF ProcessReject, OnToNextInBatch
<1>13. Freed(a, faxq', j, t, v.modem) /\ LeftDest(a, faxq', j)
  <2>1. faxq' = SetDead(DeleteRequest(a, j), j)
    BY <1>12
  <2> QED  BY <1>9, <1>10, <2>1, DeadAfter
<1>14. /\ v \in JobRecord /\ v.state = "failed" /\ v.modem = r.modem /\ v.child = "none"
       /\ v.notices = r.notices
  BY <1>7, <1>8, <1>9 DEF JobRecord, Here
<1>15. Step(faxq, faxq', j, t)
  <2>1. Step(faxq, a, j, v)
    BY <1>7, <1>9, StepChain DEF Moved
  <2> QED  BY <1>13, <2>1, StepChain DEF Freed
<1>16. Dropped(z, y, j)
  BY <1>6, <1>9, <1>11, <1>13 DEF LeftDest, Moved, SameDest
<1>17. faxq'.fault = faxq.fault /\ LockGiven(r.modem)
  <2>1. faxq'.modem = Without(a, r.modem)
    BY <1>13, <1>14 DEF Freed
  <2>2. a.modem = faxq.modem
    BY <1>7, <1>9 DEF Moved
  <2>3. Without(a, r.modem) = Without(faxq, r.modem)
    BY <2>2, WithoutSame
  <2> QED  BY <1>7, <1>9, <1>13, <2>1, <2>3 DEF Freed, Moved, LockGiven
<1>18. Effect(j, t)
  BY <1>4, <1>15, <1>17, StepEffect DEF Here
<1>19. Resting(t) /\ t.on = "deadq" /\ t \in JobRecord /\ (r.notices = 0 => Tale(t))
  BY <1>10, <1>14, OverIs
<1>20. t.modem = NoModem /\ ~t.suspendPending
  BY <1>19 DEF Resting, Free
<1>21. j # NoJob /\ Cost(r) = 1 /\ Cost(t) = 0
  BY <1>1, <1>3, <1>4, <1>20 DEF Cost, Entering
<1>22. AtJob(j, t)'
  BY <1>4, <1>12 DEF AtJob
<1>23. y.active = x.active \ {j} /\ y.blocked = x.blocked
  BY <1>7, <1>16 DEF Dropped
<1>24. Listed(j, t, x, y)
  BY <1>20, <1>23 DEF Listed
<1>25. Locking(r, t)
  BY <1>17, <1>20 DEF Locking
<1>26. Dealt(j, r, t, x, y, 0, Slack(DestOf[j])')
  <2>1. x.calls \in Nat /\ (x.pending => x.calls > 0)
    BY <1>4, <1>6, MemoryType, DestOfType, EntryType DEF Shape, CallCounts
  <2>2. CASE y = NewDest
    <3>1. Slack(DestOf[j])' = 0
      BY <1>4, <1>12, <2>2, Constants DEF Slack
    <3>2. x.active \subseteq {j}
      BY <1>23, <2>2 DEF NewDest
    <3> QED  BY <1>20, <2>2, <3>1, <3>2 DEF Dealt
  <2>3. CASE y # NewDest
    <3>1. Slack(DestOf[j])' = 1
      BY <1>4, <1>12, <2>3 DEF Slack
    <3>2. y.calls = x.calls /\ y.pending = x.pending
      BY <1>7, <1>16, <2>3 DEF Dropped
    <3> QED  BY <1>21, <2>1, <3>1, <3>2 DEF Dealt
  <2> QED  BY <2>2, <2>3
<1>27. ~KillTimers => BlockedFor(faxq') /\ Tale(t)
  <2>1. r.on = "none"
    BY <1>4 DEF Entering
  <2>2. ~KillTimers => Tale(t)
    BY <1>4, <1>19, <2>1 DEF Tale
  <2>3. r.on # "blocked" /\ t.on # "blocked"
    BY <1>19, <2>1
  <2>4. faxq'.di[DestOf[j]].blocked = faxq.di[DestOf[j]].blocked
    BY <1>6, <1>11, <1>23
  <2> QED  BY <1>2, <1>4, <1>15, <2>2, <2>3, <2>4, BlockedSame
<1>28. /\ pc' = "process" /\ dest' \in {dest, NoDest} /\ cur \in {j, NoJob} /\ ~t.suspendPending
       /\ UNCHANGED <<caller, todo, frames, phase>>
  BY <1>1, <1>4, <1>12, <1>20
<1> QED  BY <1>2, <1>4, <1>6, <1>11, <1>18, <1>19, <1>22, <1>24, <1>25, <1>26, <1>27, <1>28,
            ProcessStep

\* The job processJob sends.
LEMMA SendingIs ==
  ASSUME IInv, Shape, Processing, cur = NoJob, head # NoJob, NEW r, r = faxq.job[head]
  PROVE  /\ pc = "process" /\ head \in Jobs /\ dest = DestOf[head] /\ dest \in Dests
         /\ Sending(r) /\ Here(faxq, head, r) /\ UNCHANGED <<frames, phase>>
         /\ (~KillTimers => Tale(r)) /\ Batch(faxq, head) = {head}
<1>1. pc = "process" /\ UNCHANGED <<frames, phase>>
  BY DEF Processing
<1>2. /\ head \in Jobs /\ dest = DestOf[head] /\ Sending(faxq.job[head])
  BY <1>1 DEF Shape, Loops
<1>3. Here(faxq, head, r)
  BY <1>2, MemoryType, RecordType DEF Here, Shape
<1>4. dest \in Dests
  BY <1>2, DestOfType
<1>5. ~KillTimers => Tale(r)
  BY <1>2 DEF Shape, Reports
<1>6. Batch(faxq, head) = {head}
  BY <1>2, BatchIs DEF Shape
<1> QED  BY <1>1, <1>2, <1>3, <1>4, <1>5, <1>6

\* The job is sent.
LEMMA SendJobStartShape ==
  ASSUME IInv, Shape, SendJobStart
  PROVE  Shape' /\ DoneStays /\ Spared(head) /\ Held(head)
<1>1. PICK j : j = head
  OBVIOUS
<1>2. PICK r : r = faxq.job[j]
  OBVIOUS
<1>3. Processing /\ cur = NoJob /\ head # NoJob
  BY DEF SendJobStart
<1>4. /\ pc = "process" /\ j \in Jobs /\ dest = DestOf[j] /\ dest \in Dests
      /\ Sending(r) /\ Here(faxq, j, r) /\ UNCHANGED <<frames, phase>>
      /\ Batch(faxq, j) = {j}
  BY <1>1, <1>2, <1>3, SendingIs
<1>5. /\ r \in JobRecord /\ r.on = "activeq" /\ r.state = "active" /\ ~r.tts /\ ~r.suspendPending
      /\ r.modem # NoModem /\ r.qlock
  BY <1>4 DEF Sending, Here
<1>6. PICK t : t = Begun(r, "send")
  OBVIOUS
<1>7. /\ t \in JobRecord /\ t.bprev = r.bprev /\ t.bnext = r.bnext
      /\ t = [r EXCEPT !.pid = "set", !.qlock = FALSE, !.child = "send"]
  BY <1>5, <1>6 DEF Begun, JobRecord
<1>8. /\ Busy(t) /\ ~t.suspendPending /\ t.on = "activeq" /\ t.state = "active"
      /\ t.modem = r.modem /\ t.notices = r.notices /\ t.qfile = r.qfile
  <2>1. "send" \in {"prepare", "send"}
    OBVIOUS
  <2> QED  BY <1>5, <1>6, <2>1, BegunIs
<1>9. PICK f : f = [k \in Jobs |->
        IF k \in {j} THEN [faxq.job[k] EXCEPT !.pid = "set", !.qlock = FALSE,
                               !.child = IF k = j THEN "send" ELSE @]
        ELSE faxq.job[k]]
  OBVIOUS
<1>10. f[j] = t /\ \A k \in Jobs \ {j} : f[k] = faxq.job[k]
  BY <1>2, <1>4, <1>7, <1>9
<1>11. f \in [Jobs -> JobRecord]
  <2>1. \A k \in Jobs : f[k] \in JobRecord
    BY <1>4, <1>7, <1>10 DEF Here, Memory
  <2> QED  BY <1>9, <2>1, Zenon
<1>12. PICK q : q = [faxq EXCEPT !.job = f]
  OBVIOUS
<1>13. /\ q \in Memory /\ q.job = f /\ q.di = faxq.di /\ q.modem = faxq.modem
       /\ q.fault = faxq.fault /\ q.running = faxq.running
  BY <1>4, <1>11, <1>12 DEF Memory, Here
<1>14. Step(faxq, q, j, t)
  BY <1>2, <1>7, <1>10, <1>13 DEF Step
<1>15. ReturnWith(q)
  <2>1. FxAssert(faxq, r.qlock /\ r.modem # NoModem) = faxq
    BY <1>5 DEF FxAssert
  <2>2. ReturnWith([FxAssert(faxq, r.qlock /\ r.modem # NoModem) EXCEPT !.job = f])
    BY <1>1, <1>2, <1>4, <1>9, Zenon DEF SendJobStart
  <2> QED  BY <1>12, <2>1, <2>2
<1>16. /\ Alike(q, faxq') /\ faxq'.fault = q.fault
       /\ cur' = NoJob /\ head' = NoJob /\ dest' = NoDest /\ UNCHANGED <<caller, todo>>
       /\ (pc' = "scan" /\ caller = "scan") \/ (pc' = "idle" /\ caller = "prepareJobDone")
  BY <1>13, <1>15, ReturnWithIs
<1>17. PICK x : x = faxq.di[DestOf[j]] /\ x = q.di[DestOf[j]]
  BY <1>13
<1>18. AtJob(j, t)'
  BY <1>16 DEF AtJob
<1>19. cur \in {j, NoJob} /\ t.modem # NoModem /\ faxq'.fault = faxq.fault
  BY <1>3, <1>5, <1>8, <1>13, <1>16
<1> QED  BY <1>1, <1>2, <1>3, <1>4, <1>8, <1>13, <1>14, <1>16, <1>17, <1>18, <1>19, ProcessKeeps

\* fork failed: the job is put to sleep and the modem released.
LEMMA SendForkFailsShape == ASSUME IInv, Shape, SendForkFails PROVE Shape' /\ DoneStays
<1>1. PICK j : j = head
  OBVIOUS
<1>2. PICK r : r = faxq.job[j]
  OBVIOUS
<1>3. Processing /\ cur = NoJob /\ head # NoJob /\ ForkMayFail
  BY DEF SendForkFails
<1>4. /\ pc = "process" /\ j \in Jobs /\ dest = DestOf[j] /\ dest \in Dests
      /\ Sending(r) /\ Here(faxq, j, r) /\ UNCHANGED <<frames, phase>>
      /\ Batch(faxq, j) = {j} /\ (~KillTimers => Tale(r))
  BY <1>1, <1>2, <1>3, SendingIs
<1>5. /\ r \in JobRecord /\ r.on = "activeq" /\ r.state = "active" /\ ~r.tts /\ ~r.suspendPending
      /\ r.modem # NoModem /\ r.qlock /\ r.child = "none" /\ r.bprev = NoJob /\ r.bnext = NoJob
  BY <1>2, <1>4 DEF Sending, Here, Plain
<1>6. PICK t : t = [r EXCEPT !.on = "sleepq", !.state = "sleeping", !.tts = TRUE,
                             !.modem = NoModem, !.bprev = NoJob, !.bnext = NoJob, !.qlock = FALSE]
  OBVIOUS
<1>7. /\ t \in JobRecord /\ t.bprev = NoJob /\ t.bnext = NoJob
      /\ t.on = "sleepq" /\ t.state = "sleeping" /\ t.tts /\ t.modem = NoModem /\ ~t.qlock
      /\ t.child = "none" /\ ~t.suspendPending /\ t.notices = r.notices /\ t.qfile = r.qfile
  BY <1>5, <1>6, RecordPlaces DEF JobRecord
<1>8. Resting(t)
  BY <1>7 DEF Resting, Free
<1>9. PICK f : f = [k \in Jobs |->
        IF k \in {j} THEN [faxq.job[k] EXCEPT !.on = "sleepq", !.state = "sleeping",
                               !.tts = TRUE, !.modem = NoModem, !.bprev = NoJob,
                               !.bnext = NoJob, !.qlock = FALSE]
        ELSE faxq.job[k]]
  OBVIOUS
<1>10. f[j] = t /\ \A k \in Jobs \ {j} : f[k] = faxq.job[k]
  BY <1>2, <1>4, <1>6, <1>9
<1>11. f \in [Jobs -> JobRecord]
  <2>1. \A k \in Jobs : f[k] \in JobRecord
    BY <1>4, <1>7, <1>10 DEF Here, Memory
  <2> QED  BY <1>9, <2>1, Zenon
<1>12. PICK a : a = Poke(faxq)
  OBVIOUS
<1>13. Alike(faxq, a) /\ a.fault = faxq.fault
  BY <1>4, <1>12, PokeIs DEF Here
<1>14. PICK w : w = [m \in Modems |-> IF m \in {r.modem} THEN Released(faxq.modem[m]) ELSE faxq.modem[m]]
  OBVIOUS
<1>15. w = Without(faxq, r.modem) /\ w \in [Modems -> ModemRecord]
  <2>1. r.modem \in Modems
    BY <1>5 DEF JobRecord
  <2>2. w = Without(faxq, r.modem)
    BY <1>14 DEF Without
  <2> QED  BY <1>4, <2>1, <2>2, WithoutIs DEF Here
<1>16. PICK q : q = [a EXCEPT !.modem = w, !.job = f]
  OBVIOUS
<1>17. /\ q \in Memory /\ q.job = f /\ q.di = faxq.di /\ q.modem = w
       /\ q.fault = faxq.fault /\ q.running = faxq.running
  BY <1>11, <1>13, <1>15, <1>16 DEF Memory, Alike
<1>18. Step(faxq, q, j, t)
  BY <1>2, <1>5, <1>7, <1>10, <1>17 DEF Step
<1>19. ReturnWith(q)
  <2>1. FxAssert(a, \A k \in {j} : IsOnList(faxq, k)) = a
    BY <1>2, <1>5 DEF FxAssert, IsOnList
  <2>2. {faxq.job[k].modem : k \in {j}} = {r.modem}
    BY <1>2
  <2>3. a.modem = faxq.modem /\ a.job = faxq.job
    BY <1>13 DEF Alike
  <2>4. ReturnWith([FxAssert(a, \A k \in {j} : IsOnList(faxq, k)) EXCEPT
          !.modem = [m \in Modems |-> IF m \in {faxq.job[k].modem : k \in {j}}
                                      THEN Released(@[m]) ELSE @[m]],
          !.job = [k \in Jobs |->
            IF k \in {j} THEN [@[k] EXCEPT !.on = "sleepq", !.state = "sleeping",
                               !.tts = TRUE, !.modem = NoModem, !.bprev = NoJob,
                               !.bnext = NoJob, !.qlock = FALSE]
            ELSE @[k]]])
    BY <1>1, <1>4, <1>12, Zenon DEF SendForkFails
  <2> QED  BY <1>9, <1>14, <1>16, <2>1, <2>2, <2>3, <2>4, Zenon
<1>20. /\ Alike(q, faxq') /\ faxq'.fault = q.fault
       /\ cur' = NoJob /\ head' = NoJob /\ dest' = NoDest /\ UNCHANGED <<caller, todo>>
       /\ (pc' = "scan" /\ caller = "scan") \/ (pc' = "idle" /\ caller = "prepareJobDone")
  BY <1>17, <1>19, ReturnWithIs
<1>21. Step(faxq, faxq', j, t)
  BY <1>4, <1>18, <1>20, StepAlike
<1>22. PICK x : x = faxq.di[DestOf[j]] /\ x = faxq'.di[DestOf[j]]
  BY <1>17, <1>20 DEF Alike
<1>23. faxq'.fault = faxq.fault /\ LockGiven(r.modem)
  BY <1>15, <1>17, <1>20 DEF Alike, LockGiven
<1>24. Effect(j, t)
  BY <1>4, <1>21, <1>23, StepEffect DEF Here
<1>25. AtJob(j, t)' /\ Slack(DestOf[j])' = 0
  BY <1>20 DEF AtJob, Slack
<1>26. j \in x.active
  <2>1. faxq.job[j].modem # NoModem /\ ~(pc = "process" /\ cur = j)
    BY <1>2, <1>3, <1>4, <1>5, Constants
  <2>2. j \in faxq.di[DestOf[j]].active
    BY <1>4, <2>1 DEF Shape, Members
  <2> QED  BY <1>22, <2>2
<1>27. Listed(j, t, x, x)
  BY <1>7, <1>26 DEF Listed
<1>28. Locking(r, t)
  BY <1>7, <1>23 DEF Locking
<1>29. Dealt(j, r, t, x, x, 0, Slack(DestOf[j])')
  <2>1. x.calls \in Nat /\ (x.pending => x.calls > 0)
    BY <1>4, <1>22, MemoryType, DestOfType, EntryType DEF Shape, CallCounts
  <2>2. Cost(r) = 1 /\ Cost(t) = 0
    BY <1>5, <1>7 DEF Cost
  <2>3. ~Calm
    BY <1>3 DEF Calm
  <2> QED  BY <1>25, <2>1, <2>2, <2>3 DEF Dealt
<1>30. ~KillTimers => BlockedFor(faxq') /\ Tale(t)
  <2>1. ~KillTimers => Tale(t)
    <3>1. /\ r.on \notin {"absent", "deadq"} /\ t.on \notin {"absent", "deadq"}
          /\ t.state # "done"
      BY <1>5, <1>7
    <3> QED  BY <1>4, <1>7, <3>1, TaleStays
  <2>2. r.on # "blocked" /\ t.on # "blocked"
    BY <1>5, <1>7
  <2>3. faxq'.di[DestOf[j]].blocked = faxq.di[DestOf[j]].blocked
    BY <1>22
  <2> QED  BY <1>2, <1>4, <1>21, <2>1, <2>2, <2>3, BlockedSame
<1>31. /\ cur \in {j, NoJob} /\ UNCHANGED <<caller, todo, frames, phase>> /\ ~t.suspendPending
       /\ (pc' = "scan" /\ caller = "scan") \/ (pc' = "idle" /\ caller = "prepareJobDone")
  BY <1>3, <1>4, <1>7, <1>20
<1> QED  BY <1>1, <1>2, <1>4, <1>8, <1>22, <1>24, <1>25, <1>27, <1>28, <1>29, <1>30, <1>31,
            ProcessStep

\* No job of the call is left: it is hung up.
LEMMA HungUpCount ==
  ASSUME NEW n \in Nat, NEW x \in Nat, NEW m, n + 1 <= x, m = Minus(x, 1)
  PROVE  m \in Nat /\ m = x - 1 /\ n <= m
BY DEF Minus

\* No job is left to send: the call is hung up.
LEMMA ProcessNothingShape == ASSUME IInv, Shape, ProcessNothing PROVE Shape' /\ DoneStays
<1>1. /\ pc = "process" /\ cur = NoJob /\ head = NoJob /\ UNCHANGED <<frames, phase>>
      /\ faxq \in Memory /\ Loops /\ Waits /\ CallCounts /\ Members /\ faxq.running
      /\ NoDest \notin Dests /\ NoJob \notin Jobs
  BY MemoryType, ScanRuns, Constants DEF ProcessNothing, Processing, Shape
<1>2. PICK q \in IF dest = NoDest THEN {faxq, Fail(faxq, "dangling")}
                                  ELSE {Hangup(faxq, dest)} : ReturnWith(q)
  BY DEF ProcessNothing
<1>3. dest = NoDest \/ dest \in Dests
  BY <1>1 DEF Loops
<1>4. /\ q \in Memory /\ q.job = faxq.job /\ q.modem = faxq.modem /\ q.running = faxq.running
      /\ q.fault = faxq.fault \/ (q.fault = "dangling" /\ "reject" \in PrepOutcomes)
      /\ \A d \in Dests \ {dest} : q.di[d] = faxq.di[d]
      /\ dest \in Dests => HungUp(faxq.di[dest], q.di[dest])
  <2>1. CASE dest = NoDest
    <3>1. "reject" \in PrepOutcomes
      BY <1>1, <2>1, Constants DEF Loops
    <3>2. q = faxq \/ q = Fail(faxq, "dangling")
      BY <1>2, <2>1
    <3>3. faxq.fault = "none" /\ "dangling" \in Faults
      BY DEF ProcessNothing, Processing, Faults
    <3>4. CASE q = faxq
      BY <1>1, <2>1, <3>4
    <3>5. CASE q = Fail(faxq, "dangling")
      <4>1. q = [faxq EXCEPT !.fault = "dangling"]
        BY <3>3, <3>5 DEF Fail
      <4> QED  BY <1>1, <2>1, <3>1, <3>3, <4>1 DEF Memory
    <3> QED  BY <3>2, <3>4, <3>5
  <2>2. CASE dest \in Dests
    <3>1. q = Hangup(faxq, dest)
      BY <1>1, <1>2, <2>2
    <3>2. PICK x, y : x = faxq.di[dest] /\ y = [[x EXCEPT !.calls = Minus(@, 1)] EXCEPT !.pending = FALSE]
      OBVIOUS
    <3>3. x \in DestRecord
      BY <1>1, <2>2, <3>2, EntryType
    <3>4. y \in DestRecord /\ HungUp(x, y)
      <4>1. PICK n : n = Minus(x.calls, 1)
        OBVIOUS
      <4>2. n \in Nat
        BY <3>3, <4>1 DEF DestRecord, Minus
      <4>3. y = [x EXCEPT !.calls = n, !.pending = FALSE]
        BY <3>2, <4>1
      <4>4. y \in DestRecord /\ y.active = x.active /\ y.blocked = x.blocked
            /\ y.calls = n /\ ~y.pending
        BY <3>3, <4>2, <4>3 DEF DestRecord
      <4> QED  BY <4>1, <4>4 DEF HungUp
    <3>5. q = [faxq EXCEPT !.di[dest] = y]
      BY <1>1, <2>2, <3>1, <3>2 DEF Hangup, Memory
    <3> QED  BY <1>1, <2>2, <3>2, <3>4, <3>5 DEF Memory
  <2> QED  BY <1>3, <2>1, <2>2
<1>5. /\ Alike(q, faxq') /\ faxq'.fault = q.fault
      /\ cur' = NoJob /\ head' = NoJob /\ dest' = NoDest /\ UNCHANGED <<caller, todo>>
      /\ (pc' = "scan" /\ caller = "scan") \/ (pc' = "idle" /\ caller = "prepareJobDone")
  BY <1>2, <1>4, ReturnWithIs
<1>6. /\ faxq' \in Memory /\ faxq'.job = faxq.job /\ faxq'.modem = faxq.modem
      /\ faxq'.running = faxq.running
      /\ faxq'.fault = faxq.fault \/ (faxq'.fault = "dangling" /\ "reject" \in PrepOutcomes)
      /\ \A d \in Dests \ {dest} : faxq'.di[d] = faxq.di[d]
      /\ dest \in Dests => HungUp(faxq.di[dest], faxq'.di[dest])
  BY <1>4, <1>5 DEF Alike
<1>7. Plain(faxq')
  BY <1>6 DEF Shape, Plain
<1>8. Loops'
  <2>1. \/ faxq'.fault = "none" \/ (faxq'.fault = "dangling" /\ "reject" \in PrepOutcomes)
    BY <1>1, <1>6 DEF Loops
  <2>2. pc' = "scan" => \A k \in todo' : faxq'.job[k].on = "runq"
    BY <1>1, <1>5, <1>6 DEF Loops
  <2> QED  BY <1>1, <1>5, <1>6, <2>1, <2>2 DEF Loops
<1>9. Phases'
  <2> SUFFICES ASSUME NEW k \in Jobs
               PROVE  \/ Resting(faxq.job[k]) \/ Busy(faxq.job[k])
                      \/ Left(faxq.job[k]) /\ frames # <<>> /\ Top.job = k
    BY <1>1, <1>6 DEF Phases, Top
  <2>1. ~Handling(k)
    BY <1>1 DEF Handling
  <2> QED  BY <2>1 DEF Shape, Phases
<1>10. Waits'
  <2>1. Waiting' <=> Waiting
    BY <1>1, <1>6 DEF Waiting, Top
  <2>2. Top' = Top
    BY <1>1 DEF Top
  <2> QED  BY <1>1, <1>5, <1>6, <2>1, <2>2 DEF Waits
<1>11. Members'
  <2>1. \A k \in Jobs : faxq'.di[DestOf[k]].active = faxq.di[DestOf[k]].active
    BY <1>6, DestOfType DEF HungUp
  <2> QED  BY <1>1, <1>5, <1>6, <2>1 DEF Members
<1>12. LocksHeld'
  BY <1>6 DEF Shape, LocksHeld
<1>13. CallCounts'
  <2> SUFFICES ASSUME NEW d \in Dests
               PROVE  /\ Cardinality(Calling(faxq', d)) + Slack(d)' <= faxq'.di[d].calls
                      /\ Calm => faxq'.di[d].calls = Cardinality(Calling(faxq', d)) + Slack(d)'
                      /\ MaxConcurrentCalls > 0 => faxq'.di[d].calls <= MaxConcurrentCalls
                      /\ faxq'.di[d].pending => faxq'.di[d].calls > 0
    BY DEF CallCounts, Calm
  <2>1. Calling(faxq', d) = Calling(faxq, d)
    BY <1>6 DEF Calling
  <2>2. PICK n : n = Cardinality(Calling(faxq, d)) /\ n \in Nat
    BY CallingType
  <2>3. Slack(d)' = 0
    BY <1>5 DEF Slack
  <2>4. /\ n + Slack(d) <= faxq.di[d].calls
        /\ Calm => faxq.di[d].calls = n + Slack(d)
        /\ MaxConcurrentCalls > 0 => faxq.di[d].calls <= MaxConcurrentCalls
        /\ faxq.di[d].pending => faxq.di[d].calls > 0
    BY <1>1, <2>2 DEF CallCounts
  <2>5. faxq.di[d].calls \in Nat
    BY <1>1, EntryType
  <2>6. CASE d # dest
    <3>1. Slack(d) = 0 /\ faxq'.di[d] = faxq.di[d]
      BY <1>6, <2>6 DEF Slack
    <3> QED  BY <2>1, <2>2, <2>3, <2>4, <3>1
  <2>7. CASE d = dest
    <3>1. Slack(d) = 1 /\ HungUp(faxq.di[d], faxq'.di[d])
      BY <1>1, <1>6, <2>7 DEF Slack
    <3>2. faxq'.di[d].calls = Minus(faxq.di[d].calls, 1) /\ ~faxq'.di[d].pending
      BY <3>1 DEF HungUp
    <3>3. /\ faxq'.di[d].calls \in Nat /\ faxq'.di[d].calls = faxq.di[d].calls - 1
          /\ n <= faxq'.di[d].calls
      <4>1. n + 1 <= faxq.di[d].calls
        BY <2>4, <3>1
      <4> QED  BY <2>2, <2>5, <3>2, <4>1, HungUpCount
    <3>4. Calm => faxq'.di[d].calls = n
      BY <2>2, <2>4, <2>5, <3>1, <3>3
    <3>5. MaxConcurrentCalls > 0 => faxq'.di[d].calls <= MaxConcurrentCalls
      BY <2>4, <2>5, <3>3, Constants
    <3> QED  BY <2>1, <2>2, <2>3, <3>2, <3>3, <3>4, <3>5
  <2> QED  BY <2>6, <2>7
<1>14. BlockedCounts'
  <2>1. \A d \in Dests : faxq'.di[d].blocked = faxq.di[d].blocked
    BY <1>6 DEF HungUp
  <2>2. \A d \in Dests : BlockedOn(faxq', d) = BlockedOn(faxq, d)
    BY <1>6 DEF BlockedOn
  <2> QED  BY <2>1, <2>2 DEF Shape, BlockedCounts
<1>15. Reports' /\ DoneStays
  BY <1>6 DEF Shape, Reports, DoneStays
<1> QED  BY <1>7, <1>8, <1>9, <1>10, <1>11, <1>12, <1>13, <1>14, <1>15 DEF Shape

-----------------------------------------------------------------------------
(* The exit of a subprocess *)

\* An active job whose subprocess has ended: a is the memory and u the record.
Exited(j, r, a, u) ==
  /\ Busy(r) /\ Here(faxq, j, r) /\ Moved(faxq, a, j, u) /\ Here(a, j, u)
  /\ u.on = "activeq" /\ u.state = "active" /\ ~u.tts /\ ~u.qlock /\ u.child = "none"
  /\ u.modem = r.modem /\ u.modem # NoModem /\ (u.suspendPending <=> r.suspendPending)
  /\ (u.kill <=> r.kill) /\ u.notices = r.notices /\ u.qfile = r.qfile
  /\ faxq.running /\ (~KillTimers => Tale(r) /\ r.notices = 0)
Childless(r) == [r EXCEPT !.child = "none"]

\* Reaping its subprocess changes nothing else.
LEMMA ReapedIs ==
  ASSUME IInv, Shape, NEW j \in Jobs, Idle, NEW r, r = faxq.job[j], r.child # "none",
         NEW a, a = Reaped(j), NEW u, u = Childless(r)
  PROVE  Exited(j, r, a, u)
<1>1. Here(faxq, j, r) /\ r \in JobRecord
  BY MemoryType, RecordType DEF Here, Shape
<1>2. Busy(r)
  <2>1. Resting(r) \/ Busy(r) \/ Left(r)
    BY IdleJobs
  <2> QED  BY <2>1 DEF Resting, Left, Free
<1>3. Moved(faxq, a, j, u) /\ Here(a, j, u)
  <2>1. "none" \in {"none", "prepare", "send", "connected"} /\ a = [faxq EXCEPT !.job[j].child = "none"]
    BY DEF Reaped
  <2> QED  BY <1>1, <2>1, ChildSet DEF Childless
<1>4. /\ u.on = r.on /\ u.state = r.state /\ (u.tts <=> r.tts) /\ (u.qlock <=> r.qlock)
      /\ u.child = "none" /\ u.modem = r.modem /\ (u.suspendPending <=> r.suspendPending)
      /\ (u.kill <=> r.kill) /\ u.notices = r.notices /\ u.qfile = r.qfile
  BY <1>1 DEF JobRecord, Childless
<1>5. ~KillTimers => Tale(r) /\ r.notices = 0
  <2>1. ~KillTimers => Tale(r)
    BY DEF Shape, Reports
  <2> QED  BY <1>2, <2>1 DEF Tale, Busy
<1>6. faxq.running
  BY IdleRuns
<1> QED  BY <1>1, <1>2, <1>3, <1>4, <1>5, <1>6 DEF Busy, Exited

\* What its exit does to the job.
LEMMA ExitStep ==
  ASSUME IInv, Shape, Idle, NEW j \in Jobs, NEW r, r = faxq.job[j], Busy(r),
         NEW t, Effect(j, t),
         NEW x, NEW y, x = faxq.di[DestOf[j]], y = faxq'.di[DestOf[j]],
         Reaping, pc' \in {"idle", "process", "finish"},
         pc' = "process" => caller' = "prepareJobDone", pc' = "finish" => cur' = j,
         AtJob(j, t)', Handling(j)' \/ Resting(t) \/ (Left(t) /\ r.suspendPending),
         t.suspendPending => r.suspendPending /\ ~t.kill,
         r.suspendPending => t.suspendPending \/ (Left(t) /\ pc' = "idle"),
         t.on \notin {"absent", "suspendq"}, t.modem # NoModem => y.active = x.active,
         y.active = (IF t.on = "deadq" THEN x.active \ {j} ELSE x.active),
         Locking(r, t), Dealt(j, r, t, x, y, 0, Slack(DestOf[j])'),
         \A e \in Dests \ {DestOf[j]} : Slack(e)' = 0,
         ~KillTimers => BlockedFor(faxq') /\ Tale(t)
  PROVE  Shape' /\ DoneStays /\ Spared(j)
<1>1. faxq \in Memory /\ Waits /\ Loops /\ Members /\ faxq.running /\ pc = "idle"
  BY MemoryType, IdleRuns DEF Shape
<1>2. frames' = frames /\ (frames # <<>> => phase' = "reap")
  BY DEF Reaping
<1>3. At(j) /\ \A e \in Dests : Slack(e) = 0
  BY <1>1 DEF At, Handling, Slack
<1>4. Loops'
  <2>1. ~(pc' = "scan" \/ (pc' = "process" /\ caller' = "scan"))
    OBVIOUS
  <2> QED  BY <1>1, <2>1, LoopsAfter
<1>5. r.on = "activeq" /\ r.modem # NoModem
  BY DEF Busy
<1>6. r.suspendPending => frames # <<>> /\ Top.job = j
  BY <1>1 DEF Waits
<1>7. Waits'
  <2>1. frames # <<>> /\ ~Waiting' /\ Top.job = j => Left(t) /\ pc' = "idle"
    <3> SUFFICES ASSUME frames # <<>>, ~Waiting', Top.job = j
                 PROVE  Left(t) /\ pc' = "idle"
      OBVIOUS
    <3>1. ~t.suspendPending
      BY <1>2 DEF Waiting, Top, Effect
    <3>2. r.suspendPending
      <4> SUFFICES ASSUME ~r.suspendPending PROVE FALSE
        OBVIOUS
      <4>1. ~Waiting
        BY DEF Waiting
      <4>2. r.on = "deadq" \/ Left(r)
        BY <1>1, <4>1 DEF Waits
      <4> QED  BY <1>5, <4>2, Exclusive
    <3> QED  BY <3>1, <3>2
  <2>2. frames # <<>> /\ ~Waiting' =>
           /\ phase' = "reap" /\ pc' # "scan"
           /\ pc' = "process" => caller' = "prepareJobDone"
           /\ pc' = "finish" => cur' # Top.job
           /\ Top.job = j => t.on = "deadq" \/ Left(t)
    BY <1>2, <2>1
  <2>3. frames # <<>> /\ pc' = "finish" => phase' = "reap"
    BY <1>2
  <2>4. t.suspendPending => faxq.job[j].suspendPending /\ ~t.kill
    OBVIOUS
  <2> QED  BY <1>1, <1>2, <2>2, <2>3, <2>4, WaitsThrough
<1>8. Listed(j, t, x, y)
  <2>1. j \in x.active
    BY <1>1, <1>5 DEF Members
  <2> QED  BY <2>1 DEF Listed
<1>9. /\ \A e \in Dests \ {DestOf[j]} : Slack(e)' = Slack(e)
      /\ Dealt(j, r, t, x, y, Slack(DestOf[j]), Slack(DestOf[j])')
  BY <1>3, DestOfType
<1>10. \/ Handling(j)' \/ Resting(t) \/ Busy(t)
       \/ Left(t) /\ frames' # <<>> /\ (Top.job)' = j
  BY <1>2, <1>6 DEF Top
<1>11. ~KillTimers => BlockedFor(faxq') /\ Tale(t) /\ r.state # "done"
  BY DEF Busy
<1>12. pc = "process" => cur \in {j, NoJob}
  BY <1>1
<1>13. frames' = frames \/ frames = <<>> \/ Top.job = j
  BY <1>2
<1> QED  BY <1>1, <1>3, <1>4, <1>7, <1>8, <1>9, <1>10, <1>11, <1>12, <1>13, StepShape

\* Nobody waits for a job when no client but one that quits faxq speaks.
LEMMA CalmRuns == ASSUME Waits, NEW j \in Jobs, faxq.job[j].suspendPending PROVE ~Calm
BY DEF Waits, Calm

\* Someone waits to suspend the job.
LEMMA PrepareInterruptedShape ==
  ASSUME IInv, Shape, NEW j \in Jobs, PrepareInterrupted(j)
  PROVE  Shape' /\ DoneStays
<1>1. PICK r : r = faxq.job[j]
  OBVIOUS
<1>2. Idle /\ r.child = "prepare" /\ Reaping /\ r.suspendPending
  BY <1>1 DEF PrepareInterrupted, Prepared
<1>3. PICK a, u : a = Reaped(j) /\ u = Childless(r)
  OBVIOUS
<1>4. /\ Busy(r) /\ Here(faxq, j, r) /\ Moved(faxq, a, j, u) /\ Here(a, j, u)
      /\ u.on = "activeq" /\ u.state = "active" /\ ~u.tts /\ ~u.qlock /\ u.child = "none"
      /\ u.modem = r.modem /\ u.modem # NoModem /\ (u.suspendPending <=> r.suspendPending)
      /\ (u.kill <=> r.kill) /\ u.notices = r.notices /\ u.qfile = r.qfile
      /\ faxq.running /\ (~KillTimers => Tale(r) /\ r.notices = 0)
  <2>1. Idle /\ r.child # "none"
    BY <1>2
  <2>2. Exited(j, r, a, u)
    BY <1>1, <1>3, <2>1, ReapedIs
  <2> QED  BY <2>2 DEF Exited
<1>5. PICK b, v : b = [a EXCEPT !.job[j].suspendPending = FALSE]
                  /\ v = [u EXCEPT !.suspendPending = FALSE]
  OBVIOUS
<1>6. Moved(a, b, j, v) /\ Here(b, j, v)
  <2>1. FALSE \in BOOLEAN
    OBVIOUS
  <2> QED  BY <1>4, <1>5, <2>1, PendingSet
<1>7. /\ v.on = "activeq" /\ v.state = "active" /\ ~v.tts /\ ~v.qlock /\ v.child = "none"
      /\ v.modem = r.modem /\ v.modem # NoModem /\ ~v.suspendPending /\ (v.kill <=> r.kill)
      /\ v.notices = r.notices /\ v.qfile = r.qfile
  BY <1>4, <1>5 DEF JobRecord, Here
<1>8. PICK c, t : c = ReleaseIfHeld(b, j) /\ t = [v EXCEPT !.modem = NoModem]
  OBVIOUS
<1>9. Freed(b, c, j, t, v.modem) /\ SameDest(b, c, j) /\ Here(c, j, t)
  BY <1>6, <1>8, ReleaseFreed
<1>10. faxq' = PrepareFinished(c)
  <2>1. c = ReleaseModem(b, j)
    BY <1>6, <1>7, <1>8 DEF ReleaseIfHeld, Here
  <2> QED  BY <1>3, <1>5, <2>1 DEF PrepareInterrupted
<1>11. Alike(c, faxq') /\ faxq'.fault = c.fault
  BY <1>9, <1>10, PrepareFinishedIs DEF Here
<1>12. Step(faxq, faxq', j, t)
  <2>1. Moved(faxq, b, j, v)
    BY <1>4, <1>6, MovedChain
  <2>2. Step(faxq, c, j, t)
    BY <1>9, <2>1, StepChain DEF Moved, Freed
  <2> QED  BY <1>11, <2>2, StepAlike
<1>13. PICK x : x = faxq.di[DestOf[j]] /\ x = faxq'.di[DestOf[j]]
  BY <1>4, <1>6, <1>9, <1>11 DEF Moved, SameDest, Alike
<1>14. faxq'.fault = faxq.fault /\ LockGiven(r.modem)
  <2>1. faxq'.modem = Without(b, r.modem)
    BY <1>7, <1>9, <1>11 DEF Freed, Alike
  <2>2. b.modem = faxq.modem
    BY <1>4, <1>6 DEF Moved
  <2>3. Without(b, r.modem) = Without(faxq, r.modem)
    BY <2>2, WithoutSame
  <2> QED  BY <1>4, <1>6, <1>9, <1>11, <2>1, <2>3 DEF Freed, Moved, LockGiven
<1>15. Effect(j, t)
  BY <1>4, <1>12, <1>14, StepEffect DEF Here
<1>16. /\ t.on = "activeq" /\ t.state = "active" /\ ~t.tts /\ ~t.qlock /\ t.child = "none"
       /\ t.modem = NoModem /\ ~t.suspendPending /\ (t.kill <=> r.kill)
       /\ t.notices = r.notices /\ t.qfile = r.qfile
  BY <1>6, <1>7, <1>8 DEF JobRecord, Here
<1>17. ~r.kill /\ ~Calm
  BY <1>1, <1>2, CalmRuns DEF Shape, Waits
<1>18. Left(t)
  BY <1>16, <1>17 DEF Left, Free
<1>19. UNCHANGED <<pc, caller, cur, head, dest>> /\ pc' = "idle"
  BY <1>2 DEF PrepareInterrupted, loop, Idle
<1>20. AtJob(j, t)' /\ \A e \in Dests : Slack(e)' = 0
  BY <1>19 DEF AtJob, Slack
<1>21. Dealt(j, r, t, x, x, 0, Slack(DestOf[j])')
  <2>1. x.calls \in Nat /\ (x.pending => x.calls > 0)
    BY <1>13, MemoryType, DestOfType, EntryType DEF Shape, CallCounts
  <2>2. Cost(r) = 1 /\ Cost(t) = 0
    BY <1>7, <1>16 DEF Cost
  <2>3. Slack(DestOf[j])' = 0
    BY <1>20, DestOfType
  <2> QED  BY <1>17, <2>1, <2>2, <2>3 DEF Dealt
<1>22. ~KillTimers => BlockedFor(faxq') /\ Tale(t)
  <2>1. /\ r.on \notin {"absent", "deadq"} /\ t.on \notin {"absent", "deadq"}
        /\ t.state # "done" /\ r.on # "blocked" /\ t.on # "blocked"
    BY <1>4, <1>16 DEF Busy
  <2>2. ~KillTimers => Tale(t)
    BY <1>4, <1>16, <2>1, TaleStays
  <2>3. faxq'.di[DestOf[j]].blocked = faxq.di[DestOf[j]].blocked
    BY <1>13
  <2> QED  BY <1>1, <1>12, <2>1, <2>2, <2>3, BlockedSame
<1>23. Locking(r, t)
  BY <1>14, <1>16 DEF Locking
<1> QED  BY <1>1, <1>2, <1>4, <1>13, <1>15, <1>16, <1>18, <1>19, <1>20, <1>21, <1>22, <1>23,
            ExitStep

\* The first job of a batch of one.
LEMMA FirstIs ==
  ASSUME NEW q, Plain(q), NEW j \in Jobs
  PROVE  First(q, j) = j
<1>1. Batch(q, j) = {j} /\ BatchOf(q, j) = {j} /\ q.job[j].bprev = NoJob
  BY BatchIs DEF Plain
<1>2. {f \in BatchOf(q, j) : q.job[f].bprev = NoJob /\ j \in Batch(q, f)} = {j}
  BY <1>1
<1> QED  BY <1>2, Zenon DEF First

\* The lock of the queue file is taken for the transmission.
Relocked(r) == [r EXCEPT !.qlock = TRUE]

\* The job is prepared: it is sent.
LEMMA PrepareDoneShape ==
  ASSUME IInv, Shape, NEW j \in Jobs, PrepareDone(j)
  PROVE  Shape' /\ DoneStays /\ Spared(j) /\ Held(j)
<1>1. PICK r : r = faxq.job[j]
  OBVIOUS
<1>2. Idle /\ r.child = "prepare" /\ Reaping /\ ~r.suspendPending
  BY <1>1 DEF PrepareDone, Prepared
<1>3. PICK a, u : a = Reaped(j) /\ u = Childless(r)
  OBVIOUS
<1>4. Exited(j, r, a, u)
  <2>1. Idle /\ r.child # "none"
    BY <1>2
  <2> QED  BY <1>1, <1>3, <2>1, ReapedIs
<1>5. Here(a, j, u) /\ ~u.qlock /\ Moved(faxq, a, j, u) /\ faxq.running /\ Busy(r)
  BY <1>4 DEF Exited
<1>6. ReadRequest(a, j) = a
  BY <1>5 DEF ReadRequest, Here
<1>7. PICK q, t : q = [a EXCEPT !.job[j].qlock = TRUE] /\ t = Relocked(u)
  OBVIOUS
<1>8. Moved(a, q, j, t) /\ Here(q, j, t)
  <2>1. TRUE \in BOOLEAN
    OBVIOUS
  <2> QED  BY <1>5, <1>7, <2>1, QlockSet DEF Relocked
<1>9. Moved(faxq, q, j, t)
  BY <1>5, <1>8, MovedChain
<1>10. /\ faxq' = q /\ pc' = "process" /\ caller' = "prepareJobDone"
       /\ cur' = NoJob /\ head' = j /\ dest' = DestOf[j]
  <2>1. q.job[j].bnext = NoJob /\ First(q, j) = j
    BY <1>8, FirstIs DEF Here, Plain
  <2>2. GoOn(q, q.job[j].bnext, First(q, j), DestOf[j])
    BY <1>3, <1>6, <1>7 DEF PrepareDone
  <2> QED  BY <2>1, <2>2 DEF GoOn
<1>11. PICK x : x = faxq.di[DestOf[j]] /\ x = faxq'.di[DestOf[j]]
  BY <1>9, <1>10 DEF Moved, SameDest
<1>12. Effect(j, t) /\ Step(faxq, faxq', j, t)
  BY <1>9, <1>10, StepEffect DEF Moved, Shape
<1>13. /\ t.on = "activeq" /\ t.state = "active" /\ ~t.tts /\ t.qlock /\ t.child = "none"
       /\ t.modem = r.modem /\ t.modem # NoModem /\ (t.suspendPending <=> r.suspendPending)
       /\ (t.kill <=> r.kill) /\ t.notices = r.notices /\ t.qfile = r.qfile
  <2>1. u \in JobRecord
    BY <1>5 DEF Here
  <2>2. /\ t.on = u.on /\ t.state = u.state /\ (t.tts <=> u.tts) /\ t.qlock
        /\ t.child = u.child /\ t.modem = u.modem /\ (t.suspendPending <=> u.suspendPending)
        /\ (t.kill <=> u.kill) /\ t.notices = u.notices /\ t.qfile = u.qfile
    BY <1>7, <2>1 DEF JobRecord, Relocked
  <2> QED  BY <1>4, <2>2 DEF Exited
<1>14. Sending(t)
  BY <1>2, <1>13 DEF Sending
<1>15. /\ AtJob(j, t)' /\ \A e \in Dests : Slack(e)' = 0
       /\ Handling(j)'
  <2>1. head' # NoJob /\ DestOf[j] \in Dests
    BY <1>10, DestOfType, Constants
  <2> QED  BY <1>10, <1>14, <2>1 DEF AtJob, Slack, Handling
<1>16. Dealt(j, r, t, x, x, 0, Slack(DestOf[j])')
  <2>1. x.calls \in Nat /\ (x.pending => x.calls > 0)
    BY <1>11, MemoryType, DestOfType, EntryType DEF Shape, CallCounts
  <2>2. Cost(r) = 1 /\ Cost(t) = 1
    BY <1>13 DEF Cost
  <2>3. Slack(DestOf[j])' = 0
    BY <1>15, DestOfType
  <2> QED  BY <2>1, <2>2, <2>3 DEF Dealt
<1>17. ~KillTimers => BlockedFor(faxq') /\ Tale(t)
  <2>1. /\ r.on \notin {"absent", "deadq"} /\ t.on \notin {"absent", "deadq"}
        /\ t.state # "done" /\ r.on # "blocked" /\ t.on # "blocked"
    BY <1>5, <1>13 DEF Busy
  <2>2. ~KillTimers => Tale(t)
    BY <1>4, <1>13, <2>1, TaleStays DEF Exited
  <2>3. faxq'.di[DestOf[j]].blocked = faxq.di[DestOf[j]].blocked
    BY <1>11
  <2> QED  BY <1>1, <1>12, <2>1, <2>2, <2>3, BlockedSame
<1>18. Locking(r, t)
  BY <1>9, <1>10, <1>13 DEF Locking, LocksSame, Moved
<1>19. Held(j)
  BY <1>12, <1>13 DEF Effect, Held
<1> QED  BY <1>1, <1>2, <1>5, <1>19, <1>10, <1>11, <1>12, <1>13, <1>15, <1>16, <1>17, <1>18, ExitStep

\* What only the scheduler reads may change after jobs are woken.
LEMMA WakesAlike ==
  ASSUME NEW q, NEW s, NEW w, NEW d, Wakes(q, s, d), Alike(s, w), w.fault = s.fault
  PROVE  Wakes(q, w, d)
BY DEF Wakes, Alike

\* The count of blocked jobs does not depend on it.
LEMMA BlockedAlike ==
  ASSUME NEW s, NEW w, BlockedFor(s), Alike(s, w)
  PROVE  BlockedFor(w)
<1>1. \A d \in Dests : BlockedOn(w, d) = BlockedOn(s, d)
  BY DEF Alike, BlockedOn
<1> QED  BY <1>1 DEF BlockedFor, Alike

\* The call of the job is hung up, and its destination may have been purged.
LEMMA HungUpDealt ==
  ASSUME IInv, Shape, pc = "idle", NEW j \in Jobs, NEW r, r = faxq.job[j], r.modem # NoModem,
         NEW t, t.modem = NoModem,
         NEW x, x = faxq.di[DestOf[j]], NEW z, z = x \/ Dropped(x, z, j),
         NEW y, HungUp(z, y), NEW n \in Nat,
         NEW w \in DestRecord, w.active = y.active, w.calls = y.calls, w.pending = y.pending,
         w.blocked = Minus(y.blocked, n)
  PROVE  Dealt(j, r, t, x, w, 0, 0)
<1>1. faxq \in Memory /\ DestOf[j] \in Dests
  BY MemoryType, DestOfType
<1>2. x \in DestRecord /\ x.calls \in Nat /\ x.active \subseteq Jobs /\ x.blocked \in Nat
  BY <1>1, EntryType
<1>3. Cost(r) = 1 /\ Cost(t) = 0
  BY DEF Cost
<1>4. x.calls >= 1
  <2>1. PICK c : c = Calling(faxq, DestOf[j])
    OBVIOUS
  <2>2. Cardinality(c) = Cardinality(c \ {j}) + Cost(r) /\ Cardinality(c \ {j}) \in Nat
    BY <2>1, CallingCost
  <2>3. Slack(DestOf[j]) = 0
    BY DEF Slack
  <2>4. Cardinality(c) + Slack(DestOf[j]) <= x.calls
    BY <1>1, <2>1 DEF Shape, CallCounts
  <2> QED  BY <1>2, <1>3, <2>2, <2>3, <2>4
<1>5. CASE z = NewDest /\ Dropped(x, z, j)
  <2>1. y.calls = 0 /\ y.active = {} /\ y.blocked = 0 /\ ~y.pending
    BY <1>5 DEF HungUp, NewDest, Minus
  <2>2. w.calls = 0 /\ w.active = {} /\ w.blocked = 0 /\ w.pending = FALSE
    <3>1. w.calls = 0 /\ w.active = {}
      BY <2>1
    <3>2. Minus(0, n) = 0
      BY DEF Minus
    <3>3. w.blocked = 0
      BY <2>1, <3>2
    <3>4. w.pending = FALSE
      BY <2>1 DEF DestRecord
    <3> QED  BY <3>1, <3>3, <3>4
  <2>3. w = NewDest
    BY <2>2 DEF DestRecord, NewDest
  <2>4. x.active \subseteq {j}
    BY <1>5 DEF Dropped, NewDest
  <2> QED  BY <2>3, <2>4 DEF Dealt
<1>6. CASE z.calls = x.calls
  <2>1. w.calls = x.calls - 1 /\ ~w.pending
    BY <1>2, <1>4, <1>6 DEF HungUp, Minus
  <2> QED  BY <1>2, <1>3, <1>4, <2>1 DEF Dealt
<1> QED  BY <1>5, <1>6 DEF Dropped

\* The exit of a subprocess that hangs up: h is the memory after that, and
\* faxq' what is left when the jobs that wait for the destination are woken.
LEMMA HangupStep ==
  ASSUME IInv, Shape, Idle, Reaping, NEW j \in Jobs, NEW r, r = faxq.job[j], Busy(r),
         NEW h, NEW t, Step(faxq, h, j, t), Here(h, j, t),
         h.modem = Without(faxq, r.modem), h.fault = faxq.fault,
         t.modem = NoModem, t.on \notin {"absent", "suspendq", "blocked"},
         NEW x, x = faxq.di[DestOf[j]], NEW z, NEW y, y = h.di[DestOf[j]], HungUp(z, y),
         (t.on # "deadq" /\ z = x) \/ (t.on = "deadq" /\ Dropped(x, z, j)),
         NEW U \in SUBSET BlockedOn(h, DestOf[j]), NEW s,
         s = Unblock(h, DestOf[j], U) \/ (U = BlockedOn(h, DestOf[j]) /\ s = DelayBlocked(h, DestOf[j])),
         Alike(s, faxq'), faxq'.fault = s.fault,
         pc' \in {"idle", "finish"}, pc' = "finish" => cur' = j,
         AtJob(j, t)', Handling(j)' \/ Resting(t),
         t.suspendPending => r.suspendPending /\ ~t.kill, r.suspendPending => t.suspendPending,
         ~KillTimers => Tale(t)
  PROVE  Shape' /\ DoneStays /\ Spared(j) /\ faxq'.job[j].on # "blocked"
<1>1. DestOf[j] \in Dests /\ h \in Memory /\ pc = "idle" /\ Plain(faxq) /\ faxq \in Memory
  BY DestOfType, MemoryType DEF Here, Idle, Shape
<1>2. /\ Wakes(h, s, DestOf[j])
      /\ s.di[DestOf[j]].blocked = Minus(h.di[DestOf[j]].blocked, Cardinality(U))
  BY <1>1, WakesAre
<1>3. Wakes(h, faxq', DestOf[j])
  BY <1>2, WakesAlike
<1>4. Effect(j, t)
  BY <1>1, <1>3, WakeEffect
<1>5. PICK w : w = faxq'.di[DestOf[j]]
  OBVIOUS
<1>6. /\ w \in DestRecord /\ w.active = y.active /\ w.calls = y.calls /\ w.pending = y.pending
      /\ w.blocked = Minus(y.blocked, Cardinality(U))
  <2>1. w = s.di[DestOf[j]]
    BY <1>5 DEF Alike
  <2>2. faxq' \in Memory
    BY <1>3 DEF Wakes
  <2>3. w \in DestRecord
    BY <1>1, <1>5, <2>2, EntryType
  <2> QED  BY <1>2, <2>1, <2>3 DEF Wakes
<1>7. Cardinality(U) \in Nat
  <2>1. IsFiniteSet(BlockedOn(h, DestOf[j]))
    BY BlockedType
  <2>2. IsFiniteSet(U)
    BY <2>1, FS_Subset
  <2> QED  BY <2>2, FS_CardinalityType
<1>8. r.modem # NoModem /\ r.on = "activeq"
  BY DEF Busy
<1>9. /\ Dealt(j, r, t, x, w, 0, 0) /\ Slack(DestOf[j])' = 0
      /\ \A e \in Dests \ {DestOf[j]} : Slack(e)' = 0
  <2>1. z = x \/ Dropped(x, z, j)
    OBVIOUS
  <2>2. Dealt(j, r, t, x, w, 0, 0)
    BY <1>1, <1>6, <1>7, <1>8, <2>1, HungUpDealt
  <2>3. pc' # "process"
    OBVIOUS
  <2> QED  BY <2>2, <2>3 DEF Slack
<1>10. w.active = (IF t.on = "deadq" THEN x.active \ {j} ELSE x.active)
  BY <1>6 DEF HungUp, Dropped
<1>11. Locking(r, t)
  <2>1. faxq'.modem = Without(faxq, r.modem)
    BY <1>3 DEF Wakes
  <2> QED  BY <2>1 DEF Locking, LockGiven
<1>12. ~KillTimers => BlockedFor(faxq')
  <2> SUFFICES ASSUME ~KillTimers PROVE BlockedFor(faxq')
    OBVIOUS
  <2>1. h.di[DestOf[j]].blocked = faxq.di[DestOf[j]].blocked
    BY DEF HungUp, Dropped
  <2>2. r.on # "blocked" /\ t.on # "blocked"
    BY <1>8
  <2>3. BlockedFor(h)
    BY <2>1, <2>2, BlockedSame
  <2>4. BlockedFor(s)
    BY <1>1, <2>3, BlockedWake
  <2> QED  BY <2>4, BlockedAlike
<1>13. ~KillTimers => BlockedFor(faxq') /\ Tale(t)
  BY <1>12
<1>14. /\ pc' \in {"idle", "process", "finish"} /\ pc' = "process" => caller' = "prepareJobDone"
       /\ Handling(j)' \/ Resting(t) \/ (Left(t) /\ r.suspendPending)
       /\ r.suspendPending => t.suspendPending \/ (Left(t) /\ pc' = "idle")
       /\ t.on \notin {"absent", "suspendq"} /\ (t.modem # NoModem => w.active = x.active)
  OBVIOUS
<1>15. faxq'.job[j] = t
  BY <1>4 DEF Effect
<1> QED  BY <1>4, <1>5, <1>9, <1>10, <1>11, <1>13, <1>14, <1>15, ExitStep

\* No job is left blocked on d, or one of them is on the run queue.
Relieved(d) ==
  \A k \in Jobs : DestOf[k] = d /\ faxq'.job[k].on = "blocked" =>
    \E w \in Jobs : DestOf[w] = d /\ faxq.job[w].on = "blocked" /\ faxq'.job[w].on = "runq"

\* unblockDestJobs releases a job if one is blocked and a call is left, or if
\* it is forced.
LEMMA UnblockableSome ==
  ASSUME NEW q \in Memory, NEW d \in Dests, NEW force \in BOOLEAN, NEW U \in Unblockable(q, d, force),
         \/ force \/ MaxConcurrentCalls = 0
         \/ MaxBatchJobs = 1 /\ q.di[d].calls < MaxConcurrentCalls
  PROVE  U # {} \/ BlockedOn(q, d) = {}
<1> SUFFICES ASSUME BlockedOn(q, d) # {} PROVE U # {}
  OBVIOUS
<1>1. PICK n, c : n = Cardinality(BlockedOn(q, d)) /\ c = q.di[d].calls
  OBVIOUS
<1>2. n \in Nat /\ n # 0 /\ c \in Nat
  <2>1. IsFiniteSet(BlockedOn(q, d)) /\ n \in Nat
    BY <1>1, BlockedType
  <2> QED  BY <1>1, <2>1, EntryType, FS_EmptySet
<1>3. PICK left : left = Minus(MaxConcurrentCalls, c) * MaxBatchJobs
  OBVIOUS
<1>4. force \/ MaxConcurrentCalls = 0 \/ left # 0
  <2>1. ASSUME MaxBatchJobs = 1, c < MaxConcurrentCalls PROVE left # 0
    BY <1>2, <1>3, <2>1, Constants DEF Minus
  <2> QED  BY <1>1, <2>1
<1>5. PICK room : room = IF left = 0 /\ force THEN 1 ELSE left
  OBVIOUS
<1>6. Room(q, d, force) = IF MaxConcurrentCalls = 0 \/ room > n THEN n ELSE room
  BY <1>1, <1>3, <1>5 DEF Room
<1>7. Room(q, d, force) # 0
  BY <1>2, <1>4, <1>5, <1>6
<1> QED  BY <1>7, FS_EmptySet DEF Unblockable

\* So the jobs blocked on the destination of a job are relieved when it is
\* hung up: h is the memory before they are woken.
LEMMA RelievedIs ==
  ASSUME NEW h \in Memory, NEW j \in Jobs, NEW t, Step(faxq, h, j, t),
         faxq.job[j].on # "blocked", t.on # "blocked", NEW d, d = DestOf[j],
         NEW U \in SUBSET BlockedOn(h, d), NEW s,
         (s = Unblock(h, d, U) /\ (U # {} \/ BlockedOn(h, d) = {})) \/ s = DelayBlocked(h, d),
         faxq'.job = s.job
  PROVE  Relieved(d)
<1>1. \A k \in Jobs : h.job[k].on = "blocked" <=> faxq.job[k].on = "blocked"
  BY DEF Step
<1>2. h.job \in [Jobs -> JobRecord]
  BY DEF Memory
<1>3. CASE s = DelayBlocked(h, d)
  <2>1. ASSUME NEW k \in Jobs, DestOf[k] = d PROVE faxq'.job[k].on # "blocked"
    <3>1. CASE h.job[k].on = "blocked"
      <4>1. faxq'.job[k] = Asleep(h.job[k], "sleeping")
        BY <1>3, <2>1, <3>1 DEF DelayBlocked, BlockedOn, Memory, Asleep
      <4> QED  BY <1>2, <4>1 DEF Asleep, JobRecord
    <3>2. CASE h.job[k].on # "blocked"
      <4>1. faxq'.job[k] = h.job[k]
        BY <1>3, <2>1, <3>2 DEF DelayBlocked, BlockedOn, Memory
      <4> QED  BY <3>2, <4>1
    <3> QED  BY <3>1, <3>2
  <2> QED  BY <2>1 DEF Relieved
<1>4. CASE s = Unblock(h, d, U) /\ U # {}
  <2>1. PICK w : w \in U
    BY <1>4
  <2>2. w \in Jobs /\ DestOf[w] = d /\ h.job[w].on = "blocked"
    BY <2>1 DEF BlockedOn
  <2>3. faxq'.job[w] = Readied(h.job[w])
    BY <1>4, <2>1, <2>2 DEF Unblock, Memory, Readied
  <2>4. faxq'.job[w].on = "runq"
    BY <1>2, <2>2, <2>3 DEF Readied, JobRecord
  <2> QED  BY <1>1, <2>2, <2>4 DEF Relieved
<1>5. CASE s = Unblock(h, d, U) /\ BlockedOn(h, d) = {}
  <2>1. ASSUME NEW k \in Jobs, DestOf[k] = d PROVE faxq'.job[k].on # "blocked"
    <3>1. U = {} /\ h.job[k].on # "blocked"
      BY <1>5, <2>1 DEF BlockedOn
    <3>2. faxq'.job[k] = h.job[k]
      BY <1>5, <3>1 DEF Unblock, Memory
    <3> QED  BY <3>1, <3>2
  <2> QED  BY <2>1 DEF Relieved
<1> QED  BY <1>3, <1>4, <1>5

\* The job could not be prepared: it is put to sleep or fails.
GivenUp(h, j, r, t) ==
  /\ Step(faxq, h, j, t) /\ Here(h, j, t)
  /\ h.modem = Without(faxq, r.modem) /\ h.fault = faxq.fault
  /\ t.modem = NoModem /\ Resting(t) /\ ~t.suspendPending
  /\ \/ t.on = "sleepq" /\ h.di[DestOf[j]] = faxq.di[DestOf[j]]
     \/ t.on = "deadq" /\ Dropped(faxq.di[DestOf[j]], h.di[DestOf[j]], j)
  /\ ~KillTimers => Tale(t)

\* It is put to sleep.
LEMMA RequeuedIs ==
  ASSUME IInv, Shape, NEW j \in Jobs, NEW r, r = faxq.job[j], NEW a, NEW u, Exited(j, r, a, u),
         NEW h, h = DelayJob(Unlist(a, j), j), ~r.suspendPending
  PROVE  \E t : GivenUp(h, j, r, t)
<1>1. Here(a, j, u) /\ Moved(faxq, a, j, u) /\ u \in JobRecord
  BY DEF Exited, Here
<1>2. PICK b, v, t : b = Unlist(a, j) /\ v = Unlisted(u) /\ t = Delayed(v)
  OBVIOUS
<1>3. Moved(a, b, j, v) /\ Here(b, j, v)
  BY <1>1, <1>2, UnlistMoved
<1>4. v \in JobRecord /\ v.on = "none" /\ v = [u EXCEPT !.on = v.on]
  <2>1. u.on # "absent"
    BY DEF Exited
  <2> QED  BY <1>1, <1>2, <2>1, UnlistedIs
<1>5. Freed(b, h, j, t, v.modem) /\ SameDest(b, h, j) /\ Here(h, j, t)
  BY <1>2, <1>3, <1>4, DelayJobIs
<1>6. Moved(faxq, b, j, v)
  BY <1>1, <1>3, MovedChain
<1>7. Step(faxq, h, j, t)
  BY <1>5, <1>6, StepChain DEF Moved, Freed
<1>8. /\ v.state = u.state /\ (v.tts <=> u.tts) /\ v.child = u.child /\ v.modem = u.modem
      /\ (v.qlock <=> u.qlock)
      /\ (v.suspendPending <=> u.suspendPending) /\ v.notices = u.notices /\ v.qfile = u.qfile
  BY <1>1, <1>4 DEF JobRecord
<1>9. /\ t.on = "sleepq" /\ t.state = "sleeping" /\ t.tts /\ t.modem = NoModem /\ ~t.qlock
      /\ t.child = "none" /\ (t.suspendPending <=> u.suspendPending)
      /\ t.notices = r.notices /\ t.qfile = r.qfile
  <2>1. PICK s : s = Asleep(v, "sleeping")
    OBVIOUS
  <2>2. /\ s \in JobRecord /\ s.on = "sleepq" /\ s.state = "sleeping" /\ s.tts
        /\ s.child = v.child /\ s.notices = v.notices /\ s.qfile = v.qfile
        /\ (s.suspendPending <=> v.suspendPending) /\ (s.qlock <=> v.qlock)
    <3>1. "sleeping" \in States
      BY RecordPlaces
    <3> QED  BY <1>4, <2>1, <3>1, AsleepIs
  <2>3. t = [s EXCEPT !.modem = NoModem]
    BY <1>2, <2>1 DEF Delayed
  <2>4. /\ t.on = s.on /\ t.state = s.state /\ (t.tts <=> s.tts) /\ t.modem = NoModem
        /\ (t.qlock <=> s.qlock) /\ t.child = s.child
        /\ (t.suspendPending <=> s.suspendPending) /\ t.notices = s.notices /\ t.qfile = s.qfile
    BY <2>2, <2>3 DEF JobRecord
  <2> QED  BY <1>8, <2>2, <2>4 DEF Exited
<1>10. h.modem = Without(faxq, r.modem)
  <2>1. Without(b, v.modem) = Without(faxq, v.modem)
    BY <1>6, WithoutSame DEF Moved
  <2>2. v.modem = r.modem
    BY <1>8 DEF Exited
  <2> QED  BY <1>5, <2>1, <2>2 DEF Freed
<1>11. h.fault = faxq.fault /\ h.di[DestOf[j]] = faxq.di[DestOf[j]]
  BY <1>5, <1>6 DEF Freed, Moved, SameDest
<1>12. ~KillTimers => Tale(t)
  <2>1. r.on = "activeq" /\ ~KillTimers => Tale(r)
    BY DEF Exited, Busy
  <2> QED  BY <1>9, <2>1, TaleStays DEF Exited, Busy
<1>13. ~r.suspendPending => Resting(t) /\ ~t.suspendPending
  BY <1>9 DEF Resting, Free, Exited
<1>14. GivenUp(h, j, r, t)
  BY <1>5, <1>7, <1>9, <1>10, <1>11, <1>12, <1>13 DEF GivenUp
<1> QED  BY <1>14

\* It fails.
LEMMA RejectedIs ==
  ASSUME IInv, Shape, NEW j \in Jobs, NEW r, r = faxq.job[j], NEW a, NEW u, Exited(j, r, a, u),
         NEW h, h = SetDead(DeleteRequest(a, j), j)
  PROVE  \E t : GivenUp(h, j, r, t)
<1>1. Here(a, j, u) /\ Moved(faxq, a, j, u) /\ u \in JobRecord /\ u.child = "none"
  BY DEF Exited, Here
<1>2. PICK t : t = Buried(Reported(u))
  OBVIOUS
<1>3. Freed(a, h, j, t, u.modem) /\ LeftDest(a, h, j) /\ Here(h, j, t)
  BY <1>1, <1>2, DeadAfter
<1>4. Step(faxq, h, j, t)
  BY <1>1, <1>3, StepChain DEF Moved, Freed
<1>5. Resting(t) /\ t.on = "deadq" /\ (u.notices = 0 => Tale(t))
  BY <1>1, <1>2, OverIs
<1>6. t.modem = NoModem /\ ~t.suspendPending
  BY <1>5 DEF Resting, Free
<1>7. h.modem = Without(faxq, r.modem)
  <2>1. Without(a, u.modem) = Without(faxq, u.modem)
    BY <1>1, WithoutSame DEF Moved
  <2> QED  BY <1>3, <2>1 DEF Freed, Exited
<1>8. h.fault = faxq.fault /\ Dropped(faxq.di[DestOf[j]], h.di[DestOf[j]], j)
  BY <1>1, <1>3 DEF Freed, Moved, SameDest, LeftDest
<1>9. ~KillTimers => Tale(t)
  BY <1>5 DEF Exited
<1>10. GivenUp(h, j, r, t)
  BY <1>3, <1>4, <1>5, <1>6, <1>7, <1>8, <1>9 DEF GivenUp
<1> QED  BY <1>10

\* Its call is hung up, and the jobs that wait for the destination are woken.
LEMMA PrepareFailedShape ==
  ASSUME IInv, Shape, NEW j \in Jobs, PrepareFailed(j)
  PROVE  /\ Shape' /\ DoneStays /\ Spared(j)
         /\ faxq'.job[j].on # "blocked" /\ pc' = "idle"
         /\ \/ Relieved(DestOf[j])
            \/ MaxBatchJobs = 1 =>
                 /\ MaxConcurrentCalls > 0
                 /\ faxq'.di[DestOf[j]].calls >= MaxConcurrentCalls
<1>1. PICK r : r = faxq.job[j]
  OBVIOUS
<1>2. Idle /\ r.child = "prepare" /\ Reaping /\ ~r.suspendPending
  BY <1>1 DEF PrepareFailed, Prepared
<1>3. PICK a, u : a = Reaped(j) /\ u = Childless(r)
  OBVIOUS
<1>4. Exited(j, r, a, u)
  <2>1. Idle /\ r.child # "none"
    BY <1>2
  <2> QED  BY <1>1, <1>3, <2>1, ReapedIs
<1>5. Here(a, j, u) /\ ~u.qlock /\ Moved(faxq, a, j, u) /\ Here(faxq, j, r) /\ Busy(r)
  BY <1>4 DEF Exited
<1>6. ReadRequest(a, j) = a
  BY <1>5 DEF ReadRequest, Here
<1>7. r.bnext = NoJob /\ r.bprev = NoJob
  BY <1>1, <1>5 DEF Here, Plain
<1>8. [a EXCEPT !.job[j].modem = a.job[j].modem] = a
  <2>1. [u EXCEPT !.modem = u.modem] = u
    BY <1>5 DEF Here, JobRecord
  <2>2. [a.job EXCEPT ![j] = u] = a.job
    BY <1>5 DEF Here, Memory
  <2>3. [a EXCEPT !.job = a.job] = a
    BY <1>5 DEF Here, Memory
  <2> QED  BY <1>5, <2>1, <2>2, <2>3 DEF Here
<1>9. PICK d : d = DestOf[j]
  OBVIOUS
<1>10. PICK requeued \in BOOLEAN :
         LET left == IF requeued THEN DelayJob(Unlist(a, j), j)
                     ELSE SetDead(DeleteRequest(a, j), j)
             hungup == Hangup(left, d)
         IN /\ \E U \in Unblockable(hungup, d, FALSE) :
                 faxq' = PrepareFinished(Poke(Unblock(hungup, d, U)))
            /\ UNCHANGED loop
  BY <1>1, <1>3, <1>6, <1>7, <1>8, <1>9 DEF PrepareFailed
<1>11. PICK e : e = IF requeued THEN DelayJob(Unlist(a, j), j)
                    ELSE SetDead(DeleteRequest(a, j), j)
  OBVIOUS
<1>12. PICK t : GivenUp(e, j, r, t)
  <2>1. CASE requeued
    BY <1>1, <1>2, <1>4, <1>11, <2>1, RequeuedIs
  <2>2. CASE ~requeued
    BY <1>1, <1>4, <1>11, <2>2, RejectedIs
  <2> QED  BY <2>1, <2>2
<1>13. PICK h, x, z : h = Hangup(e, d) /\ x = faxq.di[d] /\ z = e.di[d]
  OBVIOUS
<1>14. /\ Step(faxq, e, j, t) /\ Here(e, j, t)
       /\ e.modem = Without(faxq, r.modem) /\ e.fault = faxq.fault
       /\ t.modem = NoModem /\ Resting(t) /\ ~t.suspendPending
       /\ (t.on # "deadq" /\ z = x) \/ (t.on = "deadq" /\ Dropped(x, z, j))
       /\ t.on \notin {"absent", "suspendq", "blocked"}
       /\ (~KillTimers => Tale(t))
  BY <1>9, <1>12, <1>13 DEF GivenUp
<1>15. PICK y : HungUp(z, y) /\ Turned(e, h, j, t, y) /\ Here(h, j, t)
  BY <1>9, <1>13, <1>14, HangupIs
<1>16. /\ Step(faxq, h, j, t) /\ h.modem = Without(faxq, r.modem) /\ h.fault = faxq.fault
       /\ y = h.di[d]
  <2>1. Step(faxq, h, j, t)
    BY <1>14, <1>15, StepChain DEF Turned
  <2> QED  BY <1>9, <1>14, <1>15, <2>1 DEF Turned
<1>17. PICK U \in Unblockable(h, d, FALSE) : faxq' = PrepareFinished(Poke(Unblock(h, d, U)))
  BY <1>10, <1>11, <1>13
<1>18. U \in SUBSET BlockedOn(h, d)
  BY <1>17 DEF Unblockable
<1>19. PICK s : s = Unblock(h, d, U)
  OBVIOUS
<1>20. Alike(s, faxq') /\ faxq'.fault = s.fault
  <2>1. DestOf[j] \in Dests /\ h \in Memory
    BY <1>15, DestOfType DEF Here
  <2>2. s \in Memory
    BY <1>9, <1>18, <1>19, <2>1, WakesAre DEF Wakes
  <2>3. PICK w : w = Poke(s)
    OBVIOUS
  <2>4. Alike(s, w) /\ w.fault = s.fault
    BY <2>2, <2>3, PokeIs
  <2>5. Alike(w, faxq') /\ faxq'.fault = w.fault
    BY <1>17, <1>19, <2>3, <2>4, PrepareFinishedIs DEF Alike
  <2> QED  BY <2>4, <2>5 DEF Alike
<1>21. UNCHANGED loop
  BY <1>10
<1>22. pc' = "idle" /\ AtJob(j, t)'
  BY <1>2, <1>21 DEF loop, AtJob, Idle
<1>23. /\ s = Unblock(h, d, U) \/ (U = BlockedOn(h, d) /\ s = DelayBlocked(h, d))
       /\ pc' \in {"idle", "finish"} /\ (pc' = "finish" => cur' = j)
       /\ Handling(j)' \/ Resting(t)
       /\ (t.suspendPending => r.suspendPending /\ ~t.kill)
       /\ (r.suspendPending => t.suspendPending)
  BY <1>2, <1>14, <1>19, <1>22
<1>24. \/ Relieved(d)
       \/ MaxBatchJobs = 1 =>
            MaxConcurrentCalls > 0 /\ faxq'.di[d].calls >= MaxConcurrentCalls
  <2> SUFFICES ASSUME ~Relieved(d), MaxBatchJobs = 1
               PROVE  MaxConcurrentCalls > 0 /\ faxq'.di[d].calls >= MaxConcurrentCalls
    OBVIOUS
  <2>1. d \in Dests /\ h \in Memory /\ r.on # "blocked" /\ t.on # "blocked"
    BY <1>5, <1>9, <1>14, <1>15, DestOfType DEF Here, Busy
  <2>2. PICK n : n = h.di[d].calls
    OBVIOUS
  <2>3. ~(MaxConcurrentCalls = 0 \/ n < MaxConcurrentCalls)
    <3>1. faxq'.job = s.job
      BY <1>20 DEF Alike
    <3>2. ~(U # {} \/ BlockedOn(h, d) = {})
      BY <1>1, <1>9, <1>16, <1>18, <1>19, <2>1, <3>1, RelievedIs
    <3> QED  BY <1>17, <2>1, <2>2, <3>2, UnblockableSome
  <2>4. n \in Nat
    BY <2>1, <2>2, EntryType
  <2>5. faxq'.di[d].calls = n
    BY <1>18, <1>19, <1>20, <2>1, <2>2, WakesAre DEF Wakes, Alike
  <2> QED  BY <2>3, <2>4, <2>5, Constants
<1> QED  BY <1>1, <1>2, <1>5, <1>24, <1>9, <1>13, <1>14, <1>15, <1>16, <1>18, <1>20, <1>22, <1>23,
            HangupStep

\* faxsend has reported how the job went.
Outcomes(p, q, j, r, v) ==
  /\ Moved(p, q, j, v) /\ Here(q, j, v)
  /\ v.on = r.on /\ v.state = r.state /\ v.modem = r.modem /\ v.child = r.child
  /\ (v.tts <=> r.tts) /\ (v.qlock <=> r.qlock) /\ (v.kill <=> r.kill)
  /\ (v.suspendPending <=> r.suspendPending)
  /\ v.notices = r.notices /\ v.qfile = r.qfile

\* The outcome changes nothing but the status and the tries.
LEMMA OutcomeIs ==
  ASSUME NEW p, NEW j, NEW r, Here(p, j, r), NEW stop \in {j, NoJob},
         NEW why \in {"failed", "retry"}, NEW counted \in BOOLEAN,
         NEW q, q = [p EXCEPT !.job = Outcome(p, j, stop, why, counted)], NEW v, v = q.job[j]
  PROVE  Outcomes(p, q, j, r, v)
<1>1. p \in Memory /\ Plain(p) /\ j \in Jobs /\ p.job[j] = r /\ r \in JobRecord
  BY DEF Here
<1>2. Batch(p, j) = {j}
  BY <1>1, BatchIs
<1>3. PICK s, n : /\ s = (IF j = stop THEN why ELSE "done")
                  /\ n = (IF (j = stop => counted) /\ r.tries < MaxTries
                           THEN r.tries + 1 ELSE r.tries)
  OBVIOUS
<1>4. s \in {"none", "done", "failed", "retry"} /\ n \in 0..MaxTries
  BY <1>1, <1>3, Constants DEF JobRecord
<1>5. PICK w : w = [r EXCEPT !.status = s, !.tries = n]
  OBVIOUS
<1>6. w \in JobRecord
  <2>1. PICK m : m = [r EXCEPT !.status = s]
    OBVIOUS
  <2>2. m \in JobRecord
    BY <1>1, <1>4, <2>1 DEF JobRecord
  <2>3. w = [m EXCEPT !.tries = n]
    BY <1>5, <2>1
  <2> QED  BY <1>4, <2>2, <2>3 DEF JobRecord
<1>7. Outcome(p, j, stop, why, counted) = [p.job EXCEPT ![j] = w]
  <2>1. stop = NoJob \/ stop \in Batch(p, j)
    BY <1>2
  <2>2. Outcome(p, j, stop, why, counted)[j] = w
    BY <1>1, <1>2, <1>3, <1>5, <2>1 DEF Outcome
  <2>3. \A k \in Jobs \ {j} : Outcome(p, j, stop, why, counted)[k] = p.job[k]
    BY <1>2 DEF Outcome
  <2>4. Outcome(p, j, stop, why, counted) = [k \in Jobs |-> Outcome(p, j, stop, why, counted)[k]]
    BY DEF Outcome
  <2>5. p.job = [k \in Jobs |-> p.job[k]]
    BY <1>1 DEF Memory
  <2> HIDE DEF Outcome
  <2> QED  BY <1>1, <2>2, <2>3, <2>4, <2>5
<1>8. Replaced(p, q, j, w)
  <2>1. q = [p EXCEPT !.job[j] = w]
    BY <1>1, <1>7 DEF Memory
  <2>2. w.bprev = r.bprev /\ w.bnext = r.bnext
    BY <1>1, <1>5 DEF JobRecord
  <2> QED  BY <1>1, <1>6, <2>1, <2>2 DEF Replaced
<1>9. Moved(p, q, j, w) /\ Here(q, j, w)
  BY <1>8, ReplacedMoved
<1>10. v = w
  BY <1>9 DEF Here
<1>11. /\ w.on = r.on /\ w.state = r.state /\ w.modem = r.modem /\ w.child = r.child
       /\ (w.tts <=> r.tts) /\ (w.qlock <=> r.qlock) /\ (w.kill <=> r.kill)
       /\ (w.suspendPending <=> r.suspendPending)
       /\ w.notices = r.notices /\ w.qfile = r.qfile
  BY <1>1, <1>5 DEF JobRecord
<1> QED  BY <1>9, <1>10, <1>11 DEF Outcomes

\* The child that sent the job is reaped.
LEMMA SendDoneShape ==
  ASSUME IInv, Shape, NEW j \in Jobs, SendDone(j)
  PROVE  /\ Shape' /\ DoneStays /\ Spared(j)
         /\ faxq'.job[j].on # "blocked" /\ Relieved(DestOf[j])
<1>1. PICK r, d : r = faxq.job[j] /\ d = DestOf[j]
  OBVIOUS
<1>2. Idle /\ r.child # "none" /\ Reaping /\ pc' = "finish" /\ cur' = j
  BY <1>1 DEF SendDone
<1>3. PICK a, u : a = Reaped(j) /\ u = Childless(r)
  OBVIOUS
<1>4. Exited(j, r, a, u)
  BY <1>1, <1>2, <1>3, ReapedIs
<1>5. /\ Here(a, j, u) /\ Moved(faxq, a, j, u) /\ Here(faxq, j, r) /\ Busy(r) /\ d \in Dests
      /\ Batch(faxq, j) = {j}
  BY <1>1, <1>4, DestOfType, BatchIs DEF Exited, Here
<1>6. PICK stop \in {j, NoJob}, why \in {"failed", "retry"}, counted \in {TRUE, ~Uncounted} :
        LET sent == [a EXCEPT !.job = Outcome(a, j, stop, why, counted)]
            q == ReadRequest(ReleaseIfHeld(Hangup(sent, d), j), j)
        IN \/ stop = j /\ faxq' = DelayBlocked(q, d)
           \/ \E U \in Unblockable(q, d, TRUE) : faxq' = Unblock(q, d, U)
  <2>1. PICK stop \in Batch(faxq, j) \cup {NoJob}, why \in {"failed", "retry"},
             counted \in {TRUE, ~Uncounted} :
          LET sent == [Reaped(j) EXCEPT !.job = Outcome(Reaped(j), j, stop, why, counted)]
              q == ReadRequest(ReleaseIfHeld(Hangup(sent, DestOf[j]), j), j)
          IN \/ stop = j /\ faxq' = DelayBlocked(q, DestOf[j])
             \/ \E U \in Unblockable(q, DestOf[j], TRUE) : faxq' = Unblock(q, DestOf[j], U)
    BY Zenon DEF SendDone
  <2>2. stop \in {j, NoJob}
    BY <1>5
  <2>3. LET sent == [a EXCEPT !.job = Outcome(a, j, stop, why, counted)]
            q == ReadRequest(ReleaseIfHeld(Hangup(sent, d), j), j)
        IN \/ stop = j /\ faxq' = DelayBlocked(q, d)
           \/ \E U \in Unblockable(q, d, TRUE) : faxq' = Unblock(q, d, U)
    BY <1>1, <1>3, <2>1
  <2> QED  BY <2>2, <2>3, Zenon
<1>7. PICK b, v : b = [a EXCEPT !.job = Outcome(a, j, stop, why, counted)] /\ v = b.job[j]
  OBVIOUS
<1>8. Outcomes(a, b, j, u, v)
  <2>1. counted \in BOOLEAN
    OBVIOUS
  <2> QED  BY <1>5, <1>7, <2>1, OutcomeIs
<1>9. Moved(a, b, j, v) /\ Here(b, j, v)
  BY <1>8 DEF Outcomes
<1>10. Moved(faxq, b, j, v)
  BY <1>5, <1>9, MovedChain
<1>11. PICK c, x : c = Hangup(b, d) /\ x = b.di[d]
  OBVIOUS
<1>12. PICK y : HungUp(x, y) /\ Turned(b, c, j, v, y) /\ Here(c, j, v)
  BY <1>1, <1>9, <1>11, HangupIs
<1>13. PICK h, t : h = ReleaseIfHeld(c, j) /\ t = [v EXCEPT !.modem = NoModem]
  OBVIOUS
<1>14. Freed(c, h, j, t, v.modem) /\ SameDest(c, h, j) /\ Here(h, j, t)
  BY <1>12, <1>13, ReleaseFreed
<1>15. /\ t.on = "activeq" /\ t.state = "active" /\ ~t.tts /\ ~t.qlock /\ t.child = "none"
       /\ t.modem = NoModem /\ (t.suspendPending <=> r.suspendPending) /\ (t.kill <=> r.kill)
       /\ t.notices = r.notices /\ t.qfile = r.qfile /\ v.modem = r.modem
  <2>1. v \in JobRecord
    BY <1>9 DEF Here
  <2>2. /\ t.on = v.on /\ t.state = v.state /\ (t.tts <=> v.tts) /\ (t.qlock <=> v.qlock)
        /\ t.child = v.child /\ t.modem = NoModem
        /\ (t.suspendPending <=> v.suspendPending) /\ (t.kill <=> v.kill)
        /\ t.notices = v.notices /\ t.qfile = v.qfile
    BY <1>13, <2>1 DEF JobRecord
  <2> QED  BY <1>4, <1>8, <2>2 DEF Exited, Outcomes
<1>16. ReadRequest(h, j) = h
  BY <1>14, <1>15 DEF ReadRequest, Here
<1>17. PICK U \in SUBSET BlockedOn(h, d) :
         \/ U \in Unblockable(h, d, TRUE) /\ faxq' = Unblock(h, d, U)
         \/ U = BlockedOn(h, d) /\ faxq' = DelayBlocked(h, d)
  <2>1. \/ faxq' = DelayBlocked(h, d)
        \/ \E U \in Unblockable(h, d, TRUE) : faxq' = Unblock(h, d, U)
    BY <1>6, <1>7, <1>11, <1>13, <1>16
  <2> QED  BY <2>1 DEF Unblockable
<1>18. Step(faxq, h, j, t)
  <2>1. Step(faxq, c, j, v)
    BY <1>10, <1>12, StepChain DEF Moved, Turned
  <2> QED  BY <1>14, <2>1, StepChain DEF Freed
<1>19. h.modem = Without(faxq, r.modem) /\ h.fault = faxq.fault
  <2>1. c.modem = faxq.modem /\ c.fault = faxq.fault
    BY <1>10, <1>12 DEF Moved, Turned
  <2>2. Without(c, r.modem) = Without(faxq, r.modem)
    BY <2>1, WithoutSame
  <2> QED  BY <1>14, <1>15, <2>1, <2>2 DEF Freed
<1>20. x = faxq.di[d] /\ y = h.di[d]
  BY <1>1, <1>10, <1>11, <1>12, <1>14 DEF Moved, SameDest, Turned
<1>21. Alike(faxq', faxq')
  <2>1. h \in Memory
    BY <1>14 DEF Here
  <2>2. faxq' \in Memory
    BY <1>5, <1>17, <2>1, WakesAre DEF Wakes
  <2> QED  BY <2>2 DEF Alike
<1>22. Ending(t)
  BY <1>15 DEF Ending, Free
<1>23. AtJob(j, t)' /\ Handling(j)'
  BY <1>2, <1>22 DEF AtJob, Handling
<1>24. (t.suspendPending => r.suspendPending /\ ~t.kill) /\ (r.suspendPending => t.suspendPending)
  <2>1. r.suspendPending => ~r.kill
    BY <1>1 DEF Shape, Waits
  <2> QED  BY <1>15, <2>1
<1>25. ~KillTimers => Tale(t)
  <2>1. /\ r.on \notin {"absent", "deadq"} /\ t.on \notin {"absent", "deadq"}
        /\ t.state # "done" /\ (~KillTimers => Tale(r))
    BY <1>4, <1>15 DEF Busy, Exited
  <2> QED  BY <1>15, <2>1, TaleStays
<1>26. /\ t.modem = NoModem /\ t.on \notin {"absent", "suspendq", "blocked"}
       /\ (t.on # "deadq" /\ x = x) \/ (t.on = "deadq" /\ Dropped(x, x, j))
       /\ pc' \in {"idle", "finish"} /\ (pc' = "finish" => cur' = j)
       /\ (Handling(j)' \/ Resting(t)) /\ faxq'.fault = faxq'.fault
  BY <1>2, <1>15, <1>23
<1>27. Relieved(d)
  <2>1. h \in Memory /\ r.on # "blocked" /\ t.on # "blocked"
    BY <1>5, <1>14, <1>15 DEF Here, Busy
  <2>2. (faxq' = Unblock(h, d, U) /\ (U # {} \/ BlockedOn(h, d) = {})) \/ faxq' = DelayBlocked(h, d)
    BY <1>5, <1>17, <2>1, UnblockableSome
  <2> QED  BY <1>1, <1>17, <1>18, <2>1, <2>2, RelievedIs
<1> QED  BY <1>1, <1>2, <1>5, <1>27, <1>14, <1>17, <1>18, <1>19, <1>20, <1>12, <1>21, <1>23, <1>24,
            <1>25, <1>26, HangupStep

Connecting(r) == [r EXCEPT !.child = "connected"]

\* faxsend reports that the call is connected.
LEMMA CallConnectedShape ==
  ASSUME IInv, Shape, NEW j \in Jobs, CallConnected(j)
  PROVE  Shape' /\ DoneStays /\ Spared(j) /\ Held(j)
<1>1. PICK r, d : r = faxq.job[j] /\ d = DestOf[j]
  OBVIOUS
<1>2. /\ faxq \in Memory /\ Plain(faxq) /\ r \in JobRecord /\ Here(faxq, j, r) /\ Waits
      /\ Input /\ Idle /\ faxq.running /\ r.child = "send" /\ d \in Dests
  BY <1>1, MemoryType, RecordType, InputOpen, DestOfType
     DEF Shape, CallConnected, Here, Input
<1>3. Busy(r)
  <2>1. Resting(r) \/ Busy(r)
    BY <1>1, <1>2, InputJobs
  <2> QED  BY <1>2, <2>1 DEF Resting, Free
<1>4. UNCHANGED <<pc, caller, cur, head, dest, frames>> /\ pc' = "idle"
  <2>1. Handled
    BY DEF CallConnected
  <2> QED  BY <1>2, <2>1 DEF Handled, loop, Idle
<1>5. PICK a, x : a = Connected(faxq, d) /\ x = faxq.di[d]
  OBVIOUS
<1>6. PICK y : /\ y \in DestRecord /\ y.active = x.active /\ y.blocked = x.blocked
               /\ y.calls = x.calls /\ ~y.pending
               /\ Turned(faxq, a, j, r, y) /\ Here(a, j, r)
  BY <1>1, <1>2, <1>5, ConnectedIs
<1>7. PICK q, t : q = [a EXCEPT !.job[j].child = "connected"] /\ t = Connecting(r)
  OBVIOUS
<1>8. Moved(a, q, j, t) /\ Here(q, j, t)
  <2>1. "connected" \in {"none", "prepare", "send", "connected"}
    OBVIOUS
  <2> QED  BY <1>6, <1>7, <2>1, ChildSet DEF Connecting
<1>9. /\ Busy(t) /\ t.modem = r.modem /\ (t.suspendPending <=> r.suspendPending)
      /\ (t.kill <=> r.kill) /\ t.notices = r.notices /\ t.qfile = r.qfile /\ t.on # "blocked"
  BY <1>2, <1>3, <1>7 DEF JobRecord, Busy, Connecting
<1>10. /\ Step(faxq, q, j, t) /\ q.modem = faxq.modem /\ q.fault = faxq.fault /\ q.di[d] = y
       /\ q \in Memory
  <2>1. Step(faxq, q, j, t)
    BY <1>6, <1>8, StepChain DEF Moved, Turned
  <2> QED  BY <1>1, <1>6, <1>8, <2>1 DEF Moved, Turned, SameDest, Here
<1>11. ~KillTimers => BlockedFor(q)
  BY <1>1, <1>3, <1>5, <1>6, <1>9, <1>10, BlockedSame DEF Busy
<1>12. PICK w : w = faxq'.di[d]
  OBVIOUS
<1>13. /\ Effect(j, t) /\ w \in DestRecord /\ faxq'.modem = faxq.modem
       /\ w.active = y.active /\ w.calls = y.calls /\ w.pending = y.pending
       /\ ~KillTimers => BlockedFor(faxq')
  <2>1. CASE MaxConcurrentCalls # 0
    <3>1. faxq' = q
      BY <1>1, <1>5, <1>7, <2>1 DEF CallConnected
    <3> QED  BY <1>2, <1>6, <1>10, <1>11, <1>12, <3>1, StepEffect
  <2>2. CASE MaxConcurrentCalls = 0
    <3>1. PICK U \in Unblockable(q, d, TRUE) : faxq' = Poke(Unblock(q, d, U))
      BY <1>1, <1>5, <1>7, <2>2 DEF CallConnected
    <3>2. U \in SUBSET BlockedOn(q, d)
      BY <3>1 DEF Unblockable
    <3>3. PICK s : s = Unblock(q, d, U)
      OBVIOUS
    <3>4. Wakes(q, s, d)
      BY <1>2, <1>10, <3>2, <3>3, WakesAre
    <3>5. Alike(s, faxq') /\ faxq'.fault = s.fault
      BY <3>1, <3>3, <3>4, PokeIs DEF Wakes
    <3>6. Wakes(q, faxq', d)
      BY <3>4, <3>5, WakesAlike
    <3>7. Effect(j, t)
      BY <1>1, <1>2, <1>9, <1>10, <3>6, WakeEffect
    <3>8. ~KillTimers => BlockedFor(s)
      BY <1>2, <1>10, <1>11, <3>2, <3>3, BlockedWake
    <3>9. ~KillTimers => BlockedFor(faxq')
      BY <3>5, <3>8, BlockedAlike
    <3>10. w \in DestRecord
      BY <1>2, <1>12, <3>6, EntryType DEF Wakes
    <3> QED  BY <1>10, <1>12, <3>6, <3>7, <3>9, <3>10 DEF Wakes
  <2> QED  BY <2>1, <2>2
<1>14. LocksSame
  BY <1>13 DEF LocksSame
<1>15. Waits'
  <2>1. frames = <<>> \/ Waiting
    BY <1>2, Open
  <2>2. t.suspendPending => ~t.kill
    BY <1>1, <1>2, <1>9 DEF Waits
  <2> QED  BY <1>1, <1>2, <1>4, <1>9, <1>13, <2>1, <2>2, WaitsOn
<1>16. ~KillTimers => BlockedFor(faxq') /\ Tale(t)
  BY <1>1, <1>3, <1>9, <1>13 DEF Shape, Reports, Tale, Busy
<1>17. w.active = x.active /\ w.calls = x.calls /\ (w.pending => x.pending)
  BY <1>6, <1>13
<1>18. Held(j)
  BY <1>9, <1>13 DEF Effect, Held, Busy
<1> QED  BY <1>1, <1>2, <1>3, <1>4, <1>5, <1>18, <1>9, <1>12, <1>13, <1>14, <1>15, <1>16, <1>17,
            BusyStep

\* No client is suspended in a wait for a job that sendJobDone is at, unless
\* the job still has to answer it.
LEMMA FinishingIs ==
  ASSUME IInv, Shape, FinishJob
  PROVE  /\ pc = "finish" /\ cur \in Jobs /\ Ending(faxq.job[cur])
         /\ Here(faxq, cur, faxq.job[cur]) /\ faxq.running /\ cur' = NoJob /\ pc' = "idle"
         /\ faxq.job[cur].bnext = NoJob /\ UNCHANGED <<caller, head, dest, todo, frames, phase>>
         /\ (~KillTimers => Tale(faxq.job[cur]))
<1>1. pc = "finish" /\ UNCHANGED <<caller, head, dest, todo, frames, phase>>
  BY DEF FinishJob
<1>2. cur \in Jobs
  BY <1>1 DEF IInv, CursorOK
<1>3. /\ Ending(faxq.job[cur]) /\ (~KillTimers => Tale(faxq.job[cur])) /\ Plain(faxq)
      /\ faxq.running
  BY <1>1, <1>2, ScanRuns DEF Shape, Loops, Reports
<1>4. Here(faxq, cur, faxq.job[cur])
  BY <1>2, <1>3, MemoryType, RecordType DEF Here
<1>5. faxq.job[cur].bnext = NoJob
  BY <1>2, <1>3 DEF Plain
<1>6. cur' = NoJob /\ pc' = "idle"
  BY <1>5 DEF FinishJob
<1> QED  BY <1>1, <1>2, <1>3, <1>4, <1>5, <1>6

\* What becomes of a job that faxsend has tried.
Over(q, j, r, t) ==
  /\ Step(faxq, q, j, t) /\ Here(q, j, t) /\ q.fault = faxq.fault
  /\ \A m \in Modems : q.modem[m].lock = faxq.modem[m].lock
  /\ t.modem = NoModem /\ ~t.suspendPending /\ t.on \notin {"absent", "suspendq", "blocked"}
  /\ \/ t.on # "deadq" /\ q.di[DestOf[j]] = faxq.di[DestOf[j]]
     \/ t.on = "deadq" /\ Dropped(faxq.di[DestOf[j]], q.di[DestOf[j]], j)
  /\ Resting(t) \/ Left(t)
  /\ r.suspendPending => t.on = "deadq" \/ Left(t)
  /\ ~r.suspendPending => Resting(t)
  /\ ~KillTimers => Tale(t)

\* A client waits for it.
LEMMA RetriedIs ==
  ASSUME NEW j, NEW r, Here(faxq, j, r), Ending(r), r.suspendPending, ~r.kill,
         NEW state \in {"sleeping", "ready"}, NEW q,
         q = [[faxq EXCEPT !.job[j].suspendPending = FALSE] EXCEPT !.job[j].state = state],
         ~KillTimers => Tale(r)
  PROVE  \E t : Over(q, j, r, t)
<1>1. PICK a, u, t : /\ a = [faxq EXCEPT !.job[j].suspendPending = FALSE]
                     /\ u = [r EXCEPT !.suspendPending = FALSE]
                     /\ t = [u EXCEPT !.state = state]
  OBVIOUS
<1>2. Moved(faxq, a, j, u) /\ Here(a, j, u)
  <2>1. FALSE \in BOOLEAN
    OBVIOUS
  <2> QED  BY <1>1, <2>1, PendingSet
<1>3. Moved(a, q, j, t) /\ Here(q, j, t)
  <2>1. state \in States /\ q = [a EXCEPT !.job[j].state = state]
    BY <1>1, RecordPlaces
  <2> QED  BY <1>1, <1>2, <2>1, StateSet
<1>4. Moved(faxq, q, j, t)
  BY <1>2, <1>3, MovedChain
<1>5. /\ t.on = "activeq" /\ t.state = state /\ ~t.tts /\ t.modem = NoModem /\ t.child = "none"
      /\ ~t.qlock /\ ~t.suspendPending /\ ~t.kill /\ t.notices = r.notices /\ t.qfile = r.qfile
  <2>1. r \in JobRecord
    BY DEF Here
  <2> QED  BY <1>1, <2>1 DEF JobRecord, Ending, Free
<1>6. Left(t)
  BY <1>5 DEF Left, Free
<1>7. ~KillTimers => Tale(t)
  <2>1. r.on = "activeq"
    BY DEF Ending
  <2> QED  BY <1>5, <2>1, TaleStays
<1>8. Over(q, j, r, t)
  BY <1>3, <1>4, <1>5, <1>6, <1>7 DEF Over, Moved, SameDest
<1> QED  BY <1>8

\* It is tried again.
LEMMA AgainIs ==
  ASSUME NEW j, NEW r, Here(faxq, j, r), Ending(r), ~r.suspendPending, NEW q,
         q = SetSleep(Unlist(faxq, j), j, "sleeping") \/ q = SetReadyToRun(Unlist(faxq, j), j),
         ~KillTimers => Tale(r)
  PROVE  \E t : Over(q, j, r, t)
<1>1. PICK a, u : a = Unlist(faxq, j) /\ u = Unlisted(r)
  OBVIOUS
<1>2. Moved(faxq, a, j, u) /\ Here(a, j, u)
  BY <1>1, UnlistMoved
<1>3. r \in JobRecord /\ u \in JobRecord /\ u.on = "none" /\ u = [r EXCEPT !.on = u.on]
  <2>1. r \in JobRecord /\ r.on # "absent"
    BY DEF Here, Ending
  <2> QED  BY <1>1, <2>1, UnlistedIs
<1>4. /\ u.modem = NoModem /\ u.child = "none" /\ ~u.qlock /\ ~u.suspendPending /\ ~u.tts
      /\ u.notices = r.notices /\ u.qfile = r.qfile
  BY <1>3 DEF JobRecord, Ending, Free
<1>5. PICK t : t = IF q = SetReadyToRun(a, j) THEN Readied(u) ELSE Asleep(u, "sleeping")
  OBVIOUS
<1>6. Moved(a, q, j, t) /\ Here(q, j, t)
  <2>1. u.on \in {"absent", "none"} /\ "sleeping" \in States
    BY <1>3, RecordPlaces
  <2>2. CASE q = SetReadyToRun(a, j)
    BY <1>2, <1>5, <2>1, <2>2, SetReadyToRunIs
  <2>3. CASE q # SetReadyToRun(a, j)
    BY <1>1, <1>2, <1>5, <2>1, <2>3, SetSleepIs
  <2> QED  BY <2>2, <2>3
<1>7. Moved(faxq, q, j, t)
  BY <1>2, <1>6, MovedChain
<1>8. /\ Resting(t) /\ t.on \in {"runq", "sleepq"} /\ t.state # "done"
      /\ (u.notices = 0 => Tale(t))
  BY <1>3, <1>4, <1>5, ReadiedRests
<1>9. t.modem = NoModem /\ ~t.suspendPending
  BY <1>8 DEF Resting, Free
<1>10. ~KillTimers => Tale(t)
  BY <1>4, <1>8 DEF Tale, Ending
<1>11. Over(q, j, r, t)
  BY <1>6, <1>7, <1>8, <1>9, <1>10 DEF Over, Moved, SameDest
<1> QED  BY <1>11

\* It is sent, or failed for good.
LEMMA ConcludedIs ==
  ASSUME NEW j, NEW r, Here(faxq, j, r), Ending(r), NEW state \in {"done", "failed"}, NEW q,
         q = SetDead(DeleteRequest([faxq EXCEPT !.job[j].state = state], j), j),
         ~KillTimers => Tale(r)
  PROVE  \E t : Over(q, j, r, t)
<1>1. PICK a, u, t : /\ a = [faxq EXCEPT !.job[j].state = state]
                     /\ u = [r EXCEPT !.state = state] /\ t = Buried(Reported(u))
  OBVIOUS
<1>2. Moved(faxq, a, j, u) /\ Here(a, j, u)
  <2>1. state \in States
    BY RecordPlaces
  <2> QED  BY <1>1, <2>1, StateSet
<1>3. q = SetDead(DeleteRequest(a, j), j)
  BY <1>1
<1>4. Freed(a, q, j, t, u.modem) /\ LeftDest(a, q, j) /\ Here(q, j, t)
  BY <1>1, <1>2, <1>3, DeadAfter
<1>5. u \in JobRecord /\ u.modem = NoModem /\ u.child = "none" /\ u.notices = r.notices
  BY <1>1, <1>2 DEF Here, JobRecord, Ending, Free
<1>6. Resting(t) /\ t.on = "deadq" /\ (u.notices = 0 => Tale(t))
  BY <1>1, <1>5, OverIs
<1>7. t.modem = NoModem /\ ~t.suspendPending
  BY <1>6 DEF Resting, Free
<1>8. Step(faxq, q, j, t) /\ q.fault = faxq.fault
  <2>1. Step(faxq, q, j, t)
    BY <1>2, <1>4, StepChain DEF Moved, Freed
  <2> QED  BY <1>2, <1>4, <2>1 DEF Moved, Freed
<1>9. \A m \in Modems : q.modem[m].lock = faxq.modem[m].lock
  <2>1. Without(a, NoModem) = a.modem
    BY <1>2, WithoutIs DEF Here
  <2> QED  BY <1>2, <1>4, <1>5, <2>1 DEF Freed, Moved
<1>10. Dropped(faxq.di[DestOf[j]], q.di[DestOf[j]], j)
  BY <1>2, <1>4 DEF LeftDest, Moved, SameDest
<1>11. ~KillTimers => Tale(t)
  BY <1>5, <1>6 DEF Tale, Ending
<1>12. Over(q, j, r, t)
  BY <1>4, <1>6, <1>7, <1>8, <1>9, <1>10, <1>11 DEF Over
<1> QED  BY <1>12

\* A job alone is in no batch already.
LEMMA UnbatchedIs ==
  ASSUME NEW q, NEW j, NEW r, Here(q, j, r)
  PROVE  [q EXCEPT !.job[j].bnext = NoJob, !.job[j].bprev = NoJob] = q
<1>1. q \in Memory /\ j \in Jobs /\ q.job[j] = r /\ r.bprev = NoJob /\ r.bnext = NoJob
      /\ r \in JobRecord
  BY DEF Here, Plain
<1>2. [q EXCEPT !.job[j].bnext = NoJob] = q
  <2>1. [r EXCEPT !.bnext = NoJob] = r
    BY <1>1 DEF JobRecord
  <2>2. [q.job EXCEPT ![j] = r] = q.job
    BY <1>1 DEF Memory
  <2>3. [q EXCEPT !.job = q.job] = q
    BY <1>1 DEF Memory
  <2> QED  BY <1>1, <2>1, <2>2, <2>3
<1>3. [q EXCEPT !.job[j].bprev = NoJob] = q
  <2>1. [r EXCEPT !.bprev = NoJob] = r
    BY <1>1 DEF JobRecord
  <2>2. [q.job EXCEPT ![j] = r] = q.job
    BY <1>1 DEF Memory
  <2>3. [q EXCEPT !.job = q.job] = q
    BY <1>1 DEF Memory
  <2> QED  BY <1>1, <2>1, <2>2, <2>3
<1>4. [q EXCEPT !.job[j].bnext = NoJob, !.job[j].bprev = NoJob]
        = [[q EXCEPT !.job[j].bnext = NoJob] EXCEPT !.job[j].bprev = NoJob]
  OBVIOUS
<1> QED  BY <1>2, <1>3, <1>4

\* sendJobDone, for the job of a call.
LEMMA FinishedIs ==
  ASSUME NEW j, NEW r, Here(faxq, j, r), Ending(r), r.suspendPending => ~r.kill,
         ~KillTimers => Tale(r), NEW q \in Finished(faxq, j)
  PROVE  \E t : Over(q, j, r, t)
<1>1. faxq.job[j] = r
  BY DEF Here
<1>2. PICK status : status = IF r.status # "done" /\ r.suspendPending THEN "retry" ELSE r.status
  OBVIOUS
<1>3. CASE status = "retry" /\ r.suspendPending
  <2>1. q \in {[[faxq EXCEPT !.job[j].suspendPending = FALSE] EXCEPT !.job[j].state = s] :
                 s \in {"sleeping", "ready"}}
    BY <1>1, <1>2, <1>3, Zenon DEF Finished
  <2>2. PICK s \in {"sleeping", "ready"} :
          q = [[faxq EXCEPT !.job[j].suspendPending = FALSE] EXCEPT !.job[j].state = s]
    BY <2>1
  <2> QED  BY <1>3, <2>2, RetriedIs
<1>4. CASE status = "retry" /\ ~r.suspendPending /\ ~r.expired
  <2>1. q \in {SetSleep(Unlist(faxq, j), j, "sleeping"), SetReadyToRun(Unlist(faxq, j), j)}
    BY <1>1, <1>2, <1>4, Zenon DEF Finished
  <2> QED  BY <1>4, <2>1, AgainIs
<1>5. CASE ~(status = "retry" /\ (r.suspendPending \/ ~r.expired))
  <2>1. PICK s : s = IF status = "done" THEN "done" ELSE "failed"
    OBVIOUS
  <2>2. s \in {"done", "failed"}
    BY <2>1
  <2>3. q = SetDead(DeleteRequest([faxq EXCEPT !.job[j].state = s], j), j)
    BY <1>1, <1>2, <1>5, <2>1, Zenon DEF Finished
  <2> QED  BY <2>2, <2>3, ConcludedIs
<1> QED  BY <1>3, <1>4, <1>5

\* Then faxq forgets how it went.
LEMMA OverStays ==
  ASSUME NEW q, NEW j \in Jobs, NEW r, NEW u, Over(q, j, r, u),
         NEW s, s = [q EXCEPT !.job[j].status = "none"],
         NEW t, t = [u EXCEPT !.status = "none"]
  PROVE  Over(s, j, r, t)
<1>1. Here(q, j, u) /\ u \in JobRecord
  BY DEF Over, Here
<1>2. Moved(q, s, j, t) /\ Here(s, j, t)
  BY <1>1, StatusSet
<1>3. /\ t.on = u.on /\ t.state = u.state /\ t.modem = u.modem /\ t.child = u.child
      /\ (t.tts <=> u.tts) /\ (t.qlock <=> u.qlock) /\ (t.kill <=> u.kill)
      /\ (t.suspendPending <=> u.suspendPending)
      /\ t.notices = u.notices /\ t.qfile = u.qfile
  BY <1>1 DEF JobRecord
<1>4. /\ (Resting(u) => Resting(t)) /\ (Left(u) => Left(t)) /\ (Tale(u) => Tale(t))
  BY <1>3 DEF Resting, Left, Tale, Free
<1>5. Step(faxq, s, j, t)
  BY <1>2, StepChain DEF Moved, Over
<1>6. s.fault = q.fault /\ s.modem = q.modem /\ s.di[DestOf[j]] = q.di[DestOf[j]]
  BY <1>2 DEF Moved, SameDest
<1> QED  BY <1>2, <1>3, <1>4, <1>5, <1>6 DEF Over

\* The last step of sendJobDone.
LEMMA FinishJobShape ==
  ASSUME IInv, Shape, FinishJob
  PROVE  Shape' /\ DoneStays /\ Spared(cur) /\ faxq'.job[cur].on # "blocked"
<1>1. PICK j : j = cur
  OBVIOUS
<1>2. PICK r : r = faxq.job[j]
  OBVIOUS
<1>3. /\ pc = "finish" /\ j \in Jobs /\ Ending(r) /\ Here(faxq, j, r) /\ faxq.running
      /\ cur' = NoJob /\ pc' = "idle" /\ r.bnext = NoJob
      /\ UNCHANGED <<caller, head, dest, todo, frames, phase>>
      /\ (~KillTimers => Tale(r))
  BY <1>1, <1>2, FinishingIs
<1>4. /\ faxq \in Memory /\ Loops /\ Waits /\ Members /\ CallCounts /\ DestOf[j] \in Dests
      /\ Plain(faxq)
  BY <1>3, MemoryType, DestOfType DEF Shape
<1>5. r.suspendPending => frames # <<>> /\ Top.job = j /\ ~r.kill
  BY <1>2, <1>3, <1>4 DEF Waits
<1>6. [ReadRequest(faxq, cur) EXCEPT !.job[cur].bnext = NoJob, !.job[cur].bprev = NoJob] = faxq
  <2>1. ReadRequest(faxq, cur) = faxq
    BY <1>1, <1>2, <1>3 DEF ReadRequest, Ending, Free
  <2> QED  BY <1>1, <1>3, <2>1, UnbatchedIs
<1>7. PICK q \in Finished(faxq, j) : faxq' = Poke([q EXCEPT !.job[j].status = "none"])
  BY <1>1, <1>2, <1>3, <1>6 DEF FinishJob
<1>8. PICK u : Over(q, j, r, u)
  BY <1>3, <1>5, <1>7, FinishedIs
<1>9. PICK s, t : s = [q EXCEPT !.job[j].status = "none"] /\ t = [u EXCEPT !.status = "none"]
  OBVIOUS
<1>10. Over(s, j, r, t)
  BY <1>3, <1>8, <1>9, OverStays
<1>11. Alike(s, faxq') /\ faxq'.fault = s.fault
  <2>1. s \in Memory
    BY <1>10 DEF Over, Here
  <2> QED  BY <1>7, <1>9, <2>1, PokeIs
<1>12. Step(faxq, faxq', j, t) /\ faxq'.fault = faxq.fault
  BY <1>3, <1>10, <1>11, StepAlike DEF Over
<1>13. Effect(j, t)
  BY <1>3, <1>4, <1>12, StepEffect
<1>14. PICK x, y : x = faxq.di[DestOf[j]] /\ y = faxq'.di[DestOf[j]]
  OBVIOUS
<1>15. /\ (t.on # "deadq" /\ y = x) \/ (t.on = "deadq" /\ Dropped(x, y, j))
       /\ t.modem = NoModem /\ ~t.suspendPending /\ t.on \notin {"absent", "suspendq", "blocked"}
       /\ Resting(t) \/ Left(t)
       /\ (r.suspendPending => t.on = "deadq" \/ Left(t))
       /\ (~r.suspendPending => Resting(t)) /\ (~KillTimers => Tale(t))
  BY <1>10, <1>11, <1>14 DEF Over, Alike
<1>16. LocksSame
  BY <1>10, <1>11 DEF Over, Alike, LocksSame
<1>17. r.modem = NoModem /\ r.on = "activeq" /\ r.state = "active"
  BY <1>3 DEF Ending, Free
<1>18. At(j)
  BY <1>1, <1>3 DEF At, Handling
<1>19. (\A e \in Dests : Slack(e) = 0 /\ Slack(e)' = 0) /\ AtJob(j, t)'
  BY <1>3 DEF Slack, AtJob
<1>20. Loops'
  <2>1. ~(pc' = "scan" \/ (pc' = "process" /\ caller' = "scan"))
    BY <1>3
  <2> QED  BY <1>3, <1>4, <1>13, <1>19, <2>1, LoopsAfter
<1>21. Waits'
  <2>1. frames # <<>> /\ Top.job = j => t.on = "deadq" \/ Left(t)
    <3> SUFFICES ASSUME frames # <<>>, Top.job = j PROVE r.suspendPending
      BY <1>15
    <3>1. Waiting
      BY <1>1, <1>3, <1>4 DEF Waits
    <3> QED  BY <1>2, <3>1 DEF Waiting
  <2>2. frames # <<>> => phase = "reap"
    BY <1>3, <1>4 DEF Waits
  <2>3. frames # <<>> /\ ~Waiting' =>
           /\ phase' = "reap" /\ pc' # "scan"
           /\ pc' = "process" => caller' = "prepareJobDone"
           /\ pc' = "finish" => cur' # Top.job
           /\ Top.job = j => t.on = "deadq" \/ Left(t)
    BY <1>3, <2>1, <2>2
  <2>4. frames # <<>> /\ pc' = "finish" => phase' = "reap"
    BY <1>3
  <2>5. t.suspendPending => faxq.job[j].suspendPending /\ ~t.kill
    BY <1>15
  <2>6. frames' = frames
    BY <1>3
  <2> QED  BY <1>3, <1>4, <1>13, <2>3, <2>4, <2>5, <2>6, WaitsThrough
<1>22. Listed(j, t, x, y)
  BY <1>15 DEF Listed, Dropped
<1>23. Dealt(j, r, t, x, y, Slack(DestOf[j]), Slack(DestOf[j])')
  <2>1. /\ x.calls \in Nat /\ (x.pending => x.calls > 0)
    BY <1>4, <1>14, EntryType DEF CallCounts
  <2>2. Cost(r) = 0 /\ Cost(t) = 0
    BY <1>15, <1>17 DEF Cost
  <2>3. Slack(DestOf[j]) = 0 /\ Slack(DestOf[j])' = 0
    BY <1>4, <1>19
  <2>4. CASE y = NewDest /\ Dropped(x, y, j)
    <3>1. x.active \subseteq {j}
      BY <2>4 DEF Dropped, NewDest
    <3> QED  BY <1>15, <2>3, <2>4, <3>1 DEF Dealt
  <2>5. CASE y.calls = x.calls /\ y.pending = x.pending
    BY <2>1, <2>2, <2>3, <2>5 DEF Dealt
  <2> QED  BY <1>15, <2>4, <2>5 DEF Dropped
<1>24. ~KillTimers => BlockedFor(faxq') /\ Tale(t) /\ r.state # "done"
  <2>1. faxq'.di[DestOf[j]].blocked = faxq.di[DestOf[j]].blocked
    BY <1>14, <1>15 DEF Dropped
  <2> QED  BY <1>2, <1>3, <1>12, <1>15, <1>17, <2>1, BlockedSame
<1>25. /\ Handling(j)' \/ Resting(t) \/ Busy(t) \/ (Left(t) /\ frames' # <<>> /\ (Top.job)' = j)
       /\ frames' = frames \/ frames = <<>> \/ Top.job = j
  BY <1>3, <1>5, <1>15 DEF Top
<1>26. Locking(r, t)
  BY <1>15, <1>16, <1>17 DEF Locking
<1>27. \A e \in Dests \ {DestOf[j]} : Slack(e)' = Slack(e)
  BY <1>19
<1>28. Shape' /\ DoneStays /\ Spared(j)
  BY <1>2, <1>3, <1>13, <1>14, <1>18, <1>20, <1>21, <1>22, <1>23, <1>24, <1>25, <1>26,
     <1>27, StepShape
<1>29. faxq'.job[j].on # "blocked"
  BY <1>13, <1>15 DEF Effect
<1> QED  BY <1>1, <1>28, <1>29

-----------------------------------------------------------------------------
(* The invariant is inductive *)

\* A job that faxq does not know rests.
LEMMA NewJobRests ==
  /\ Resting(NewJob) /\ Tale(NewJob) /\ NewJob.modem = NoModem /\ NewJob.on = "absent"
  /\ NewJob.child = "none" /\ ~NewJob.suspendPending
  /\ NewJob.bprev = NoJob /\ NewJob.bnext = NoJob
BY DEF NewJob, Resting, Free, Tale

\* When faxq starts it has no jobs.
LEMMA ShapeInitially == Init => Shape
<1> SUFFICES ASSUME Init PROVE Shape
  OBVIOUS
<1>1. /\ \A k \in Jobs : faxq.job[k] = NewJob
      /\ \A d \in Dests : faxq.di[d] = NewDest
      /\ \A m \in Modems : faxq.modem[m].lock = "free"
      /\ faxq.running /\ faxq.fault = "none" /\ pc = "idle" /\ frames = <<>>
  BY DEF Init
<1>2. Plain(faxq)
  BY <1>1, NewJobRests DEF Plain
<1>3. Loops
  BY <1>1 DEF Loops
<1>4. Phases
  BY <1>1, NewJobRests DEF Phases
<1>5. Waits
  BY <1>1, NewJobRests DEF Waits
<1>6. Members
  BY <1>1, NewJobRests, DestOfType DEF Members, NewDest
<1>7. LocksHeld
  <2>1. \A m \in Modems : faxq.modem[m].lock # "faxq" /\ \A k \in Jobs : faxq.job[k].modem # m
    BY <1>1, NewJobRests, Constants
  <2> QED  BY <2>1 DEF LocksHeld
<1>8. \A d \in Dests : Cardinality(Calling(faxq, d)) = 0 /\ Cardinality(BlockedOn(faxq, d)) = 0
  <2>1. ASSUME NEW d \in Dests
        PROVE  Calling(faxq, d) = {} /\ BlockedOn(faxq, d) = {}
    BY <1>1, NewJobRests DEF Calling, BlockedOn
  <2> QED  BY <2>1, FS_EmptySet
<1>9. CallCounts
  <2>1. \A d \in Dests : Slack(d) = 0
    BY <1>1 DEF Slack
  <2>2. NewDest.calls = 0 /\ ~NewDest.pending
    BY DEF NewDest
  <2> QED  BY <1>1, <1>8, <2>1, <2>2, Constants DEF CallCounts
<1>10. BlockedCounts
  BY <1>1, <1>8 DEF BlockedCounts, NewDest
<1>11. Reports
  BY <1>1, NewJobRests DEF Reports
<1> QED  BY <1>2, <1>3, <1>4, <1>5, <1>6, <1>7, <1>9, <1>10, <1>11 DEF Shape

\* A step that changes nothing keeps it.
LEMMA ShapeStutters == ASSUME Shape, UNCHANGED vars PROVE Shape' /\ DoneStays
<1>1. UNCHANGED <<faxq, pc, caller, cur, head, dest, todo, frames, phase>>
  BY DEF vars, loop
<1>2. Plain(faxq)'
  BY <1>1 DEF Shape, Plain
<1>3. Loops'
  BY <1>1 DEF Shape, Loops
<1>4. Phases'
  BY <1>1 DEF Shape, Phases, Handling, Top
<1>5. Waits'
  BY <1>1 DEF Shape, Waits, Waiting, Top
<1>6. Members'
  BY <1>1 DEF Shape, Members
<1>7. LocksHeld'
  BY <1>1 DEF Shape, LocksHeld
<1>8. CallCounts'
  BY <1>1 DEF Shape, CallCounts, Slack
<1>9. BlockedCounts'
  BY <1>1 DEF Shape, BlockedCounts
<1>10. Reports'
  BY <1>1 DEF Shape, Reports
<1>11. DoneStays
  BY <1>1 DEF DoneStays
<1> QED  BY <1>2, <1>3, <1>4, <1>5, <1>6, <1>7, <1>8, <1>9, <1>10, <1>11 DEF Shape

\* The scheduler pass.
LEMMA VisitShape ==
  ASSUME IInv, Shape, MaxBatchJobs = 1, NEW j \in Jobs,
         \/ VisitExhausted(j) \/ VisitBlocked(j) \/ VisitDelayed(j) \/ VisitNoModem(j)
         \/ VisitExempt(j) \/ VisitAssign(j) \/ VisitAssignBusy(j) \/ VisitBatched(j)
         \/ AddToBatch(j)
  PROVE  Shape' /\ DoneStays
<1>1. CASE VisitExhausted(j)
  <2>1. Visiting(j) /\ RejectJob(j)
    BY <1>1 DEF VisitExhausted
  <2> QED  BY <2>1, VisitExhaustedShape
<1>2. CASE VisitExempt(j)
  <2>1. Visiting(j) /\ RejectJob(j)
    BY <1>2 DEF VisitExempt, Eligible
  <2> QED  BY <2>1, VisitExhaustedShape
<1>3. CASE AddToBatch(j)
  BY <1>3 DEF AddToBatch, Shape, Loops
<1>4. CASE VisitBlocked(j)
  BY <1>4, VisitBlockedShape
<1>5. CASE VisitDelayed(j)
  BY <1>5, VisitDelayedShape
<1>6. CASE VisitNoModem(j)
  BY <1>6, VisitNoModemShape
<1>7. CASE VisitAssign(j)
  BY <1>7, VisitAssignShape
<1>8. CASE VisitAssignBusy(j)
  BY <1>8, VisitAssignBusyShape
<1>9. CASE VisitBatched(j)
  BY <1>9 DEF VisitBatched, Shape, Plain
<1> QED  BY <1>1, <1>2, <1>3, <1>4, <1>5, <1>6, <1>7, <1>8, <1>9

\* Every step, in a process that calls one job at a time and in which at most
\* one client waits.
LEMMA ShapeInductive ==
  ASSUME IInv, Shape, [Next]_vars, MaxBatchJobs = 1, Len(frames) <= 1, Len(frames') <= 1
  PROVE  Shape' /\ DoneStays
<1>1. CASE RunScheduler \/ Close \/ EndScan \/ EndBatch \/ Resume
  <2>1. CASE EndBatch
    BY <2>1 DEF EndBatch, Shape, Loops
  <2> QED  BY <1>1, <2>1, RunSchedulerShape, CloseShape, EndScanShape, ResumeShape
<1>2. CASE ProcessReady \/ ProcessReject \/ ProcessPrepare \/ ProcessForkFails
  BY <1>2, ProcessReadyShape, ProcessRejectShape, ProcessPrepareShape, ProcessForkFailsShape
<1>3. CASE SendJobStart \/ SendForkFails \/ ProcessNothing \/ FinishJob
  BY <1>3, SendJobStartShape, SendForkFailsShape, ProcessNothingShape, FinishJobShape
<1>4. ASSUME NEW j \in Jobs,
             TtsTimer(j) \/ PrepareInterrupted(j) \/ PrepareDone(j) \/ PrepareFailed(j) \/ SendDone(j)
      PROVE  Shape' /\ DoneStays
  BY <1>4, TtsTimerShape, PrepareInterruptedShape, PrepareDoneShape, PrepareFailedShape,
     SendDoneShape
<1>5. ASSUME NEW j \in Jobs,
             \/ VisitExhausted(j) \/ VisitBlocked(j) \/ VisitDelayed(j) \/ VisitNoModem(j)
             \/ VisitExempt(j) \/ VisitAssign(j) \/ VisitAssignBusy(j) \/ VisitBatched(j)
             \/ AddToBatch(j)
      PROVE  Shape' /\ DoneStays
  BY <1>5, VisitShape
<1>6. ASSUME NEW m \in Modems, LockPoll(m) PROVE Shape' /\ DoneStays
  BY <1>6, LockPollShape
<1>7. CASE Work
  BY <1>1, <1>2, <1>3, <1>4, <1>5, <1>6, <1>7 DEF Work
<1>8. CASE Quit
  BY <1>8, QuitShape
<1>9. ASSUME NEW j \in Jobs, Submit(j) \/ KillTimer(j) \/ CallConnected(j)
      PROVE  Shape' /\ DoneStays
  BY <1>9, SubmitShape, KillTimerShape, CallConnectedShape
<1>10. ASSUME NEW j \in Jobs, NEW cmd \in Commands, Command(j, cmd) \/ CommandActive(j, cmd)
       PROVE  Shape' /\ DoneStays
  BY <1>10, CommandShape, CommandActiveShape
<1>11. ASSUME NEW m \in Modems, OtherLock(m) PROVE Shape' /\ DoneStays
  BY <1>11, OtherLockShape
<1>12. ASSUME NEW m \in Modems, NEW msg \in ModemMessages, ModemMessage(m, msg)
       PROVE  Shape' /\ DoneStays
  BY <1>12, ModemMessageShape
<1>13. CASE Environment
  BY <1>8, <1>9, <1>10, <1>11, <1>12, <1>13 DEF Environment
<1>14. CASE UNCHANGED vars
  BY <1>14, ShapeStutters
<1> QED  BY <1>7, <1>13, <1>14 DEF Next

-----------------------------------------------------------------------------
(* What follows from it *)

\* At most one client waits in suspendJob: none is answered while another
\* waits, which the nested dispatch loop of suspendJob would allow.
OneWait == Len(frames) <= 1

\* The invariant holds in a process that calls one job at a time, as long as
\* no two clients wait for jobs.
LEMMA ShapeHolds ==
  ASSUME MaxBatchJobs = 1
  PROVE  Spec /\ []OneWait => [](IInv /\ Shape)
<1>1. Init => IInv /\ Shape
  BY Initially, ShapeInitially
<1>2. (IInv /\ Shape) /\ [Next]_vars /\ OneWait /\ OneWait' => (IInv /\ Shape)'
  BY Inductive, ShapeInductive DEF OneWait
<1> QED  BY <1>1, <1>2, PTL DEF Spec

\* Only a request to suspend or to kill a job waits.
LEMMA NobodyWaits ==
  ASSUME Commands \subseteq {"Q"}, frames = <<>>, [Next]_vars
  PROVE  frames' = <<>>
<1>1. CASE RunScheduler \/ Close \/ EndScan \/ EndBatch \/ Resume \/ FinishJob
  BY <1>1 DEF RunScheduler, Close, Handled, EndScan, EndBatch, Resume, FinishJob
<1>2. CASE \/ ProcessReady \/ ProcessReject \/ ProcessPrepare \/ ProcessForkFails
           \/ SendJobStart \/ SendForkFails \/ ProcessNothing
  <2>1. Processing
    BY <1>2 DEF ProcessReady, ProcessReject, ProcessPrepare, ProcessForkFails,
                SendJobStart, SendForkFails, ProcessNothing
  <2> QED  BY <2>1 DEF Processing
<1>3. ASSUME NEW j \in Jobs,
             TtsTimer(j) \/ PrepareInterrupted(j) \/ PrepareDone(j) \/ PrepareFailed(j) \/ SendDone(j)
      PROVE  frames' = <<>>
  <2>1. CASE TtsTimer(j) \/ SendDone(j)
    BY <2>1 DEF TtsTimer, Handled, SendDone, Reaping
  <2>2. CASE PrepareInterrupted(j) \/ PrepareDone(j) \/ PrepareFailed(j)
    <3>1. Prepared(j)
      BY <2>2 DEF PrepareInterrupted, PrepareDone, PrepareFailed
    <3> QED  BY <3>1 DEF Prepared, Reaping
  <2> QED  BY <1>3, <2>1, <2>2
<1>4. ASSUME NEW j \in Jobs,
             \/ VisitExhausted(j) \/ VisitBlocked(j) \/ VisitDelayed(j) \/ VisitNoModem(j)
             \/ VisitExempt(j) \/ VisitAssign(j) \/ VisitAssignBusy(j) \/ VisitBatched(j)
             \/ AddToBatch(j)
      PROVE  frames' = <<>>
  <2>1. CASE AddToBatch(j) \/ VisitBatched(j)
    BY <2>1 DEF AddToBatch, VisitBatched
  <2>2. CASE ~AddToBatch(j) /\ ~VisitBatched(j)
    <3>1. Visiting(j)
      BY <1>4, <2>2 DEF VisitExhausted, VisitBlocked, VisitDelayed, VisitNoModem, VisitExempt,
                        VisitAssign, VisitAssignBusy, Eligible
    <3> QED  BY <3>1 DEF Visiting
  <2> QED  BY <2>1, <2>2
<1>5. ASSUME NEW m \in Modems, LockPoll(m) \/ OtherLock(m) PROVE frames' = <<>>
  BY <1>5 DEF LockPoll, OtherLock, Handled
<1>6. CASE Work
  BY <1>1, <1>2, <1>3, <1>4, <1>5, <1>6 DEF Work
<1>7. CASE Quit
  BY <1>7 DEF Quit, Handled
<1>8. ASSUME NEW j \in Jobs, Submit(j) \/ KillTimer(j) \/ CallConnected(j)
      PROVE  frames' = <<>>
  BY <1>8 DEF Submit, KillTimer, CallConnected, Handled
<1>9. ASSUME NEW j \in Jobs, NEW cmd \in Commands, Command(j, cmd) \/ CommandActive(j, cmd)
      PROVE  FALSE
  BY <1>9 DEF Command, CommandActive, Commanded
<1>10. ASSUME NEW m \in Modems, NEW msg \in ModemMessages, ModemMessage(m, msg)
       PROVE  frames' = <<>>
  BY <1>10 DEF ModemMessage, Handled
<1>11. CASE Environment
  BY <1>5, <1>7, <1>8, <1>9, <1>10, <1>11 DEF Environment
<1>12. CASE UNCHANGED vars
  BY <1>12 DEF vars
<1> QED  BY <1>6, <1>11, <1>12 DEF Next

\* So without such requests nobody does.
LEMMA NoneWaits ==
  ASSUME Commands \subseteq {"Q"}
  PROVE  Spec => []OneWait
<1>1. Init => frames = <<>>
  BY DEF Init
<1>2. frames = <<>> /\ [Next]_vars => (frames = <<>>)'
  BY NobodyWaits
<1>3. frames = <<>> => OneWait
  BY DEF OneWait
<1> QED  BY <1>1, <1>2, <1>3, PTL DEF Spec

\* The jobs between two handlers.
LEMMA QuietJobs ==
  ASSUME IInv, Shape, Quiet, NEW j \in Jobs
  PROVE  /\ \/ Resting(faxq.job[j]) \/ Busy(faxq.job[j])
            \/ Left(faxq.job[j]) /\ frames # <<>>
         /\ Attended(j) <=> faxq.job[j].child # "none"
<1>1. ~Handling(j) /\ Plain(faxq)
  BY DEF Quiet, Handling, Shape
<1>2. BatchOf(faxq, j) = {j}
  BY <1>1, BatchIs
<1> QED  BY <1>1, <1>2 DEF Shape, Phases, Attended

\* Each call is one job.
LEMMA InCallIs ==
  ASSUME Shape, NEW d
  PROVE  InCall(d) = Calling(faxq, d)
BY DEF InCall, Calling, Shape, Plain

\* No two jobs share a modem, unless some job takes modems without their
\* lock: a modem whose lock is faxq's is given to nobody, and a job keeps the
\* lock as long as it has the modem.
THEOREM ModemsAreExclusive ==
  ASSUME MaxBatchJobs = 1, IgnoreModemBusy = {}
  PROVE  Spec /\ []OneWait => []ModemExclusive
<1>1. IInv /\ Shape => ModemExclusive
  <2> SUFFICES ASSUME Shape, NEW i \in Jobs, NEW j \in Jobs,
                      faxq.job[i].modem = faxq.job[j].modem, faxq.job[i].modem # NoModem, IInv
               PROVE  j \in BatchOf(faxq, i)
    BY DEF ModemExclusive
  <2>1. faxq.job[i].modem \in Modems
    BY MemoryType, RecordType DEF JobRecord
  <2>2. i = j
    BY <2>1 DEF Shape, LocksHeld
  <2> QED  BY <2>2, BatchIs DEF Shape
<1> QED  BY <1>1, ShapeHolds, PTL

\* Between two handlers faxq holds the locks of just the modems of its jobs:
\* sendJobDone, prepareJobDone, the failures of fork, rejections, suspends
\* and kills give back each lock that findModem took, and no other.
THEOREM LocksAreAccounted ==
  ASSUME MaxBatchJobs = 1, IgnoreModemBusy = {}
  PROVE  Spec /\ []OneWait => []ModemAccounted
<1>1. IInv /\ Shape => ModemAccounted
  BY DEF Shape, LocksHeld, ModemAccounted
<1> QED  BY <1>1, ShapeHolds, PTL

\* The fxAsserts of the lists and of the modem table hold, no queue file is
\* locked twice and faxq does not send itself SIGTERM, whatever clients,
\* timers and subprocesses do.
THEOREM AssertionsHold ==
  ASSUME MaxBatchJobs = 1
  PROVE  Spec /\ []OneWait => []AssertsHold
<1>1. IInv /\ Shape => AssertsHold
  BY DEF Shape, Loops, AssertsHold
<1> QED  BY <1>1, ShapeHolds, PTL

\* If no job is rejected after it got its modem, faxq does not use a Job or
\* DestInfo that it has deleted either.
THEOREM NothingFaults ==
  ASSUME MaxBatchJobs = 1, "reject" \notin PrepOutcomes
  PROVE  Spec /\ []OneWait => []NoFault
<1>1. IInv /\ Shape => NoFault
  BY DEF Shape, Loops, NoFault
<1> QED  BY <1>1, ShapeHolds, PTL

\* No destination is called by more jobs than MaxConcurrentCalls allows: the
\* count of a DestInfo may run ahead of the calls, never behind them, though
\* the entry is purged and made anew while jobs come and go.
THEOREM CallsAreLimited ==
  ASSUME MaxBatchJobs = 1
  PROVE  Spec /\ []OneWait => []CallLimit
<1>1. IInv /\ Shape => CallLimit
  <2> SUFFICES ASSUME IInv, Shape, MaxConcurrentCalls > 0, NEW d \in Dests
               PROVE  Cardinality(InCall(d)) <= MaxConcurrentCalls
    BY DEF CallLimit
  <2>1. /\ Cardinality(Calling(faxq, d)) + Slack(d) <= faxq.di[d].calls
        /\ faxq.di[d].calls <= MaxConcurrentCalls
    BY DEF Shape, CallCounts
  <2>2. Cardinality(Calling(faxq, d)) \in Nat /\ faxq.di[d].calls \in Nat /\ Slack(d) \in {0, 1}
    BY CallingType, MemoryType, EntryType DEF Slack
  <2>3. InCall(d) = Calling(faxq, d)
    BY InCallIs
  <2> QED  BY <2>1, <2>2, <2>3, Constants
<1> QED  BY <1>1, ShapeHolds, PTL

\* The call count of a DestInfo is the number of jobs that call it, a call is
\* pending only while there is one, and the blocked jobs are counted as they
\* are listed: if nobody suspends or kills a job, no kill time passes and fork
\* does not fail, every call() is undone by one hangup().
THEOREM CallsAreAccounted ==
  ASSUME MaxBatchJobs = 1, Commands \subseteq {"Q"}, ~KillTimers, ~ForkMayFail
  PROVE  Spec => []CallsAccounted
<1>1. IInv /\ Shape => CallsAccounted
  <2> SUFFICES ASSUME IInv, Shape, Quiet, NEW d \in Dests
               PROVE  /\ faxq.di[d].calls = Cardinality(InCall(d))
                      /\ faxq.di[d].pending => InCall(d) # {}
                      /\ faxq.di[d].blocked = Cardinality(BlockedOn(faxq, d))
    BY DEF CallsAccounted
  <2>1. InCall(d) = Calling(faxq, d) /\ Slack(d) = 0
    BY InCallIs DEF Quiet, Slack
  <2>2. Cardinality(Calling(faxq, d)) \in Nat
    BY CallingType
  <2>3. faxq.di[d].calls = Cardinality(Calling(faxq, d)) + Slack(d)
    BY DEF Shape, CallCounts, Calm
  <2>4. faxq.di[d].calls = Cardinality(InCall(d))
    BY <2>1, <2>2, <2>3
  <2>5. faxq.di[d].pending => InCall(d) # {}
    <3>1. faxq.di[d].pending => faxq.di[d].calls > 0
      BY DEF Shape, CallCounts
    <3> QED  BY <2>4, <3>1, FS_EmptySet
  <2>6. faxq.di[d].blocked = Cardinality(BlockedOn(faxq, d))
    BY DEF Shape, BlockedCounts
  <2> QED  BY <2>4, <2>5, <2>6
<1> QED  BY <1>1, ShapeHolds, NoneWaits, PTL

\* No job is forgotten: one that is on no list, or active, has a subprocess,
\* whose exit will move it.
THEOREM NoneIsStranded ==
  ASSUME MaxBatchJobs = 1
  PROVE  Spec /\ []OneWait => []NoStranded
<1>1. IInv /\ Shape => NoStranded
  <2> SUFFICES ASSUME IInv, Shape, Quiet, frames = <<>>, NEW j \in Jobs,
                      faxq.job[j].on \in {"none", "activeq"}
               PROVE  Attended(j)
    BY DEF NoStranded
  <2>1. Resting(faxq.job[j]) \/ Busy(faxq.job[j])
    BY QuietJobs
  <2>2. Busy(faxq.job[j])
    BY <2>1 DEF Resting
  <2> QED  BY <2>2, QuietJobs DEF Busy
<1> QED  BY <1>1, ShapeHolds, PTL

\* A suspended job is inert, whether it was suspended on a list or while a
\* subprocess worked on it: no timer, subprocess, modem or queue file lock is
\* left and its destination does not count it.
THEOREM SuspendedIsInert ==
  ASSUME MaxBatchJobs = 1
  PROVE  Spec /\ []OneWait => []SuspendedInert
<1>1. IInv /\ Shape => SuspendedInert
  <2> SUFFICES ASSUME IInv, Shape, Quiet, NEW j \in Jobs, faxq.job[j].on = "suspendq"
               PROVE  /\ ~faxq.job[j].tts /\ ~faxq.job[j].kill /\ ~faxq.job[j].qlock
                      /\ faxq.job[j].modem = NoModem /\ ~Attended(j)
                      /\ j \notin faxq.di[DestOf[j]].active
    BY DEF SuspendedInert
  <2>1. Resting(faxq.job[j])
    BY QuietJobs DEF Busy, Left
  <2>2. ~Attended(j)
    BY <2>1, QuietJobs DEF Resting, Free
  <2>3. j \notin faxq.di[DestOf[j]].active
    BY DEF Shape, Members
  <2> QED  BY <2>1, <2>2, <2>3 DEF Resting, Free
<1> QED  BY <1>1, ShapeHolds, PTL

\* A job sleeps if and only if a timer will wake it.
THEOREM SleepersAreTimed ==
  ASSUME MaxBatchJobs = 1
  PROVE  Spec /\ []OneWait => []SleeperHasTimer
<1>1. IInv /\ Shape => SleeperHasTimer
  <2> SUFFICES ASSUME IInv, Shape, Quiet, NEW j \in Jobs
               PROVE  (faxq.job[j].on = "sleepq") <=> faxq.job[j].tts
    BY DEF SleeperHasTimer
  <2>1. Resting(faxq.job[j]) \/ Busy(faxq.job[j]) \/ Left(faxq.job[j])
    BY QuietJobs
  <2> QED  BY <2>1 DEF Resting, Busy, Left
<1> QED  BY <1>1, ShapeHolds, PTL

\* faxq stops only when no subprocess of a job is left.
THEOREM QuitHasWaited ==
  ASSUME MaxBatchJobs = 1
  PROVE  Spec /\ []OneWait => []QuitWaits
<1>1. IInv /\ Shape => QuitWaits
  BY DEF Shape, Loops, QuitWaits
<1> QED  BY <1>1, ShapeHolds, PTL

\* The sender hears at most once that a job is over, if kill times never
\* pass: whichever of its transmission, its preparation, a rejection or a
\* client ends it, the others find it ended.
THEOREM OneFinalNotice ==
  ASSUME MaxBatchJobs = 1, ~KillTimers
  PROVE  Spec /\ []OneWait => []AtMostOneFinal
<1>1. IInv /\ Shape => AtMostOneFinal
  BY DEF Shape, Reports, Tale, AtMostOneFinal
<1> QED  BY <1>1, ShapeHolds, PTL

\* A job that was sent stays so, if kill times never pass: no client, timer
\* or late answer turns it into a failed or waiting one.
THEOREM DoneStaysDone ==
  ASSUME MaxBatchJobs = 1, ~KillTimers
  PROVE  Spec /\ []OneWait => DoneIsDone
<1>1. (IInv /\ Shape) /\ [Next]_vars /\ OneWait /\ OneWait'
        => [\A j \in Jobs : faxq.job[j].state = "done" => faxq'.job[j].state = "done"]_vars
  BY ShapeInductive DEF OneWait, DoneStays
<1> QED  BY <1>1, ShapeHolds, PTL DEF Spec, DoneIsDone
=============================================================================
