------------------------- MODULE FaxQueueWakeupProofs -------------------------
(***************************************************************************)
(* No wakeup of the scheduler of faxq is lost (RunnableIsScheduled), for   *)
(* MaxBatchJobs = 1 and any number of jobs, modems, destinations, client   *)
(* requests, kill times, failed forks and lock files of other programs.    *)
(*                                                                         *)
(* The invariant is Scheduled.  Between two handlers a job that has tries  *)
(* left and a ready modem either waits for a poke that has been given, or  *)
(* for a preparation to end, or for a call to its destination.  A pass of  *)
(* the scheduler takes all of them into todo when it resets the poke, so   *)
(* while the pass runs each is still in todo.  The lock of the modem is    *)
(* not looked at: another program may give it back at any time without     *)
(* telling faxq, which is why a modem found locked is made BUSY and        *)
(* polled, and is not ready any more.                                      *)
(*                                                                         *)
(* Then BlockedHasWaker, for what is called Placid: a job blocked by the   *)
(* limit of calls is released by a job that is in a call or will be.  The  *)
(* invariant is Served.                                                    *)
(***************************************************************************)
EXTENDS FaxQueueSingleProofs

-----------------------------------------------------------------------------
(* The invariant *)

\* A pass of the scheduler is under way, or a processJob it has called.
InScan == pc = "scan" \/ (pc = "process" /\ caller = "scan")

\* Job j is on the run queue, may be tried, and has a modem that is ready.
Wanting(j) ==
  /\ faxq.job[j].on = "runq" /\ faxq.job[j].tries < MaxTries
  /\ ReadyFor(j) # {}

\* The scheduler is to run for no one unless it is poked.
Unpoked == faxq.running /\ ~faxq.quit /\ ~faxq.poked

Scheduled ==
  /\ pc # "batch"
  /\ Unpoked =>
       \A j \in Jobs : Wanting(j) =>
         /\ InScan => j \in todo
         /\ pc = "idle" => faxq.numPrepares >= MaxConcurrentPreps \/ MustBlock(j)

\* The lost wakeup is excluded by it.
LEMMA ScheduledMeans == ASSUME IInv, Scheduled PROVE RunnableIsScheduled
<1> SUFFICES ASSUME pc = "idle", NEW j \in Jobs, Runnable(j), ~faxq.poked
             PROVE  FALSE
  BY DEF RunnableIsScheduled, Quiet
<1>1. Wanting(j) /\ Unpoked
  BY DEF Wanting, Unpoked, Runnable
<1>2. faxq.numPrepares >= MaxConcurrentPreps
  BY <1>1 DEF Scheduled, Runnable
<1>3. faxq.numPrepares \in Nat /\ MaxConcurrentPreps \in Nat
  BY MemoryType, Constants DEF Memory
<1> QED BY <1>2, <1>3 DEF Runnable

-----------------------------------------------------------------------------
(* Operators that ask nothing new of the scheduler *)

\* From p to q no job has come onto the run queue and no modem has become
\* ready, or the scheduler has been poked.
Calmer(p, q) ==
  q.poked \/
    /\ ~p.poked /\ q.running = p.running /\ q.quit = p.quit
    /\ \A k \in Jobs : q.job[k].on = "runq" =>
         p.job[k].on = "runq" /\ q.job[k].tries = p.job[k].tries
    /\ \A m \in Modems : q.modem[m].state = "ready" => p.modem[m].state = "ready"

\* Reflexive.
LEMMA CalmerSelf == ASSUME NEW q \in Memory PROVE Calmer(q, q)
BY DEF Calmer, Memory

\* Transitive.
LEMMA CalmerChain ==
  ASSUME NEW p, NEW q, NEW r, Calmer(p, q), Calmer(q, r)
  PROVE  Calmer(p, r)
BY DEF Calmer

\* The jobs are put back, none of them newly on the run queue.
LEMMA CalmerJobs ==
  ASSUME NEW q \in Memory, NEW f,
         \A k \in Jobs : f[k].on = "runq" =>
           q.job[k].on = "runq" /\ f[k].tries = q.job[k].tries
  PROVE  Calmer(q, [q EXCEPT !.job = f])
BY DEF Calmer, Memory

\* The modems are put back, none of them newly ready.
LEMMA CalmerModems ==
  ASSUME NEW q \in Memory, NEW f,
         \A m \in Modems : f[m].state = "ready" => q.modem[m].state = "ready"
  PROVE  Calmer(q, [q EXCEPT !.modem = f])
BY DEF Calmer, Memory

\* Destinations and faults ask nothing of the scheduler.
LEMMA CalmerRest ==
  ASSUME NEW q \in Memory, NEW v
  PROVE  /\ Calmer(q, [q EXCEPT !.di = v])
         /\ Calmer(q, [q EXCEPT !.fault = v])
         /\ Calmer(q, [q EXCEPT !.numPrepares = v])
BY DEF Calmer, Memory

\* A fault, an assertion and a lock.
LEMMA FailCalmer == ASSUME NEW q \in Memory, NEW f PROVE Calmer(q, Fail(q, f))
BY DEF Calmer, Fail, Memory
LEMMA FxAssertCalmer == ASSUME NEW q \in Memory, NEW ok PROVE Calmer(q, FxAssert(q, ok))
BY FailCalmer, CalmerSelf DEF FxAssert
LEMMA ReadRequestCalmer == ASSUME NEW q \in Memory, NEW j PROVE Calmer(q, ReadRequest(q, j))
BY FailCalmer, CalmerSelf DEF ReadRequest

\* A poke answers every want.
LEMMA PokeCalmer == ASSUME NEW p, NEW q \in Memory PROVE Calmer(p, Poke(q)) /\ Poke(q).poked
BY DEF Calmer, Poke, Memory

\* The list of a job, unless it is the run queue.
LEMMA OnCalmer ==
  ASSUME NEW q \in Memory, NEW j \in Jobs, NEW v \in Places \ {"runq"}
  PROVE  Calmer(q, [q EXCEPT !.job[j].on = v])
BY DEF Calmer, Memory, JobRecord

\* The fields of a job record that say nothing of a want.
LEMMA FieldsCalmer ==
  ASSUME NEW q \in Memory, NEW j \in Jobs, NEW v
  PROVE  /\ Calmer(q, [q EXCEPT !.job[j].state = v])
         /\ Calmer(q, [q EXCEPT !.job[j].modem = v])
         /\ Calmer(q, [q EXCEPT !.job[j].bnext = v])
         /\ Calmer(q, [q EXCEPT !.job[j].qlock = v])
         /\ Calmer(q, [q EXCEPT !.job[j].tts = v])
         /\ Calmer(q, [q EXCEPT !.job[j].kill = v])
         /\ Calmer(q, [q EXCEPT !.job[j].expired = v])
         /\ Calmer(q, [q EXCEPT !.job[j].suspendPending = v])
         /\ Calmer(q, [q EXCEPT !.job[j].child = v])
         /\ Calmer(q, [q EXCEPT !.job[j].pid = v])
<1> USE DEF Calmer, Memory, JobRecord
<1>1. Calmer(q, [q EXCEPT !.job[j].state = v])
  OBVIOUS
<1>2. Calmer(q, [q EXCEPT !.job[j].modem = v])
  OBVIOUS
<1>3. Calmer(q, [q EXCEPT !.job[j].bnext = v])
  OBVIOUS
<1>4. Calmer(q, [q EXCEPT !.job[j].qlock = v])
  OBVIOUS
<1>5. Calmer(q, [q EXCEPT !.job[j].tts = v])
  OBVIOUS
<1>6. Calmer(q, [q EXCEPT !.job[j].kill = v])
  OBVIOUS
<1>7. Calmer(q, [q EXCEPT !.job[j].expired = v])
  OBVIOUS
<1>8. Calmer(q, [q EXCEPT !.job[j].suspendPending = v])
  OBVIOUS
<1>9. Calmer(q, [q EXCEPT !.job[j].child = v])
  OBVIOUS
<1>10. Calmer(q, [q EXCEPT !.job[j].pid = v])
  OBVIOUS
<1> QED BY <1>1, <1>2, <1>3, <1>4, <1>5, <1>6, <1>7, <1>8, <1>9, <1>10

\* A job goes on a list that is not the run queue.
LEMMA InsertCalmer ==
  ASSUME NEW q \in Memory, NEW j \in Jobs, NEW list \in Places \ {"runq"}
  PROVE  Calmer(q, Insert(q, j, list))
<1> DEFINE a == FxAssert(q, ~IsOnList(q, j))
<1>1. Insert(q, j, list) = [a EXCEPT !.job[j].on = list]
  BY DEF Insert
<1>2. Calmer(q, a) /\ a \in Memory
  BY FxAssertCalmer, FxAssertKeeps, KeepsMemory
<1> HIDE DEF a
<1> QED BY <1>1, <1>2, OnCalmer, CalmerChain

\* A job leaves its list.
LEMMA RemoveCalmer ==
  ASSUME NEW q \in Memory, NEW j \in Jobs
  PROVE  Calmer(q, Remove(q, j))
<1> DEFINE a == FxAssert(q, IsOnList(q, j))
           p == q.job[j].bprev
           n == q.job[j].bnext
           Unlink(k) ==
             IF k = j
             THEN [q.job[k] EXCEPT !.on = "none", !.bprev = NoJob,
                                   !.bnext = NoJob]
             ELSE [q.job[k] EXCEPT !.bprev = IF k = n THEN p ELSE @,
                                   !.bnext = IF k = p THEN n ELSE @]
           f == [k \in Jobs |-> Unlink(k)]
<1>1. Remove(q, j) = [a EXCEPT !.job = f]
  BY DEF Remove
<1>2. Calmer(q, a) /\ a \in Memory /\ a.job = q.job
  BY FxAssertCalmer, FxAssertKeeps, KeepsMemory DEF FxAssert, Fail, Memory
<1> HIDE DEF a, p, n
<1>3. ASSUME NEW k \in Jobs, f[k].on = "runq"
      PROVE  q.job[k].on = "runq" /\ f[k].tries = q.job[k].tries
  BY <1>3, JobType DEF JobRecord
<1> HIDE DEF f
<1> QED BY <1>1, <1>2, <1>3, CalmerJobs, CalmerChain

\* The same if it may be on none.
LEMMA UnlistCalmer ==
  ASSUME NEW q \in Memory, NEW j \in Jobs
  PROVE  Calmer(q, Unlist(q, j))
BY RemoveCalmer, CalmerSelf DEF Unlist

\* A job gives its modem back, with a poke, or has none.
LEMMA ReleaseCalmer ==
  ASSUME NEW q \in Memory, NEW j \in Jobs
  PROVE  Calmer(q, ReleaseIfHeld(q, j))
<1>1. CASE q.job[j].modem = NoModem
  BY <1>1, CalmerSelf DEF ReleaseIfHeld
<1>2. CASE q.job[j].modem # NoModem
  <2> DEFINE B == Batch(q, j)
             ok == \A k \in B : q.job[k].modem # NoModem
             a == FxAssert(Poke(q), ok)
  <2>1. a \in Memory /\ a.poked
    <3>1. Poke(q) \in Memory /\ Poke(q).poked
      BY PokeCalmer, PokeKeeps, KeepsMemory
    <3>2. a \in Memory
      BY <3>1, FxAssertKeeps, KeepsMemory
    <3> QED BY <3>1, <3>2 DEF FxAssert, Fail, Memory
  <2>2. ReleaseIfHeld(q, j) = [a EXCEPT
          !.modem[q.job[j].modem] = Released(@),
          !.job = [k \in Jobs |-> IF k \in B THEN [@[k] EXCEPT !.modem = NoModem] ELSE @[k]]]
    BY <1>2 DEF ReleaseIfHeld, ReleaseModem
  <2> HIDE DEF a, B
  <2>3. ReleaseIfHeld(q, j).poked
    BY <2>1, <2>2 DEF Memory
  <2> QED BY <2>3 DEF Calmer
<1> QED BY <1>1, <1>2

\* A job goes to sleep.
LEMMA DelayJobCalmer ==
  ASSUME NEW q \in Memory, NEW j \in Jobs
  PROVE  Calmer(q, DelayJob(q, j))
<1> DEFINE a == Insert(q, j, "sleepq")
           b == [a EXCEPT !.job[j].state = "sleeping"]
           c == [b EXCEPT !.job[j].tts = TRUE]
<1>1. DelayJob(q, j) = ReleaseIfHeld(c, j)
  BY DEF DelayJob, SetSleep
<1>2. Calmer(q, a) /\ a \in Memory
  BY InsertCalmer, InsertKeeps, KeepsMemory, PlaceNames
<1> HIDE DEF a
<1>3. Calmer(a, b) /\ b \in Memory
  BY <1>2, FieldsCalmer, SetState, KeepsMemory, PlaceNames
<1> HIDE DEF b
<1>4. Calmer(b, c) /\ c \in Memory
  BY <1>3, FieldsCalmer, SetTts, KeepsMemory
<1> HIDE DEF c
<1>5. Calmer(c, ReleaseIfHeld(c, j))
  BY <1>4, ReleaseCalmer
<1> QED BY <1>1, <1>2, <1>3, <1>4, <1>5, CalmerChain

\* A job becomes active.
LEMMA SetActiveCalmer ==
  ASSUME NEW q \in Memory, NEW j \in Jobs
  PROVE  Calmer(q, SetActive(q, j))
<1> DEFINE a == Insert(q, j, "activeq")
<1>1. SetActive(q, j) = [a EXCEPT !.job[j].state = "active"]
  BY DEF SetActive
<1>2. Calmer(q, a) /\ a \in Memory
  BY InsertCalmer, InsertKeeps, KeepsMemory DEF Places
<1> HIDE DEF a
<1> QED BY <1>1, <1>2, FieldsCalmer, CalmerChain

\* Modems are found locked.
LEMMA PollingCalmer ==
  ASSUME NEW q \in Memory, NEW T
  PROVE  Calmer(q, Polling(q, T))
<1> DEFINE f == [m \in Modems |-> IF m \in T
                                  THEN [q.modem[m] EXCEPT !.state = "busy", !.poll = TRUE]
                                  ELSE q.modem[m]]
<1>1. Polling(q, T) = [q EXCEPT !.modem = f]
  BY DEF Polling
<1>2. \A m \in Modems : f[m].state = "ready" => q.modem[m].state = "ready"
  BY DEF Memory, ModemRecord
<1> HIDE DEF f
<1> QED BY <1>1, <1>2, CalmerModems

\* A modem becomes busy, or its lock changes.
LEMMA ModemCalmer ==
  ASSUME NEW q \in Memory, NEW m \in Modems, NEW v
  PROVE  /\ Calmer(q, [q EXCEPT !.modem[m].state = "busy"])
         /\ Calmer(q, [q EXCEPT !.modem[m].lock = v])
<1>1. Calmer(q, [q EXCEPT !.modem[m].state = "busy"])
  BY DEF Calmer, Memory, ModemRecord
<1>2. Calmer(q, [q EXCEPT !.modem[m].lock = v])
  BY DEF Calmer, Memory, ModemRecord
<1> QED BY <1>1, <1>2

\* A modem is given to a job.
LEMMA AssignedCalmer ==
  ASSUME NEW q \in Memory, NEW j \in Jobs, NEW m \in Modems,
         NEW lock \in {"free", "faxq", "other"}
  PROVE  Calmer(q, Assigned(q, j, m, lock))
<1> DEFINE a == Unlist(q, j)
           b == [a EXCEPT !.modem[m].state = "busy"]
           c == [b EXCEPT !.modem[m].lock = lock]
           d == [c EXCEPT !.job[j].modem = m]
           e == [d EXCEPT !.job[j].qlock = TRUE]
           f == [e EXCEPT !.job[j].bnext = NoJob]
<1>1. Assigned(q, j, m, lock) = f
  BY DEF Assigned
<1>2. Calmer(q, a) /\ a \in Memory
  BY UnlistCalmer, UnlistKeeps, KeepsMemory
<1> HIDE DEF a
<1>3. Calmer(a, b) /\ b \in Memory
  BY <1>2, SetModemState, ModemCalmer, KeepsMemory
<1> HIDE DEF b
<1>4. Calmer(b, c) /\ c \in Memory
  BY <1>3, SetModemLock, ModemCalmer, KeepsMemory
<1> HIDE DEF c
<1>5. Calmer(c, d) /\ d \in Memory
  BY <1>4, SetModem, FieldsCalmer, KeepsMemory
<1> HIDE DEF d
<1>6. Calmer(d, e) /\ e \in Memory
  BY <1>5, SetQlock, FieldsCalmer, KeepsMemory
<1> HIDE DEF e
<1>7. Calmer(e, f)
  BY <1>6, FieldsCalmer
<1> HIDE DEF f
<1> QED BY <1>1, <1>2, <1>3, <1>4, <1>5, <1>6, <1>7, CalmerChain

\* A visit begins.
LEMMA VisitedCalmer ==
  ASSUME IInv, NEW j \in Jobs
  PROVE  Calmer(faxq, Visited(j)) /\ Visited(j) \in Memory
<1> DEFINE a == FxAssert(faxq, faxq.job[j].modem = NoModem)
<1>1. Visited(j) = ReadRequest(a, j)
  BY DEF Visited
<1>2. Calmer(faxq, a) /\ a \in Memory
  BY MemoryType, FxAssertCalmer, FxAssertKeeps, KeepsMemory
<1> HIDE DEF a
<1> QED BY <1>1, <1>2, ReadRequestCalmer, ReadRequestKeeps, KeepsMemory, CalmerChain

\* processJob makes a job active.
LEMMA EnteredCalmer ==
  ASSUME IInv, cur \in Jobs, NEW q \in Entered
  PROVE  Calmer(faxq, q) /\ q \in Memory
<1>1. PICK e \in {faxq, Fail(faxq, "dangling"), Active(faxq, cur)} : q = SetActive(e, cur)
  BY DEF Entered
<1>2. e \in Memory
  BY <1>1, MemoryType, FailKeeps, ActiveKeeps, KeepsMemory DEF Faults
<1>3. Calmer(faxq, e)
  BY <1>1, MemoryType, CalmerSelf, FailCalmer DEF Active, Calmer, Memory
<1> QED BY <1>1, <1>2, <1>3, SetActiveCalmer, EnteredKeeps, KeepsMemory, CalmerChain

-----------------------------------------------------------------------------
(* Operators that poke the scheduler *)

\* What is poked stays so until the scheduler runs.
LEMMA Poked == ASSUME NEW q, Poke(q) \in Memory PROVE Poke(q).poked
BY DEF Poke, Memory

\* setDead.
LEMMA SetDeadPokes ==
  ASSUME NEW q \in Memory, NEW j \in Jobs
  PROVE  SetDead(q, j).poked
<1>1. SetDead(q, j) \in Memory
  BY SetDeadKeeps, KeepsMemory
<1>2. PICK r : SetDead(q, j) = Poke(r)
  BY DEF SetDead
<1> QED BY <1>1, <1>2, Poked

\* The answer to a client.
LEMMA AnswerPokes ==
  ASSUME NEW q \in Memory, NEW j \in Jobs, NEW cmd
  PROVE  Answer(q, j, cmd).poked
<1>1. Answer(q, j, cmd) \in Memory
  BY AnswerKeeps, KeepsMemory
<1>2. \E r : Answer(q, j, cmd) = Poke(r)
  BY DEF Answer, Suspended, Killed, SetDead
<1> QED BY <1>1, <1>2, Poked

\* prepareJobDone pokes the scheduler, or no slot is free yet.
LEMMA PrepareFinishedPokes ==
  ASSUME NEW q \in Memory
  PROVE  LET r == PrepareFinished(q)
         IN r.poked \/ r.numPrepares >= MaxConcurrentPreps
<1> DEFINE n == Minus(q.numPrepares, 1)
           a == [q EXCEPT !.numPrepares = n]
           r == PrepareFinished(q)
<1>1. n \in Nat /\ r \in Memory /\ r.numPrepares = n
  BY MinusType, PrepareFinishedType DEF Memory
<1>2. r = IF n < MaxConcurrentPreps THEN Poke(a) ELSE a
  BY DEF PrepareFinished
<1> HIDE DEF n, a, r
<1>3. CASE n < MaxConcurrentPreps
  BY <1>1, <1>2, <1>3, Poked DEF r
<1>4. CASE ~(n < MaxConcurrentPreps)
  BY <1>1, <1>4, Constants DEF r
<1> QED BY <1>3, <1>4

-----------------------------------------------------------------------------
(* What a step has to keep *)

\* A want that was there before, unless the scheduler is poked.
LEMMA WantingBefore ==
  ASSUME Calmer(faxq, faxq'), Unpoked', NEW j \in Jobs, Wanting(j)'
  PROVE  Unpoked /\ Wanting(j)
<1>1. Unpoked
  BY DEF Calmer, Unpoked
<1>2. faxq.job[j].on = "runq" /\ faxq.job[j].tries < MaxTries
  BY DEF Calmer, Unpoked, Wanting
<1>3. PICK m \in Candidates(j) : faxq'.modem[m].state = "ready"
  BY DEF Wanting, ReadyFor, Candidates
<1>4. faxq.modem[m].state = "ready"
  BY <1>3, CandidatesType DEF Calmer, Unpoked
<1> QED BY <1>1, <1>2, <1>3, <1>4 DEF Wanting, ReadyFor

\* The scheduler is poked.
LEMMA PokedStep == ASSUME faxq'.poked, pc' # "batch" PROVE Scheduled'
BY DEF Scheduled, Unpoked

\* prepareJobDone ends.
LEMMA SlotStep ==
  ASSUME pc' = "idle", faxq'.poked \/ faxq'.numPrepares >= MaxConcurrentPreps
  PROVE  Scheduled'
BY DEF Scheduled, Unpoked, InScan

\* Between two handlers nothing is asked that the scheduler did not refuse.
LEMMA IdleStep ==
  ASSUME Scheduled, pc = "idle", pc' = "idle", Calmer(faxq, faxq'),
         faxq'.numPrepares = faxq.numPrepares,
         \A j \in Jobs : MustBlock(j) => MustBlock(j)'
  PROVE  Scheduled'
<1> SUFFICES ASSUME Unpoked', NEW j \in Jobs, Wanting(j)'
             PROVE  faxq.numPrepares >= MaxConcurrentPreps \/ MustBlock(j)
  BY DEF Scheduled, InScan
<1> QED BY WantingBefore DEF Scheduled

\* The pass goes on: it has not yet visited those that want a modem.
LEMMA ScanStep ==
  ASSUME Scheduled, InScan, pc' \in {"scan", "process"}, Calmer(faxq, faxq'),
         \A j \in Jobs : j \in todo /\ Unpoked' /\ Wanting(j)' => j \in todo'
  PROVE  Scheduled'
<1> SUFFICES ASSUME Unpoked', NEW j \in Jobs, Wanting(j)'
             PROVE  j \in todo'
  BY DEF Scheduled
<1> QED BY WantingBefore DEF Scheduled

\* The handler of a child's exit goes on with the batch.
LEMMA ElsewhereStep ==
  ASSUME \/ pc' = "finish"
         \/ pc' = "process" /\ caller' = "prepareJobDone"
  PROVE  Scheduled'
BY DEF Scheduled, InScan

\* Nothing a handler does to jobs and modems alone concerns the calls.
LEMMA SameCalls ==
  ASSUME faxq'.di = faxq.di, NEW j \in Jobs, MustBlock(j)
  PROVE  MustBlock(j)'
BY DEF MustBlock

-----------------------------------------------------------------------------
(* The handlers, between two passes *)

\* submitJob.
LEMMA SubmitSchedules == ASSUME IInv, NEW j \in Jobs, Submit(j) PROVE Scheduled'
<1>1. faxq' \in Memory
  BY SubmitKeeps, KeepsMemory
<1>2. \E r : faxq' = Poke(r)
  BY DEF Submit, SetDead
<1>3. pc' = "idle"
  BY DEF Submit, Input, Idle, Handled, loop
<1> QED BY <1>1, <1>2, <1>3, Poked, PokedStep

\* runJob.
LEMMA TtsTimerSchedules == ASSUME IInv, NEW j \in Jobs, TtsTimer(j) PROVE Scheduled'
<1>1. faxq' \in Memory
  BY TtsTimerKeeps, KeepsMemory
<1>2. \E r : faxq' = Poke(r)
  BY DEF TtsTimer
<1>3. pc' = "idle"
  BY DEF TtsTimer, Input, Idle, Handled, loop
<1> QED BY <1>1, <1>2, <1>3, Poked, PokedStep

\* timeoutJob: an active job is marked, any other is dead.
LEMMA KillTimerSchedules ==
  ASSUME IInv, Scheduled, NEW j \in Jobs, KillTimer(j)
  PROVE  Scheduled'
<1> DEFINE a == [faxq EXCEPT !.job[j].kill = FALSE]
           b == [a EXCEPT !.job[j].expired = TRUE]
<1>1. faxq' \in Memory
  BY KillTimerKeeps, KeepsMemory
<1>2. faxq' = b \/ \E r : faxq' = Poke(r)
  BY DEF KillTimer, SetDead
<1>3. pc = "idle" /\ pc' = "idle"
  BY DEF KillTimer, Input, Idle, Handled, loop
<1>4. ASSUME faxq' = b
      PROVE  Scheduled'
  <2>1. Calmer(faxq, a) /\ a \in Memory /\ a.di = faxq.di /\ a.numPrepares = faxq.numPrepares
    BY MemoryType, FieldsCalmer, SetKill, KeepsMemory DEF Memory
  <2> HIDE DEF a
  <2>2. Calmer(a, b) /\ b.di = a.di /\ b.numPrepares = a.numPrepares
    BY <2>1, FieldsCalmer DEF Memory
  <2> HIDE DEF b
  <2> QED BY <1>3, <1>4, <2>1, <2>2, CalmerChain, IdleStep, SameCalls
<1> QED BY <1>1, <1>2, <1>3, <1>4, Poked, PokedStep

\* suspendJob and terminateJob, for a job that is not active.
LEMMA CommandSchedules ==
  ASSUME IInv, NEW j \in Jobs, NEW cmd \in Commands, Command(j, cmd)
  PROVE  Scheduled'
<1>1. faxq' \in Memory
  BY CommandKeeps, KeepsMemory
<1>2. \E r : faxq' = Poke(r)
  <2>1. \A q : \E r : Killed(q, j) = Poke(r)
    BY DEF Killed, SetDead
  <2>2. \A q : \E r : Suspended(q, j) = Poke(r)
    BY DEF Suspended
  <2>3. \A q : \E r : Answer(q, j, cmd) = Poke(r)
    BY <2>1, <2>2 DEF Answer
  <2> QED  BY <2>3 DEF Command
<1>3. pc' = "idle"
  BY DEF Command, Commanded, Input, Idle, loop
<1> QED BY <1>1, <1>2, <1>3, Poked, PokedStep

\* For an active job, which is only marked.
LEMMA CommandActiveSchedules ==
  ASSUME IInv, Scheduled, NEW j \in Jobs, NEW cmd \in Commands, CommandActive(j, cmd)
  PROVE  Scheduled'
<1> DEFINE a == [faxq EXCEPT !.job[j].suspendPending = TRUE]
           b == [a EXCEPT !.job[j].kill = FALSE]
<1>1. faxq' = b \/ faxq' = Fail(b, "selfkill")
  BY DEF CommandActive
<1>2. pc = "idle" /\ pc' = "idle"
  BY DEF CommandActive, Commanded, Input, Idle, loop
<1>3. Calmer(faxq, a) /\ a \in Memory /\ a.di = faxq.di /\ a.numPrepares = faxq.numPrepares
  BY MemoryType, FieldsCalmer, SetSuspendPending, KeepsMemory DEF Memory
<1> HIDE DEF a
<1>4. Calmer(a, b) /\ b \in Memory /\ b.di = a.di /\ b.numPrepares = a.numPrepares
  BY <1>3, FieldsCalmer, SetKill, KeepsMemory DEF Memory
<1> HIDE DEF b
<1>5. Calmer(b, faxq') /\ faxq'.di = b.di /\ faxq'.numPrepares = b.numPrepares
  BY <1>1, <1>4, FailCalmer, CalmerSelf DEF Fail, Memory
<1> QED BY <1>2, <1>3, <1>4, <1>5, CalmerChain, IdleStep, SameCalls

\* suspendJob, after its wait.
LEMMA ResumeSchedules == ASSUME IInv, Scheduled, Resume PROVE Scheduled'
<1> DEFINE j == Top.job
<1>1. j \in Jobs /\ pc = "idle" /\ pc' = "idle"
  BY FramesType DEF Resume, Idle, loop
<1>2. faxq' = faxq \/ faxq' = Fail(faxq, "dangling") \/ faxq' = Answer(faxq, j, Top.cmd)
  BY DEF Resume
<1> HIDE DEF j
<1>3. ASSUME faxq' = faxq \/ faxq' = Fail(faxq, "dangling")
      PROVE  Scheduled'
  <2>1. Calmer(faxq, faxq') /\ faxq'.di = faxq.di /\ faxq'.numPrepares = faxq.numPrepares
    BY <1>3, MemoryType, FailCalmer, CalmerSelf DEF Fail, Memory
  <2> QED BY <1>1, <2>1, IdleStep, SameCalls
<1> QED BY <1>1, <1>2, <1>3, MemoryType, AnswerPokes, PokedStep

\* The quit message, and the end of the process.
LEMMA QuitSchedules == ASSUME IInv, Quit \/ Close PROVE Scheduled'
<1>1. pc' = "idle"
  BY DEF Quit, Close, Input, Idle, Handled, loop
<1>2. ~Unpoked'
  BY MemoryType DEF Quit, Close, Poke, Unpoked, Memory
<1> QED BY <1>1, <1>2 DEF Scheduled

\* The messages of faxgetty: a modem that becomes ready is announced.
LEMMA ModemMessageSchedules ==
  ASSUME IInv, Scheduled, NEW m \in Modems, NEW msg \in ModemMessages, ModemMessage(m, msg)
  PROVE  Scheduled'
<1> DEFINE state == [R |-> "ready", B |-> "busy", D |-> "down", E |-> "exempt"]
           q == [faxq EXCEPT !.modem[m].state = state[msg], !.modem[m].poll = FALSE]
<1>1. faxq' = IF msg \in {"R", "E"} THEN Poke(q) ELSE q
  BY DEF ModemMessage
<1>2. pc = "idle" /\ pc' = "idle" /\ faxq' \in Memory
  BY ModemMessageKeeps, KeepsMemory DEF ModemMessage, Input, Idle, Handled, loop
<1>3. ASSUME msg \notin {"R", "E"}
      PROVE  Scheduled'
  <2>1. state[msg] # "ready"
    BY <1>3, Constants
  <2>2. faxq' = q
    BY <1>1, <1>3
  <2> HIDE DEF state
  <2>3. Calmer(faxq, q) /\ q.di = faxq.di /\ q.numPrepares = faxq.numPrepares
    BY <2>1, MemoryType DEF Calmer, Memory, ModemRecord
  <2> QED BY <1>2, <2>2, <2>3, IdleStep, SameCalls
<1> HIDE DEF q
<1> QED BY <1>1, <1>2, <1>3, Poked, PokedStep

\* A lock is polled: one that is free again is announced.
LEMMA LockPollSchedules ==
  ASSUME IInv, Scheduled, NEW m \in Modems, LockPoll(m)
  PROVE  Scheduled'
<1>1. pc = "idle" /\ pc' = "idle"
  BY DEF LockPoll, Input, Idle, Handled, loop
<1>2. faxq'.poked \/ faxq' = faxq
  BY MemoryType DEF LockPoll, Poke, Memory
<1>3. ASSUME faxq' = faxq
      PROVE  Scheduled'
  BY <1>1, <1>3, MemoryType, CalmerSelf, IdleStep, SameCalls
<1> QED BY <1>1, <1>2, <1>3, PokedStep

\* Another program takes or gives back a lock: a ready modem stays ready.
LEMMA OtherLockSchedules ==
  ASSUME IInv, Scheduled, NEW m \in Modems, OtherLock(m)
  PROVE  Scheduled'
<1> DEFINE v == IF faxq.modem[m].lock = "free" THEN "other" ELSE "free"
<1>1. faxq' = [faxq EXCEPT !.modem[m].lock = v] /\ pc = "idle" /\ pc' = "idle"
  BY DEF OtherLock, Idle, loop
<1> HIDE DEF v
<1>2. Calmer(faxq, faxq') /\ faxq'.di = faxq.di /\ faxq'.numPrepares = faxq.numPrepares
  BY <1>1, MemoryType, ModemCalmer DEF Memory
<1> QED BY <1>1, <1>2, IdleStep, SameCalls

\* A call is connected: without a limit on the calls a job can be tried again,
\* and the scheduler is told; with one the count stands.
LEMMA CallConnectedSchedules ==
  ASSUME IInv, Scheduled, NEW j \in Jobs, CallConnected(j)
  PROVE  Scheduled'
<1> DEFINE d == DestOf[j]
           a == Connected(faxq, d)
           q == [a EXCEPT !.job[j].child = "connected"]
<1>1. /\ pc = "idle" /\ pc' = "idle" /\ faxq' \in Memory
      /\ (MaxConcurrentCalls # 0 /\ faxq' = q) \/ (\E r : faxq' = Poke(r))
  BY CallConnectedKeeps, KeepsMemory DEF CallConnected, Input, Idle, Handled, loop
<1>2. d \in Dests
  BY DestOfType
<1> HIDE DEF d
<1>3. ASSUME MaxConcurrentCalls # 0, faxq' = q
      PROVE  Scheduled'
  <2>1. a \in Memory /\ Calmer(faxq, a) /\ a.numPrepares = faxq.numPrepares
    BY <1>2, MemoryType, ConnectedKeeps, KeepsMemory DEF Connected, Calmer, Memory
  <2>2. \A e \in Dests : a.di[e].calls = faxq.di[e].calls
    BY <1>2, MemoryType DEF Connected, Memory, DestRecord
  <2> HIDE DEF a
  <2>3. Calmer(a, q) /\ q.di = a.di /\ q.numPrepares = a.numPrepares
    BY <2>1, FieldsCalmer DEF Memory
  <2> HIDE DEF q
  <2>4. \A k \in Jobs : MustBlock(k) => MustBlock(k)'
    BY <1>3, <2>2, <2>3, DestOfType DEF MustBlock
  <2> QED BY <1>1, <1>3, <2>1, <2>3, <2>4, CalmerChain, IdleStep
<1> QED BY <1>1, <1>3, Poked, PokedStep

-----------------------------------------------------------------------------
(* The pass of the scheduler *)

\* It begins with every job of the run queue.
LEMMA RunSchedulerSchedules == ASSUME IInv, RunScheduler PROVE Scheduled'
<1>1. PICK n : faxq' = [faxq EXCEPT !.poked = FALSE, !.numPrepares = n]
  BY DEF RunScheduler
<1>2. faxq'.job = faxq.job /\ faxq'.quit = faxq.quit
  BY <1>1, MemoryType DEF Memory
<1>3. pc' = "scan" /\ (~faxq.quit => todo' = OnQueue(faxq, "runq"))
  BY DEF RunScheduler
<1> QED BY <1>2, <1>3 DEF Scheduled, Unpoked, InScan, Wanting, OnQueue

\* A visit rejects the job.
LEMMA RejectSchedules ==
  ASSUME IInv, NEW j \in Jobs, Visiting(j), RejectJob(j)
  PROVE  Scheduled'
<1> DEFINE q == SetDead(Visited(j), j)
<1>1. q \in Memory /\ q.poked
  BY VisitedCalmer, SetDeadKeeps, SetDeadPokes, KeepsMemory
<1>2. faxq' = DeleteRequest(q, j)
  BY DEF RejectJob
<1> HIDE DEF q
<1>3. faxq'.poked
  BY <1>1, <1>2 DEF DeleteRequest, Memory
<1> QED BY <1>3, PokedStep DEF Visiting, RejectJob, OnToNext

\* A visit that leaves the other jobs to be visited.
LEMMA VisitStep ==
  ASSUME Scheduled, NEW j \in Jobs, Visiting(j), OnToNext(j),
         Calmer(faxq, faxq'), Unpoked' => ~Wanting(j)'
  PROVE  Scheduled'
BY ScanStep DEF Visiting, OnToNext, InScan

\* The job is blocked.
LEMMA VisitBlockedSchedules ==
  ASSUME IInv, Scheduled, NEW j \in Jobs, VisitBlocked(j)
  PROVE  Scheduled'
<1> DEFINE a == Visited(j)
           b == Unlist(a, j)
           c == Insert(b, j, "blocked")
           d == [c EXCEPT !.job[j].state = "blocked"]
<1>1. faxq' = [d EXCEPT !.di[DestOf[j]].blocked = @ + 1]
  BY DEF VisitBlocked
<1>2. Calmer(faxq, a) /\ a \in Memory
  BY VisitedCalmer
<1> HIDE DEF a
<1>3. Calmer(a, b) /\ b \in Memory
  BY <1>2, UnlistCalmer, UnlistKeeps, KeepsMemory
<1> HIDE DEF b
<1>4. Calmer(b, c) /\ c \in Memory
  BY <1>3, InsertCalmer, InsertKeeps, KeepsMemory, PlaceNames
<1>5. c.job[j].on = "blocked"
  <2>1. FxAssert(b, ~IsOnList(b, j)) \in Memory
    BY <1>3, FxAssertKeeps, KeepsMemory
  <2> QED BY <2>1 DEF Insert, Memory, JobRecord
<1> HIDE DEF c
<1>6. Calmer(c, d) /\ d \in Memory /\ d.job[j].on = "blocked"
  <2>1. Calmer(c, d) /\ d \in Memory
    BY <1>4, FieldsCalmer, SetState, KeepsMemory, PlaceNames
  <2>2. d.job[j].on = "blocked"
    BY <1>4, <1>5 DEF Memory, JobRecord
  <2> QED BY <2>1, <2>2
<1> HIDE DEF d
<1>7. Calmer(d, faxq') /\ faxq'.job[j].on = "blocked"
  BY <1>1, <1>6 DEF Calmer, Memory
<1>8. Calmer(faxq, faxq')
  BY <1>2, <1>3, <1>4, <1>6, <1>7, CalmerChain
<1> QED BY <1>7, <1>8, VisitStep DEF VisitBlocked, Eligible, Wanting

\* The job is put to sleep.
LEMMA VisitDelayedSchedules ==
  ASSUME IInv, Scheduled, NEW j \in Jobs, VisitDelayed(j)
  PROVE  Scheduled'
<1> DEFINE a == Visited(j)
           b == Unlist(a, j)
           c == SetSleep(b, j, "sleeping")
<1>1. faxq' = ReleaseIfHeld(c, j) /\ faxq' = DelayJob(b, j)
  BY DEF VisitDelayed, DelayJob
<1>2. Calmer(faxq, a) /\ a \in Memory
  BY VisitedCalmer
<1> HIDE DEF a
<1>3. Calmer(a, b) /\ b \in Memory
  BY <1>2, UnlistCalmer, UnlistKeeps, KeepsMemory
<1>4. c.job[j].on = "sleepq"
  <2>1. Insert(b, j, "sleepq") \in Memory /\ FxAssert(b, ~IsOnList(b, j)) \in Memory
    BY <1>3, InsertKeeps, FxAssertKeeps, KeepsMemory, PlaceNames
  <2>2. Insert(b, j, "sleepq").job[j].on = "sleepq"
    BY <2>1 DEF Insert, Memory, JobRecord
  <2> QED BY <2>1, <2>2 DEF SetSleep, Memory, JobRecord
<1>5. c \in Memory
  BY <1>3, SetSleepKeeps, KeepsMemory, PlaceNames
<1>6. Calmer(b, faxq')
  BY <1>1, <1>3, DelayJobCalmer
<1> HIDE DEF b, c
<1>7. Calmer(c, faxq')
  BY <1>1, <1>5, ReleaseCalmer
<1>8. Unpoked' => ~Wanting(j)'
  BY <1>4, <1>7 DEF Calmer, Unpoked, Wanting
<1>9. Calmer(faxq, faxq')
  BY <1>2, <1>3, <1>6, CalmerChain
<1> QED BY <1>8, <1>9, VisitStep DEF VisitDelayed, Eligible

\* No modem is to be had: those that were ready are locked, and polled now.
LEMMA VisitNoModemSchedules ==
  ASSUME IInv, Scheduled, NEW j \in Jobs, VisitNoModem(j)
  PROVE  Scheduled'
<1> DEFINE a == Visited(j)
<1>1. faxq' = Polling(a, Locked(j)) /\ ReadyFor(j) = Locked(j)
  BY DEF VisitNoModem
<1>2. Calmer(faxq, a) /\ a \in Memory
  BY VisitedCalmer
<1>3. a.modem = faxq.modem
  BY MemoryType DEF Visited, FxAssert, ReadRequest, Fail, Memory
<1> HIDE DEF a
<1>4. ReadyFor(j)' = {}
  <2> SUFFICES ASSUME NEW m \in Candidates(j), faxq'.modem[m].state = "ready"
               PROVE  FALSE
    BY DEF ReadyFor, Candidates
  <2>1. m \in Modems
    BY CandidatesType
  <2>2. CASE m \in Locked(j)
    BY <1>1, <1>2, <2>1, <2>2 DEF Polling, Memory, ModemRecord
  <2>3. CASE m \notin Locked(j)
    BY <1>1, <1>2, <1>3, <2>1, <2>3 DEF Polling, Memory, ReadyFor
  <2> QED BY <2>2, <2>3
<1>5. Calmer(faxq, faxq')
  BY <1>1, <1>2, PollingCalmer, CalmerChain
<1> QED BY <1>4, <1>5, VisitStep DEF VisitNoModem, Eligible, Wanting

\* The job has its modem and leaves the run queue.
LEMMA StartCallSchedules ==
  ASSUME MaxBatchJobs = 1, Scheduled, NEW j \in Jobs, Visiting(j),
         NEW q \in Memory, Calmer(faxq, q), NEW m \in Modems,
         NEW lock \in {"free", "faxq", "other"}, StartCall(Assigned(q, j, m, lock), j)
  PROVE  Scheduled'
<1> DEFINE a == Assigned(q, j, m, lock)
<1>1. faxq' = Call(a, DestOf[j]) /\ pc' = "process" /\ todo' = todo \ {j}
  BY Constants DEF StartCall
<1>2. a \in Memory /\ Calmer(q, a)
  BY AssignedKeeps, AssignedCalmer, KeepsMemory
<1>3. a.job[j].on # "runq"
  <2>1. Unlist(q, j).job[j].on # "runq"
    <3>1. CASE IsOnList(q, j)
      <4>1. FxAssert(q, IsOnList(q, j)) \in Memory
        BY FxAssertKeeps, KeepsMemory
      <4>2. Remove(q, j).job[j] =
              [q.job[j] EXCEPT !.on = "none", !.bprev = NoJob, !.bnext = NoJob]
        BY <4>1 DEF Remove, Memory
      <4> QED BY <3>1, <4>2, JobType DEF Unlist, JobRecord
    <3>2. CASE ~IsOnList(q, j)
      BY <3>2 DEF Unlist, IsOnList
    <3> QED BY <3>1, <3>2
  <2> DEFINE u == Unlist(q, j)
  <2>2. u \in Memory
    BY UnlistKeeps, KeepsMemory
  <2>3. a = [u EXCEPT !.modem[m].state = "busy", !.modem[m].lock = lock,
                      !.job[j].modem = m, !.job[j].qlock = TRUE, !.job[j].bnext = NoJob]
    BY DEF Assigned
  <2>4. u.job[j] \in JobRecord /\ u.job[j].on # "runq"
    BY <2>1, <2>2, JobType
  <2> HIDE DEF u, a
  <2>5. a.job[j] = [u.job[j] EXCEPT !.modem = m, !.qlock = TRUE, !.bnext = NoJob]
    BY <2>2, <2>3 DEF Memory
  <2> QED BY <2>4, <2>5 DEF JobRecord
<1> HIDE DEF a
<1>4. Calmer(a, faxq') /\ faxq'.job = a.job
  BY <1>1, <1>2 DEF Call, Calmer, Memory
<1>5. Calmer(faxq, faxq')
  BY <1>2, <1>4, CalmerChain
<1> QED BY <1>1, <1>3, <1>4, <1>5, ScanStep DEF Visiting, InScan, Wanting

\* A modem whose lock was free.
LEMMA VisitAssignSchedules ==
  ASSUME MaxBatchJobs = 1, IInv, Scheduled, NEW j \in Jobs, VisitAssign(j)
  PROVE  Scheduled'
<1>1. PICK m \in ReadyFor(j) \ Locked(j), T \in SUBSET Locked(j) :
             StartCall(Assigned(Polling(Visited(j), T), j, m, "faxq"), j)
  BY DEF VisitAssign
<1>2. m \in Modems
  BY <1>1, CandidatesType DEF ReadyFor
<1> DEFINE q == Polling(Visited(j), T)
<1>3. Calmer(faxq, q) /\ q \in Memory
  BY VisitedCalmer, PollingCalmer, PollingKeeps, KeepsMemory, CalmerChain
<1> HIDE DEF q
<1>4. StartCall(Assigned(q, j, m, "faxq"), j)
  BY <1>1 DEF q
<1>5. Visiting(j)
  BY DEF VisitAssign, Eligible
<1> QED BY <1>2, <1>3, <1>4, <1>5, StartCallSchedules

\* With ignoremodembusy, one whose lock is as it is.
LEMMA VisitAssignBusySchedules ==
  ASSUME MaxBatchJobs = 1, IInv, Scheduled, NEW j \in Jobs, VisitAssignBusy(j)
  PROVE  Scheduled'
<1> DEFINE m == ModemOf[j]
           lock == faxq.modem[m].lock
           q == Polling(Visited(j), Locked(j))
<1>1. StartCall(Assigned(q, j, m, lock), j) /\ Visiting(j)
  BY DEF VisitAssignBusy, Eligible
<1>2. m \in Modems
  BY Constants DEF VisitAssignBusy, Ignoring
<1>3. lock \in {"free", "faxq", "other"}
  BY <1>2, MemoryType DEF Memory, ModemRecord
<1>4. Calmer(faxq, q) /\ q \in Memory
  BY VisitedCalmer, PollingCalmer, PollingKeeps, KeepsMemory, CalmerChain
<1> HIDE DEF m, lock, q
<1> QED BY <1>1, <1>2, <1>3, <1>4, StartCallSchedules

\* The pass is over: no job that wants a modem is left to be visited, or no
\* slot is free.
LEMMA EndScanSchedules == ASSUME IInv, Scheduled, EndScan PROVE Scheduled'
<1> DEFINE f == [k \in Jobs |->
                   IF faxq.job[k].on = "deadq"
                   THEN [faxq.job[k] EXCEPT !.on = "absent", !.tts = FALSE, !.kill = FALSE]
                   ELSE faxq.job[k]]
<1>1. faxq' = [faxq EXCEPT !.job = f]
  BY DEF EndScan
<1>2. ASSUME NEW k \in Jobs, f[k].on = "runq"
      PROVE  faxq.job[k].on = "runq" /\ f[k].tries = faxq.job[k].tries
  BY <1>2, MemoryType, JobType DEF JobRecord
<1> HIDE DEF f
<1>3. Calmer(faxq, faxq')
  BY <1>1, <1>2, MemoryType, CalmerJobs
<1>4. faxq'.numPrepares = faxq.numPrepares
  BY <1>1, MemoryType DEF Memory
<1> SUFFICES ASSUME Unpoked', NEW j \in Jobs, Wanting(j)'
             PROVE  faxq.numPrepares >= MaxConcurrentPreps
  BY <1>4 DEF EndScan, Scheduled, InScan
<1>5. j \in todo
  BY <1>3, WantingBefore DEF Scheduled, EndScan, InScan
<1>6. j \notin OnQueue(faxq, "deadq")
  BY <1>3, WantingBefore DEF Wanting, OnQueue
<1> QED BY <1>5, <1>6 DEF EndScan

-----------------------------------------------------------------------------
(* processJob, and the exits of children *)

\* processJob returns to the pass, or ends prepareJobDone.
LEMMA ReturnSchedules ==
  ASSUME Scheduled, pc = "process", NEW q \in Memory, ReturnWith(q),
         caller = "scan" => Calmer(faxq, q)
  PROVE  Scheduled'
<1>1. CASE caller = "scan"
  BY <1>1, ScanStep DEF ReturnWith, InScan
<1>2. CASE caller = "prepareJobDone"
  BY <1>2, PrepareFinishedPokes, SlotStep DEF ReturnWith
<1> QED BY <1>1, <1>2 DEF ReturnWith

\* processJob goes on with the next job of the batch.
LEMMA OnToNextSchedules ==
  ASSUME Scheduled, IInv, pc = "process", NEW q, NEW first,
         OnToNextInBatch(q, first), Calmer(faxq, q)
  PROVE  Scheduled'
<1>1. CASE caller = "scan"
  BY <1>1, ScanStep DEF OnToNextInBatch, InScan
<1>2. CASE caller = "prepareJobDone"
  BY <1>2, ElsewhereStep DEF OnToNextInBatch
<1> QED BY <1>1, <1>2 DEF IInv, TypeOK

\* Nothing to prepare.
LEMMA ProcessReadySchedules == ASSUME IInv, Scheduled, ProcessReady PROVE Scheduled'
<1>1. cur \in Jobs
  BY DEF ProcessReady, IInv, TypeOK
<1>2. PICK q \in Entered : OnToNextInBatch(q, head)
  BY DEF ProcessReady
<1>3. Calmer(faxq, q)
  BY <1>1, <1>2, EnteredCalmer
<1> QED BY <1>2, <1>3, OnToNextSchedules DEF ProcessReady, Processing

\* The job cannot be sent: a dead job is announced.
LEMMA ProcessRejectSchedules == ASSUME IInv, Scheduled, ProcessReject PROVE Scheduled'
<1>1. cur \in Jobs
  BY DEF ProcessReject, IInv, TypeOK
<1>2. PICK q \in Entered : \E first :
        OnToNextInBatch(SetDead(DeleteRequest([q EXCEPT !.job[cur].state = "failed"], cur), cur),
                        first)
  BY DEF ProcessReject
<1> DEFINE a == [q EXCEPT !.job[cur].state = "failed"]
           b == DeleteRequest(a, cur)
<1>3. a \in Memory
  BY <1>1, <1>2, EnteredCalmer, SetState, KeepsMemory, PlaceNames
<1> HIDE DEF a
<1>4. b \in Memory
  BY <1>1, <1>3, DeleteRequestKeeps, KeepsMemory
<1> HIDE DEF b
<1>5. SetDead(b, cur).poked
  BY <1>1, <1>4, SetDeadPokes
<1>6. \E first : OnToNextInBatch(SetDead(b, cur), first)
  BY <1>2 DEF a, b
<1>7. faxq'.poked /\ pc' # "batch"
  BY <1>5, <1>6 DEF OnToNextInBatch, ProcessReject, Processing
<1> QED BY <1>7, PokedStep

\* A child prepares the job.
LEMMA ProcessPrepareSchedules == ASSUME IInv, Scheduled, ProcessPrepare PROVE Scheduled'
<1>1. cur \in Jobs
  BY DEF ProcessPrepare, IInv, TypeOK
<1>2. PICK e \in Entered : ReturnWith([e EXCEPT
        !.numPrepares = @ + 1, !.job[cur].child = "prepare",
        !.job[cur].pid = "set", !.job[cur].qlock = FALSE])
  BY DEF ProcessPrepare
<1> DEFINE n == e.numPrepares + 1
           a == [e EXCEPT !.numPrepares = n]
           b == [a EXCEPT !.job[cur].child = "prepare"]
           c == [b EXCEPT !.job[cur].pid = "set"]
           q == [c EXCEPT !.job[cur].qlock = FALSE]
<1>3. ReturnWith(q)
  BY <1>2
<1>4. Calmer(faxq, e) /\ e \in Memory
  BY <1>1, <1>2, EnteredCalmer
<1>5. n \in Nat
  BY <1>4 DEF Memory
<1> HIDE DEF n
<1>6. Calmer(e, a) /\ a \in Memory
  BY <1>4, <1>5, CalmerRest DEF Memory
<1> HIDE DEF a
<1>7. Calmer(a, b) /\ b \in Memory
  <2>1. b \in Memory
    BY <1>1, <1>6 DEF Memory, JobRecord
  <2> QED BY <1>1, <1>6, <2>1, FieldsCalmer
<1> HIDE DEF b
<1>8. Calmer(b, c) /\ c \in Memory
  BY <1>1, <1>7, FieldsCalmer, SetPid, KeepsMemory
<1> HIDE DEF c
<1>9. Calmer(c, q) /\ q \in Memory
  BY <1>1, <1>8, FieldsCalmer, SetQlock, KeepsMemory
<1> HIDE DEF q
<1>10. Calmer(faxq, q)
  BY <1>4, <1>6, <1>7, <1>8, <1>9, CalmerChain
<1> QED BY <1>3, <1>9, <1>10, ReturnSchedules DEF ProcessPrepare, Processing

\* No child could be forked.
LEMMA ProcessForkFailsSchedules == ASSUME IInv, Scheduled, ProcessForkFails PROVE Scheduled'
<1>1. cur \in Jobs
  BY DEF ProcessForkFails, IInv, TypeOK
<1>2. PICK q \in Entered :
        OnToNextInBatch([DelayJob(Unlist(q, cur), cur) EXCEPT
                           !.job[cur].qlock = FALSE, !.numPrepares = @ + 1],
                        faxq.job[cur].bnext)
  BY DEF ProcessForkFails
<1> DEFINE a == Unlist(q, cur)
           b == DelayJob(a, cur)
           c == [b EXCEPT !.job[cur].qlock = FALSE]
           n == c.numPrepares + 1
           e == [c EXCEPT !.numPrepares = n]
<1>3. OnToNextInBatch(e, faxq.job[cur].bnext)
  BY <1>2
<1>4. Calmer(faxq, q) /\ q \in Memory
  BY <1>1, <1>2, EnteredCalmer
<1>5. Calmer(q, a) /\ a \in Memory
  BY <1>1, <1>4, UnlistCalmer, UnlistKeeps, KeepsMemory
<1> HIDE DEF a
<1>6. Calmer(a, b) /\ b \in Memory
  BY <1>1, <1>5, DelayJobCalmer, DelayJobKeeps, KeepsMemory
<1> HIDE DEF b
<1>7. Calmer(b, c) /\ c \in Memory
  BY <1>1, <1>6, FieldsCalmer, SetQlock, KeepsMemory
<1> HIDE DEF c, n
<1>8. Calmer(c, e)
  BY <1>7, CalmerRest
<1> HIDE DEF e
<1>9. Calmer(faxq, e)
  BY <1>4, <1>5, <1>6, <1>7, <1>8, CalmerChain
<1> QED BY <1>3, <1>9, OnToNextSchedules DEF ProcessForkFails, Processing

\* The batch is sent.
LEMMA SendJobStartSchedules == ASSUME IInv, Scheduled, SendJobStart PROVE Scheduled'
<1> DEFINE B == Batch(faxq, head)
           ok == faxq.job[head].qlock /\ faxq.job[head].modem # NoModem
           a == FxAssert(faxq, ok)
           f == [k \in Jobs |->
                   IF k \in B THEN [faxq.job[k] EXCEPT !.pid = "set", !.qlock = FALSE,
                                      !.child = IF k = head THEN "send" ELSE @]
                   ELSE faxq.job[k]]
           q == [a EXCEPT !.job = f]
<1>1. q = Starts(faxq, B, head, ok)
  BY DEF Starts
<1>2. ReturnWith(q)
  BY DEF SendJobStart
<1>3. q \in Memory
  BY <1>1, MemoryType, StartsKeeps, KeepsMemory
<1>4. ASSUME NEW k \in Jobs, f[k].on = "runq"
      PROVE  faxq.job[k].on = "runq" /\ f[k].tries = faxq.job[k].tries
  BY <1>4, MemoryType, JobType DEF JobRecord
<1>5. Calmer(faxq, a) /\ a \in Memory /\ a.job = faxq.job
  BY MemoryType, FxAssertCalmer, FxAssertKeeps, KeepsMemory DEF FxAssert, Fail, Memory
<1> HIDE DEF f, a
<1>6. Calmer(a, q)
  BY <1>4, <1>5, CalmerJobs
<1> HIDE DEF q
<1>7. Calmer(faxq, q)
  BY <1>5, <1>6, CalmerChain
<1> QED BY <1>2, <1>3, <1>7, ReturnSchedules DEF SendJobStart, Processing

\* No child could be forked to send it: the modem is given back, with a poke.
LEMMA SendForkFailsSchedules == ASSUME IInv, Scheduled, SendForkFails PROVE Scheduled'
<1> DEFINE B == Batch(faxq, head)
           M == {faxq.job[k].modem : k \in B}
           ok == \A k \in B : IsOnList(faxq, k)
           a == FxAssert(Poke(faxq), ok)
           q == SendFails(faxq, B, M, ok)
<1>1. ReturnWith(q)
  BY DEF SendForkFails, SendFails
<1>2. q \in Memory
  BY MemoryType, SendFailsKeeps, KeepsMemory
<1>3. a \in Memory /\ a.poked
  <2>1. Poke(faxq) \in Memory /\ Poke(faxq).poked
    BY MemoryType, PokeCalmer, PokeKeeps, KeepsMemory
  <2>2. a \in Memory
    BY <2>1, FxAssertKeeps, KeepsMemory
  <2> QED BY <2>1, <2>2 DEF FxAssert, Fail, Memory
<1> HIDE DEF B, M, ok
<1>4. q.poked
  BY <1>3 DEF SendFails, Memory
<1> HIDE DEF q
<1>5. Calmer(faxq, q)
  BY <1>4 DEF Calmer
<1> QED BY <1>1, <1>2, <1>5, ReturnSchedules DEF SendForkFails, Processing

\* No job of the batch is left.
LEMMA ProcessNothingSchedules == ASSUME IInv, Scheduled, ProcessNothing PROVE Scheduled'
<1>1. PICK q \in IF dest = NoDest THEN {faxq, Fail(faxq, "dangling")}
                 ELSE {Hangup(faxq, dest)} : ReturnWith(q)
  BY DEF ProcessNothing
<1>2. q \in Memory /\ Calmer(faxq, q)
  <2>1. CASE dest = NoDest
    BY <1>1, <2>1, MemoryType, CalmerSelf, FailCalmer, FailKeeps, KeepsMemory DEF Faults
  <2>2. CASE dest # NoDest
    <3>1. q = Hangup(faxq, dest) /\ dest \in Dests
      BY <1>1, <2>2 DEF IInv, TypeOK
    <3> QED BY <3>1, MemoryType, HangupKeeps, KeepsMemory DEF Hangup, Calmer, Memory
  <2> QED BY <2>1, <2>2
<1> QED BY <1>1, <1>2, ReturnSchedules DEF ProcessNothing, Processing

\* prepareJobDone, for a job that is waited for.
LEMMA PrepareInterruptedSchedules ==
  ASSUME IInv, NEW j \in Jobs, PrepareInterrupted(j)
  PROVE  Scheduled'
<1>1. PICK q : Ended(q, j) /\ faxq' = PrepareFinished(q)
  BY PrepareInterruptedEnds
<1>2. pc' = "idle"
  BY DEF PrepareInterrupted, Prepared, Idle, loop
<1> QED BY <1>1, <1>2, EndedMemory, PrepareFinishedPokes, SlotStep

\* For a job that can be sent.
LEMMA PrepareDoneSchedules == ASSUME IInv, NEW j \in Jobs, PrepareDone(j) PROVE Scheduled'
BY ElsewhereStep DEF PrepareDone, GoOn

\* For one that cannot.
LEMMA PrepareFailedSchedules ==
  ASSUME IInv, NEW j \in Jobs, PrepareFailed(j)
  PROVE  Scheduled'
<1>1. PICK q : /\ Ended(q, j)
               /\ GoneOn(q) \/ (faxq' = PrepareFinished(q) /\ UNCHANGED loop)
  BY PrepareFailedEnds
<1>2. pc = "idle" /\ q \in Memory
  BY <1>1, EndedMemory DEF PrepareFailed, Prepared, Idle
<1>3. CASE GoneOn(q)
  BY <1>3, ElsewhereStep DEF GoneOn, GoOn
<1>4. CASE faxq' = PrepareFinished(q) /\ UNCHANGED loop
  BY <1>2, <1>4, PrepareFinishedPokes, SlotStep DEF loop
<1> QED BY <1>1, <1>3, <1>4

\* sendJobDone, which announces the modem and the jobs when it ends.
LEMMA FinishJobSchedules == ASSUME IInv, FinishJob PROVE Scheduled'
<1>1. faxq' \in Memory
  BY FinishJobKeeps, KeepsMemory
<1>2. pc' = "finish" \/ (pc' = "idle" /\ \E r : faxq' = Poke(r))
  BY DEF FinishJob
<1> QED BY <1>1, <1>2, Poked, PokedStep, ElsewhereStep

-----------------------------------------------------------------------------
(* The inductive step *)

\* faxq starts with a poke.
LEMMA SchedulesAtFirst == Init => Scheduled
BY DEF Init, Scheduled, Unpoked

\* Every step keeps the invariant.
LEMMA SchedulesOn ==
  ASSUME MaxBatchJobs = 1
  PROVE  IInv /\ Scheduled /\ [Next]_vars => Scheduled'
<1> SUFFICES ASSUME IInv, Scheduled, [Next]_vars PROVE Scheduled'
  OBVIOUS
<1>1. CASE UNCHANGED vars
  BY <1>1 DEF vars, loop, Scheduled, Unpoked, InScan, Wanting, ReadyFor,
     Candidates, MustBlock
<1>2. ASSUME EndBatch \/ \E j \in Jobs : AddToBatch(j)
      PROVE  Scheduled'
  BY <1>2 DEF EndBatch, AddToBatch, Scheduled
<1>3. ASSUME NEW j \in Jobs, VisitExhausted(j) \/ VisitExempt(j)
      PROVE  Scheduled'
  BY <1>3, RejectSchedules DEF VisitExhausted, VisitExempt, Eligible
<1>4. ASSUME NEW j \in Jobs, SendDone(j)
      PROVE  Scheduled'
  BY <1>4, ElsewhereStep DEF SendDone
<1>7. ASSUME NEW j \in Jobs, VisitBatched(j)
      PROVE  Scheduled'
  BY <1>7, MemoryType DEF VisitBatched, Poke, Memory, Scheduled, Unpoked
<1>5. ASSUME Work
      PROVE  Scheduled'
  BY <1>2, <1>3, <1>4, <1>5, <1>7, RunSchedulerSchedules, QuitSchedules,
     EndScanSchedules, ResumeSchedules, ProcessReadySchedules,
     ProcessRejectSchedules, ProcessPrepareSchedules, ProcessForkFailsSchedules,
     SendJobStartSchedules, SendForkFailsSchedules, ProcessNothingSchedules,
     FinishJobSchedules, TtsTimerSchedules, VisitBlockedSchedules,
     VisitDelayedSchedules, VisitNoModemSchedules, VisitAssignSchedules,
     VisitAssignBusySchedules, PrepareInterruptedSchedules,
     PrepareDoneSchedules, PrepareFailedSchedules, LockPollSchedules DEF Work
<1>6. ASSUME Environment
      PROVE  Scheduled'
  BY <1>6, QuitSchedules, SubmitSchedules, KillTimerSchedules,
     CallConnectedSchedules, CommandSchedules, CommandActiveSchedules,
     OtherLockSchedules, ModemMessageSchedules DEF Environment
<1> QED BY <1>1, <1>5, <1>6 DEF Next

\* No wakeup of the scheduler is lost, for any number of jobs, modems and
\* destinations and any limit on calls and preparations, when one call sends
\* one job: whenever a job could be given a modem, the scheduler has been poked
\* (pokeScheduler, runScheduler).
THEOREM RunnablesAreScheduled ==
  ASSUME MaxBatchJobs = 1
  PROVE  Spec => []RunnableIsScheduled
<1> DEFINE I == IInv /\ Scheduled
<1>1. Init => I
  BY Initially, SchedulesAtFirst
<1>2. I /\ [Next]_vars => I'
  BY Inductive, SchedulesOn
<1>3. I => RunnableIsScheduled
  BY ScheduledMeans
<1> HIDE DEF I
<1> QED BY <1>1, <1>2, <1>3, PTL DEF Spec

-----------------------------------------------------------------------------
(* The jobs that are blocked by the calls to their destination *)

\* What the claim is limited to: one job in a call, no job suspended or killed
\* by a client or by its kill time, no fork that fails, no job rejected when it
\* is prepared or for an exempt modem.  Each of these can take away the call
\* that the blocked jobs wait for, without releasing them.
Placid ==
  /\ MaxBatchJobs = 1 /\ Commands \subseteq {"Q"} /\ ~KillTimers /\ ~ForkMayFail
  /\ "reject" \notin PrepOutcomes /\ IgnoreModemBusy = {}

\* A job that is in a call, or will be visited by the scheduler and called.
Waker(r) == (r.on \in {"runq", "sleepq"} /\ r.tries < MaxTries) \/ r.modem # NoModem

HasWaker(q, d) == \E w \in Jobs : DestOf[w] = d /\ Waker(q.job[w])

\* Each blocked job has tries left, so that it will wake others in its turn,
\* and another job to its destination is in a call, or will be.
Served ==
  \A j \in Jobs : faxq.job[j].on = "blocked" =>
    faxq.job[j].tries < MaxTries /\ HasWaker(faxq, DestOf[j])

\* A job that is woken stays a waker and keeps its tries.
LEMMA WokenWakes ==
  ASSUME NEW r \in JobRecord, NEW t, Woken(r, t)
  PROVE  /\ t.tries = r.tries /\ (Waker(r) => Waker(t))
         /\ t.on = "blocked" => t = r
         /\ r.on = "blocked" => t.on \in {"blocked", "runq", "sleepq"}
<1>1. CASE t = r
  BY <1>1
<1>2. CASE t = Readied(r)
  <2>1. t.on = "runq" /\ t.modem = r.modem /\ t.tries = r.tries
    BY <1>2 DEF Readied, JobRecord
  <2> QED BY <2>1, <1>1 DEF Woken, Waker
<1>3. CASE t = Asleep(r, "sleeping")
  <2>1. t.on = "sleepq" /\ t.modem = r.modem /\ t.tries = r.tries
    BY <1>3 DEF Asleep, JobRecord
  <2> QED BY <2>1, <1>1 DEF Woken, Waker
<1> QED BY <1>1, <1>2, <1>3 DEF Woken

\* A step about one job, and those it wakes: if that job was a waker, or is
\* blocked by the step, then there is a waker after it or no job to be woken.
LEMMA ServedAfter ==
  ASSUME IInv, Served, NEW j \in Jobs, Spared(j),
         faxq'.job[j].on = "blocked" => faxq'.job[j].tries < MaxTries,
         Waker(faxq.job[j]) \/ faxq'.job[j].on = "blocked" =>
           \/ HasWaker(faxq', DestOf[j])
           \/ \A k \in Jobs : DestOf[k] = DestOf[j] => faxq'.job[k].on # "blocked"
  PROVE  Served'
<1> SUFFICES ASSUME NEW k \in Jobs, faxq'.job[k].on = "blocked"
             PROVE  faxq'.job[k].tries < MaxTries /\ HasWaker(faxq', DestOf[k])
  BY DEF Served
<1>1. \A i \in Jobs : faxq.job[i] \in JobRecord
  BY MemoryType, RecordType
<1>2. CASE k = j
  BY <1>2
<1>3. CASE k # j
  <2>1. faxq'.job[k] = faxq.job[k]
    BY <1>1, <1>3, WokenWakes DEF Spared
  <2>2. faxq.job[k].tries < MaxTries
    BY <2>1 DEF Served
  <2>3. PICK w \in Jobs : DestOf[w] = DestOf[k] /\ Waker(faxq.job[w])
    BY <2>1 DEF Served, HasWaker
  <2>4. ASSUME w = j PROVE HasWaker(faxq', DestOf[k])
    BY <2>3, <2>4
  <2>5. ASSUME w # j PROVE HasWaker(faxq', DestOf[k])
    <3>1. Waker(faxq'.job[w])
      BY <1>1, <2>3, <2>5, WokenWakes DEF Spared
    <3> QED BY <2>3, <3>1 DEF HasWaker
  <2> QED BY <2>1, <2>2, <2>4, <2>5
<1> QED BY <1>2, <1>3

\* The job is in a call after the step.
LEMMA ServedHeld ==
  ASSUME IInv, Served, NEW j \in Jobs, Spared(j), Held(j)
  PROVE  Served'
<1>1. HasWaker(faxq', DestOf[j])
  BY DEF Held, HasWaker, Waker
<1> QED BY <1>1, ServedAfter DEF Held

\* The job was no waker, and it is not blocked.
LEMMA ServedAnyway ==
  ASSUME IInv, Served, NEW j \in Jobs, Spared(j), ~Waker(faxq.job[j]),
         faxq'.job[j].on # "blocked"
  PROVE  Served'
BY ServedAfter

\* The jobs blocked on the destination of the job were relieved.
LEMMA ServedRelieved ==
  ASSUME IInv, Served, NEW j \in Jobs, Spared(j), faxq.job[j].on # "blocked",
         faxq'.job[j].on # "blocked", Relieved(DestOf[j])
  PROVE  Served'
<1>1. ASSUME NEW k \in Jobs, DestOf[k] = DestOf[j], faxq'.job[k].on = "blocked"
      PROVE  HasWaker(faxq', DestOf[j])
  <2>1. PICK w \in Jobs : /\ DestOf[w] = DestOf[j] /\ faxq.job[w].on = "blocked"
                          /\ faxq'.job[w].on = "runq"
    BY <1>1 DEF Relieved
  <2>2. w # j /\ faxq.job[w] \in JobRecord
    BY <2>1, MemoryType, RecordType
  <2>3. faxq.job[w].tries < MaxTries
    BY <2>1 DEF Served
  <2>4. faxq'.job[w].tries = faxq.job[w].tries
    BY <2>2, WokenWakes DEF Spared
  <2> QED BY <2>1, <2>3, <2>4 DEF HasWaker, Waker
<1> QED BY <1>1, ServedAfter

\* No job moves, but the dead may be reaped.
LEMMA ServedSame ==
  ASSUME Served,
         \A k \in Jobs :
           /\ faxq'.job[k].tries = faxq.job[k].tries /\ faxq'.job[k].modem = faxq.job[k].modem
           /\ \/ faxq'.job[k].on = faxq.job[k].on
              \/ faxq.job[k].on = "deadq" /\ faxq'.job[k].on = "absent"
  PROVE  Served'
<1>1. \A k \in Jobs : Waker(faxq.job[k]) => Waker(faxq'.job[k])
  BY DEF Waker
<1>2. \A k \in Jobs : faxq'.job[k].on = "blocked" => faxq.job[k].on = "blocked"
  OBVIOUS
<1> QED BY <1>1, <1>2 DEF Served, HasWaker

\* Where a call is counted, a job is in a call.
LEMMA CalledHasModem ==
  ASSUME NEW q, NEW d, q.di[d].calls > 0, q.di[d].calls = Cardinality(Calling(q, d))
  PROVE  \E w \in Jobs : DestOf[w] = d /\ q.job[w].modem # NoModem
<1>1. IsFiniteSet(Calling(q, d)) /\ Cardinality(Calling(q, d)) \in Nat
  BY CallingType
<1>2. Calling(q, d) # {}
  <2>1. Cardinality(Calling(q, d)) # 0
    BY <1>1
  <2> QED BY <2>1, FS_EmptySet
<1>3. PICK w : w \in Calling(q, d)
  BY <1>2
<1>4. w \in Jobs /\ DestOf[w] = d /\ q.job[w].modem # NoModem
  BY <1>3 DEF Calling
<1> QED BY <1>4

\* A handler that moves no job.
LEMMA ServedElsewhere ==
  ASSUME IInv, Shape, Served,
         \/ RunScheduler \/ Close \/ Quit \/ EndScan
         \/ \E m \in Modems : \/ LockPoll(m) \/ OtherLock(m)
                              \/ \E msg \in ModemMessages : ModemMessage(m, msg)
         \/ UNCHANGED vars
  PROVE  Served'
<1>0. faxq \in Memory
  BY MemoryType
<1>1. CASE RunScheduler
  <2>1. faxq'.job = faxq.job
    BY <1>0, <1>1 DEF RunScheduler, Memory
  <2> QED BY <2>1, ServedSame
<1>2. CASE Close \/ Quit
  <2>1. faxq'.job = faxq.job
    BY <1>0, <1>2 DEF Close, Quit, Poke, Memory
  <2> QED BY <2>1, ServedSame
<1>3. CASE EndScan
  <2>1. ASSUME NEW k \in Jobs
        PROVE  /\ faxq'.job[k].tries = faxq.job[k].tries
               /\ faxq'.job[k].modem = faxq.job[k].modem
               /\ \/ faxq'.job[k].on = faxq.job[k].on
                  \/ faxq.job[k].on = "deadq" /\ faxq'.job[k].on = "absent"
    <3>1. faxq.job[k] \in JobRecord
      BY <1>0, RecordType
    <3>2. faxq'.job[k] = IF faxq.job[k].on = "deadq"
                         THEN [faxq.job[k] EXCEPT !.on = "absent", !.tts = FALSE, !.kill = FALSE]
                         ELSE faxq.job[k]
      BY <1>0, <1>3 DEF EndScan, Memory
    <3> QED BY <3>1, <3>2 DEF JobRecord
  <2> QED BY <2>1, ServedSame
<1>4. ASSUME NEW m \in Modems, LockPoll(m) \/ OtherLock(m) PROVE Served'
  <2>1. faxq'.job = faxq.job
    BY <1>0, <1>4 DEF LockPoll, OtherLock, Poke, Memory
  <2> QED BY <2>1, ServedSame
<1>5. ASSUME NEW m \in Modems, NEW msg \in ModemMessages, ModemMessage(m, msg) PROVE Served'
  <2>1. faxq'.job = faxq.job
    BY <1>0, <1>5 DEF ModemMessage, Poke, Memory
  <2> QED BY <2>1, ServedSame
<1>6. CASE UNCHANGED vars
  BY <1>6, ServedSame DEF vars
<1> QED BY <1>1, <1>2, <1>3, <1>4, <1>5, <1>6

\* The visits of the scheduler to a job.
LEMMA ServedVisit ==
  ASSUME IInv, Shape, Served, Placid, NEW j \in Jobs,
         \/ VisitExhausted(j) \/ VisitBlocked(j) \/ VisitDelayed(j) \/ VisitNoModem(j)
         \/ VisitExempt(j) \/ VisitAssign(j) \/ VisitAssignBusy(j) \/ VisitBatched(j)
         \/ AddToBatch(j)
  PROVE  Served'
<1>1. CASE VisitExhausted(j)
  <2>1. Visiting(j) /\ RejectJob(j) /\ faxq.job[j].tries >= MaxTries
    BY <1>1 DEF VisitExhausted
  <2>2. faxq.job[j].modem = NoModem /\ faxq.job[j].tries \in Nat /\ MaxTries \in Nat
    <3>1. faxq.job[j] \in JobRecord
      BY MemoryType, RecordType
    <3> QED BY <2>1, <3>1, VisitedIs, Constants DEF Resting, Free, JobRecord
  <2>3. ~Waker(faxq.job[j])
    BY <2>1, <2>2 DEF Waker
  <2>4. Spared(j) /\ faxq'.job[j].on # "blocked"
    BY <2>1, VisitExhaustedShape
  <2> QED BY <2>3, <2>4, ServedAnyway
<1>2. CASE VisitBlocked(j)
  <2>1. Visiting(j) /\ MustBlock(j) /\ faxq.job[j].tries < MaxTries
    BY <1>2 DEF VisitBlocked, Eligible
  <2>2. faxq.job[j].modem = NoModem /\ pc = "scan"
    BY <2>1, VisitedIs DEF Resting, Free
  <2>3. PICK d : d = DestOf[j] /\ d \in Dests
    BY DestOfType
  <2>4. faxq.di[d].calls = Cardinality(Calling(faxq, d))
    <3>1. Slack(d) = 0
      BY <2>2 DEF Slack
    <3>2. faxq.di[d].calls = Cardinality(Calling(faxq, d)) + Slack(d)
      BY <2>3 DEF Shape, CallCounts, Calm, Placid
    <3>3. Cardinality(Calling(faxq, d)) \in Nat
      BY CallingType
    <3> QED BY <3>1, <3>2, <3>3
  <2>5. faxq.di[d].calls > 0
    <3>1. faxq.di[d].calls \in Nat /\ (faxq.di[d].pending => faxq.di[d].calls > 0)
      BY <2>3, MemoryType, EntryType DEF Shape, CallCounts
    <3> QED BY <2>1, <2>3, <3>1, Constants DEF MustBlock
  <2>6. PICK w \in Jobs : DestOf[w] = d /\ faxq.job[w].modem # NoModem
    BY <2>4, <2>5, CalledHasModem
  <2>7. Spared(j) /\ faxq'.job[j].tries = faxq.job[j].tries
    BY <1>2, VisitBlockedShape
  <2>8. Waker(faxq'.job[w])
    <3>1. w # j /\ faxq.job[w] \in JobRecord /\ Waker(faxq.job[w])
      BY <2>2, <2>6, MemoryType, RecordType DEF Waker
    <3> QED BY <2>7, <3>1, WokenWakes DEF Spared
  <2>9. HasWaker(faxq', DestOf[j])
    BY <2>3, <2>6, <2>8 DEF HasWaker
  <2> QED BY <2>1, <2>7, <2>9, ServedAfter
<1>3. CASE VisitDelayed(j)
  <2>1. /\ Visiting(j) /\ faxq.job[j].tries < MaxTries /\ Spared(j)
        /\ faxq'.job[j].on = "sleepq" /\ faxq'.job[j].tries = faxq.job[j].tries
    BY <1>3, VisitDelayedShape DEF VisitDelayed, Eligible
  <2>2. HasWaker(faxq', DestOf[j])
    BY <2>1 DEF HasWaker, Waker
  <2> QED BY <2>1, <2>2, ServedAfter
<1>4. CASE VisitNoModem(j)
  <2>1. PICK r : r = faxq.job[j]
    OBVIOUS
  <2>2. Visited(j) = faxq /\ faxq \in Memory
    BY <1>4, <2>1, VisitedIs, MemoryType DEF VisitNoModem, Eligible
  <2>3. PICK T, q : T = Locked(j) /\ q = faxq'
    OBVIOUS
  <2>4. q = Polling(faxq, T)
    BY <1>4, <2>2, <2>3 DEF VisitNoModem
  <2>5. faxq'.job = faxq.job
    BY <2>2, <2>3, <2>4, PollingIs
  <2> QED BY <2>5, ServedSame
<1>5. CASE VisitExempt(j) \/ VisitAssignBusy(j)
  BY <1>5 DEF VisitExempt, VisitAssignBusy, Ignoring, Placid
<1>6. CASE VisitAssign(j)
  BY <1>6, VisitAssignShape, ServedHeld DEF Placid
<1>7. CASE AddToBatch(j)
  BY <1>7 DEF AddToBatch, Shape, Loops
<1>8. CASE VisitBatched(j)
  BY <1>8 DEF VisitBatched, Shape, Plain
<1> QED BY <1>1, <1>2, <1>3, <1>4, <1>5, <1>6, <1>7, <1>8

\* The steps of processJob, and of sendJobDone with each job.
LEMMA ServedProcess ==
  ASSUME IInv, Shape, Served, Placid,
         \/ EndBatch \/ Resume \/ ProcessReady \/ ProcessReject \/ ProcessPrepare
         \/ ProcessForkFails \/ SendJobStart \/ SendForkFails \/ ProcessNothing \/ FinishJob
  PROVE  Served'
<1>1. CASE EndBatch
  BY <1>1 DEF EndBatch, Shape, Loops
<1>2. CASE Resume
  BY <1>2 DEF Resume, Shape, Waits, Placid
<1>3. CASE ProcessReject \/ ProcessForkFails \/ SendForkFails
  BY <1>3 DEF ProcessReject, ProcessForkFails, SendForkFails, Placid
<1>4. CASE ProcessReady \/ ProcessPrepare \/ SendJobStart
  <2>1. head \in Jobs
    <3>1. pc = "process" /\ (cur # NoJob \/ head # NoJob)
      BY <1>4 DEF ProcessReady, ProcessPrepare, SendJobStart, Processing
    <3> QED BY <3>1 DEF Shape, Loops
  <2>2. Spared(head) /\ Held(head)
    BY <1>4, ProcessReadyShape, ProcessPrepareShape, SendJobStartShape
  <2> QED BY <2>1, <2>2, ServedHeld
<1>5. CASE ProcessNothing
  <2>1. faxq \in Memory /\ dest \in Dests
    BY <1>5, MemoryType DEF ProcessNothing, Processing, Shape, Loops, Placid
  <2>2. PICK q : q = Hangup(faxq, dest) /\ ReturnWith(q)
    BY <1>5, <2>1, Constants DEF ProcessNothing
  <2>3. q \in Memory /\ q.job = faxq.job
    <3>1. q \in Memory
      BY <2>1, <2>2, HangupKeeps, KeepsMemory
    <3> QED BY <2>1, <2>2, <3>1 DEF Hangup, Memory
  <2>4. faxq'.job = faxq.job
    BY <2>2, <2>3, ReturnWithIs DEF Alike
  <2> QED BY <2>4, ServedSame
<1>6. CASE FinishJob
  <2>1. cur \in Jobs /\ Ending(faxq.job[cur])
    BY <1>6, FinishingIs
  <2>2. ~Waker(faxq.job[cur])
    BY <2>1 DEF Ending, Free, Waker
  <2>3. Spared(cur) /\ faxq'.job[cur].on # "blocked"
    BY <1>6, FinishJobShape
  <2> QED BY <2>1, <2>2, <2>3, ServedAnyway
<1> QED BY <1>1, <1>2, <1>3, <1>4, <1>5, <1>6

\* Timers, and the exits of subprocesses.
LEMMA ServedExit ==
  ASSUME IInv, Shape, Served, Placid, NEW j \in Jobs,
         TtsTimer(j) \/ PrepareInterrupted(j) \/ PrepareDone(j) \/ PrepareFailed(j) \/ SendDone(j)
  PROVE  Served'
<1>1. CASE TtsTimer(j)
  <2>1. /\ Spared(j) /\ faxq'.job[j].on = "runq" /\ faxq'.job[j].tries = faxq.job[j].tries
    BY <1>1, TtsTimerShape
  <2>2. Input /\ faxq.job[j].tts
    BY <1>1 DEF TtsTimer
  <2>3. Resting(faxq.job[j])
    BY <2>2, InputJobs DEF Busy
  <2>4. Waker(faxq.job[j]) => Waker(faxq'.job[j])
    BY <2>1, <2>3 DEF Resting, Free, Waker
  <2>5. Waker(faxq.job[j]) => HasWaker(faxq', DestOf[j])
    BY <2>4 DEF HasWaker
  <2> QED BY <2>1, <2>5, ServedAfter
<1>2. CASE PrepareInterrupted(j)
  BY <1>2, CalmRuns DEF PrepareInterrupted, Shape, Calm, Placid
<1>3. CASE PrepareDone(j)
  BY <1>3, PrepareDoneShape, ServedHeld
<1>4. ASSUME PrepareFailed(j) \/ SendDone(j) PROVE faxq.job[j].on # "blocked"
  <2>1. Idle /\ faxq.job[j].child # "none"
    BY <1>4 DEF PrepareFailed, Prepared, SendDone
  <2> QED BY <2>1, IdleJobs DEF Resting, Free, Left, Busy
<1>5. CASE PrepareFailed(j)
  <2>1. /\ Shape' /\ Spared(j) /\ faxq'.job[j].on # "blocked" /\ pc' = "idle"
        /\ \/ Relieved(DestOf[j])
           \/ MaxConcurrentCalls > 0 /\ faxq'.di[DestOf[j]].calls >= MaxConcurrentCalls
    BY <1>5, PrepareFailedShape DEF Placid
  <2>2. CASE Relieved(DestOf[j])
    BY <1>4, <1>5, <2>1, <2>2, ServedRelieved
  <2>3. CASE MaxConcurrentCalls > 0 /\ faxq'.di[DestOf[j]].calls >= MaxConcurrentCalls
    <3>1. PICK d : d = DestOf[j] /\ d \in Dests
      BY DestOfType
    <3>2. Slack(d)' = 0 /\ Cardinality(Calling(faxq', d)) \in Nat
      BY <2>1, CallingType DEF Slack
    <3>3. faxq'.di[d].calls = Cardinality(Calling(faxq', d)) + Slack(d)'
      BY <2>1, <3>1 DEF Shape, CallCounts, Calm, Placid
    <3>4. faxq'.di[d].calls = Cardinality(Calling(faxq', d)) /\ faxq'.di[d].calls > 0
      BY <2>3, <3>1, <3>2, <3>3, Constants
    <3>5. \E w \in Jobs : DestOf[w] = d /\ faxq'.job[w].modem # NoModem
      BY <3>4, CalledHasModem
    <3>6. HasWaker(faxq', DestOf[j])
      BY <3>1, <3>5 DEF HasWaker, Waker
    <3> QED BY <2>1, <3>6, ServedAfter
  <2> QED BY <2>1, <2>2, <2>3
<1>6. CASE SendDone(j)
  BY <1>4, <1>6, SendDoneShape, ServedRelieved
<1> QED BY <1>1, <1>2, <1>3, <1>5, <1>6

\* Submissions, and what faxsend reports.
LEMMA ServedInput ==
  ASSUME IInv, Shape, Served, Placid, NEW j \in Jobs,
         Submit(j) \/ KillTimer(j) \/ CallConnected(j)
  PROVE  Served'
<1>1. CASE Submit(j)
  <2>1. /\ Input
        /\ faxq.job[j].on = "absent" \/ faxq.job[j].state = "suspended"
    BY <1>1 DEF Submit
  <2>2. Resting(faxq.job[j])
    BY <2>1, InputJobs DEF Busy
  <2>3. ~Waker(faxq.job[j])
    BY <2>1, <2>2 DEF Resting, Free, Waker
  <2> QED BY <1>1, <2>3, SubmitShape, ServedAnyway
<1>2. CASE KillTimer(j)
  BY <1>2 DEF KillTimer, Placid
<1>3. CASE CallConnected(j)
  BY <1>3, CallConnectedShape, ServedHeld
<1> QED BY <1>1, <1>2, <1>3

\* Every step keeps the invariant.
LEMMA ServedInductive ==
  ASSUME IInv, Shape, Served, Placid, [Next]_vars
  PROVE  Served'
<1>1. CASE Work
  BY <1>1, ServedElsewhere, ServedVisit, ServedProcess, ServedExit DEF Work
<1>2. ASSUME NEW j \in Jobs, NEW cmd \in Commands, Command(j, cmd) \/ CommandActive(j, cmd)
      PROVE  Served'
  BY <1>2 DEF Command, CommandActive, Commanded, Placid
<1>3. CASE Environment
  BY <1>2, <1>3, ServedElsewhere, ServedInput DEF Environment
<1>4. CASE UNCHANGED vars
  BY <1>4, ServedElsewhere
<1> QED BY <1>1, <1>3, <1>4 DEF Next

\* A blocked job has someone to wake it: a job that calls its destination, with
\* a subprocess whose exit (prepareJobDone, sendJobDone) releases blocked jobs,
\* or a job of that destination that the scheduler or a timer will take up.
\* Where jobs are rejected by their preparation, or forks fail, or modems are
\* exempt, this is false (see the run core and the README).
THEOREM BlockedAreServed ==
  ASSUME Placid
  PROVE  Spec => []BlockedHasWaker
<1>1. Init => Served
  BY DEF Init, Served, NewJob
<1>2. IInv /\ Shape /\ Served /\ [Next]_vars => Served'
  BY ServedInductive
<1>3. IInv /\ Shape /\ Served => BlockedHasWaker
  <2> SUFFICES ASSUME IInv, Shape, Served, Quiet, NEW j \in Jobs, faxq.job[j].on = "blocked"
               PROVE  \E k \in Jobs : /\ DestOf[k] = DestOf[j]
                                      /\ faxq.job[k].on \in {"runq", "sleepq"} \/ Attended(k)
    BY DEF BlockedHasWaker
  <2>1. PICK k \in Jobs : DestOf[k] = DestOf[j] /\ Waker(faxq.job[k])
    BY DEF Served, HasWaker
  <2>2. ASSUME faxq.job[k].modem # NoModem PROVE Attended(k)
    BY <2>2, QuietJobs DEF Resting, Left, Free, Busy
  <2> QED BY <2>1, <2>2 DEF Waker
<1>4. MaxBatchJobs = 1 /\ Commands \subseteq {"Q"}
  BY DEF Placid
<1> QED BY <1>1, <1>2, <1>3, <1>4, ShapeHolds, NoneWaits, PTL DEF Spec
=============================================================================
