-------------------------- MODULE FaxQueueProperties --------------------------
(***************************************************************************)
(* What the job scheduler of faxq promises.  Most invariants speak of the  *)
(* states between two handlers (Quiet): inside one, its loops have lists   *)
(* and counts half updated and nothing else runs to see them.              *)
(***************************************************************************)
EXTENDS FaxQueue

Quiet == pc = "idle" /\ faxq.fault = "none"

\* A subprocess works on the batch of j.
Attended(j) == \E k \in BatchOf(faxq, j) : faxq.job[k].child # "none"

\* The batches with a modem that call d, each by its first job.
InCall(d) == {j \in Jobs : /\ DestOf[j] = d
                           /\ faxq.job[j].modem # NoModem
                           /\ faxq.job[j].bprev = NoJob}

Preparing == {j \in Jobs : faxq.job[j].child = "prepare"}

-----------------------------------------------------------------------------
(* Types *)

\* Every variable keeps its type: counts of calls, blocked jobs and
\* preparations stay natural numbers, and lists, states and links are those
\* of Job.h, DestInfo.h and Modem.h.
TypeOK ==
  /\ faxq \in Memory
  /\ pc \in {"idle", "scan", "batch", "process", "finish"}
  /\ caller \in {"scan", "prepareJobDone"}
  /\ cur \in Jobs \cup {NoJob} /\ head \in Jobs \cup {NoJob}
  /\ dest \in Dests \cup {NoDest}
  /\ todo \subseteq Jobs
  /\ frames \in Seq([job : Jobs, cmd : Commands])
  /\ phase \in {"any", "reap"}
  /\ commands \in Nat

\* The loops over a batch have a job to work on.
CursorOK == /\ pc = "batch" => cur \in Jobs /\ head \in Jobs
            /\ pc = "finish" => cur \in Jobs

-----------------------------------------------------------------------------
(* The process *)

\* faxq never fails one of the fxAsserts of its lists and modems, never waits
\* for a queue file lock it holds itself, never sends itself SIGTERM, and
\* never uses a Job or DestInfo it has deleted.
NoFault == faxq.fault = "none"

\* The same for the requests of clients, which may also leave faxq with a Job
\* it has deleted: no list or lock is used twice, whatever the
\* state of the job that is suspended or killed.
AssertsHold == faxq.fault \in {"none", "dangling"}

\* runScheduler ends the process only when no subprocess of a job is left.
QuitWaits == ~faxq.running => \A j \in Jobs : faxq.job[j].child = "none"

-----------------------------------------------------------------------------
(* Modems *)

\* No two calls share a modem: jobs that have the same one are in one batch,
\* whatever faxgetty says of the modem while a job has it.
ModemExclusive ==
  \A i, j \in Jobs :
    faxq.job[i].modem = faxq.job[j].modem /\ faxq.job[i].modem # NoModem
      => j \in BatchOf(faxq, i)

\* faxq holds the lock of just those modems that it has given to a job: none
\* is kept when its jobs are done, none is given back under a call.
ModemAccounted ==
  Quiet => \A m \in Modems :
    (faxq.modem[m].lock = "faxq") <=> (\E j \in Jobs : faxq.job[j].modem = m)

-----------------------------------------------------------------------------
(* Destinations *)

\* The call count of a DestInfo is the number of batches that call it: each
\* di.call() of runScheduler is undone by one di.hangup(), whatever happens
\* to the batch; and a destination whose call is pending, so that its jobs
\* block, is being called by someone who will end the pending state.  The number of
\* jobs blocked on it is kept apart from their list.
CallsAccounted ==
  Quiet => \A d \in Dests :
    /\ faxq.di[d].calls = Cardinality(InCall(d))
    /\ faxq.di[d].pending => InCall(d) # {}
    /\ faxq.di[d].blocked = Cardinality(BlockedOn(faxq, d))

\* MaxConcurrentCalls "defines the maximum number of concurrent phone calls
\* to the same destination" (hylafax-config).
CallLimit ==
  MaxConcurrentCalls > 0 =>
    \A d \in Dests : Cardinality(InCall(d)) <= MaxConcurrentCalls

\* A blocked job has someone to wake it: another job to its destination that
\* is in a call, or will be tried (and then release the blocked jobs).
BlockedHasWaker ==
  Quiet => \A j \in Jobs : faxq.job[j].on = "blocked" =>
    \E k \in Jobs : /\ DestOf[k] = DestOf[j]
                    /\ faxq.job[k].on \in {"runq", "sleepq"} \/ Attended(k)

-----------------------------------------------------------------------------
(* Jobs *)

\* No job is forgotten: one that is on no list, or active, is in a batch that
\* a subprocess works on, and its exit will move the job.
NoStranded ==
  Quiet /\ frames = <<>> => \A j \in Jobs :
    faxq.job[j].on \in {"none", "activeq"} => Attended(j)

\* A job sleeps if and only if a timer will wake it.
SleeperHasTimer ==
  Quiet => \A j \in Jobs : (faxq.job[j].on = "sleepq") <=> faxq.job[j].tts

\* The scheduler would give j a modem if it ran now.
Runnable(j) ==
  /\ faxq.job[j].on = "runq" /\ faxq.job[j].tries < MaxTries
  /\ faxq.numPrepares < MaxConcurrentPreps
  /\ faxq.running /\ ~faxq.quit
  /\ ~MustBlock(j)
  /\ ReadyFor(j) \ Locked(j) # {}

\* No wakeup is lost: while a job could be given a modem, the scheduler has
\* been poked.
RunnableIsScheduled == Quiet => \A j \in Jobs : Runnable(j) => faxq.poked

\* At most MaxConcurrentPreps jobs are prepared at one time.
PrepLimit == Cardinality(Preparing) <= MaxConcurrentPreps

\* Why PrepLimit holds.  Each preparation has its slot counted, and so has the
\* one that prepareJobDone gives up only after it has gone on with the batch;
\* when the scheduler or prepareJobDone enters processJob a slot is free.
SlotsAccounted ==
  /\ pc = "batch" => caller = "scan"
  /\ Cardinality(Preparing)
       + (IF pc = "process" /\ caller = "prepareJobDone" THEN 1 ELSE 0) <= faxq.numPrepares
  /\ Cardinality(Preparing)
       + (IF pc \in {"batch", "process"} THEN 1 ELSE 0) <= MaxConcurrentPreps

\* A suspended job is left alone: no timer, subprocess, modem or lock of its
\* queue file is left, and its destination does not count it as active.
SuspendedInert ==
  Quiet => \A j \in Jobs : faxq.job[j].on = "suspendq" =>
    /\ ~faxq.job[j].tts /\ ~faxq.job[j].kill /\ ~faxq.job[j].qlock
    /\ faxq.job[j].modem = NoModem /\ ~Attended(j)
    /\ j \notin faxq.di[DestOf[j]].active

\* The sender hears at most once that a job is over.
AtMostOneFinal == \A j \in Jobs : faxq.job[j].notices <= 1

\* "job is definitely done" (deleteRequest): a job that was sent does not
\* become a failed, suspended or waiting one.
DoneIsDone ==
  [][\A j \in Jobs : faxq.job[j].state = "done" => faxq'.job[j].state = "done"]_vars

-----------------------------------------------------------------------------
(* What must happen *)

\* The loops of a handler run to their end.  Every round of the Dispatcher
\* serves every timer that is due and every child that has exited, and a
\* subprocess of a job does exit; rounds of one wait inside another's may
\* hold a handler up but not for ever, hence strong fairness.  Clients,
\* faxgettys and kill times promise nothing.
Fairness ==
  /\ WF_vars(pc # "idle" /\ Work)
  /\ WF_vars(Resume)
  /\ SF_vars(RunScheduler) /\ SF_vars(Close)
  /\ \A j \in Jobs :
       /\ SF_vars(TtsTimer(j))
       /\ SF_vars(PrepareInterrupted(j) \/ PrepareDone(j) \/ PrepareFailed(j))
       /\ SF_vars(SendDone(j))

FairSpec == Spec /\ Fairness

\* Clients leave the jobs, and faxq, alone.
Undisturbed == commands = 0 /\ ~faxq.quit

\* A job blocked by the calls to its destination does not stay so.
BlockedReleased ==
  []Undisturbed =>
    \A j \in Jobs : faxq.job[j].on = "blocked" ~> faxq.job[j].on # "blocked"

\* The call for a job with tries left is over, is not counted, and the job is
\* to be retried: one that no limit ends.
UncountedRetry ==
  \E j \in Jobs :
    /\ faxq.job[j].child # "none" /\ faxq'.job[j].child = "none"
    /\ faxq'.job[j].status = "retry"
    /\ faxq'.job[j].tries = faxq.job[j].tries /\ faxq.job[j].tries < MaxTries

\* If no job needs preparation (which may be put off without limit), every
\* job on the run queue is sent or fails for good within its tries, unless
\* calls that are not counted go on for ever.
EachJobEnds ==
  []Undisturbed =>
    \/ []<><<UncountedRetry>>_vars
    \/ \A j \in Jobs : faxq.job[j].on = "runq" ~> faxq.job[j].on = "absent"

\* A client that suspends or kills an active job gets an answer.
WaitEnds == frames # <<>> ~> frames = <<>>

\* A faxq that is told to quit stops.
QuitCompletes == faxq.quit ~> ~faxq.running
=============================================================================
