------------------------------- MODULE FaxQueue -------------------------------
(***************************************************************************)
(* The job scheduler of faxq (faxd/faxQueueApp.c++ with Job.c++,           *)
(* DestInfo.c++, Modem.c++ and QLink.c++).                                 *)
(*                                                                         *)
(* faxq is one process.  Its Dispatcher runs one handler at a time: a      *)
(* FIFO message from a client, a faxgetty or a faxsend, an expired timer,  *)
(* or the exit of a child.  A handler is an action here, except where the  *)
(* code loops over jobs (a scheduler pass, the members of a batch): then   *)
(* each turn of the loop is a step, pc says which loop is running, and no  *)
(* other handler starts before it ends.  suspendJob runs the Dispatcher    *)
(* again from inside a handler while it waits for a child: frames is the   *)
(* stack of those waits.                                                   *)
(*                                                                         *)
(* Everything faxq holds in memory is the record faxq; an operator that    *)
(* takes and returns such a record is a function of the program.  faults   *)
(* of the program (a failed fxAssert, a NULL pointer, a flock it can never *)
(* get, a SIGTERM it sends to itself, a read of a deleted Job) stop it and *)
(* are recorded in faxq.fault.                                             *)
(***************************************************************************)
EXTENDS Naturals, Sequences, FiniteSets

CONSTANTS
  Jobs,                \* the outbound requests a behaviour may have
  Modems,              \* the modems faxq knows
  Dests,               \* canonical destination numbers
  DestOf,              \* the destination of each job
  NoJob, NoModem, NoDest, \* the NULL pointers
  MaxConcurrentCalls,  \* configuration: calls to one destination, 0 for any
  MaxConcurrentPreps,  \* configuration: job preparations at one time
  MaxBatchJobs,        \* configuration: jobs in one call (1: no batching)
  MaxTries,            \* the attempts a job is allowed
  PrepOutcomes,        \* what prepareJobNeeded may say: "yes", "no", "reject"
  Refusals,            \* what else may stop a job: "submit", "stagger"
  Commands,            \* the client commands in use: "X", "Y", "K", "Q"
  MaxCommands,         \* bound: commands in one behaviour
  ModemMessages,       \* faxgetty messages in use: subset of "R" "B" "D" "E"
  KillTimers,          \* whether a kill time may pass
  ForkMayFail,         \* whether fork may fail
  Uncounted,           \* whether a call may end without being counted
  OtherLockers,        \* whether other programs take modem locks
  ModemOf,             \* the modem a job names, NoModem if any will do
  IgnoreModemBusy,     \* the jobs submitted with ignoremodembusy, if allowed
  ConfigRereads        \* whether the configuration file changes while running

ASSUME Constants ==
  /\ IsFiniteSet(Jobs)
  /\ NoJob \notin Jobs /\ NoModem \notin Modems /\ NoDest \notin Dests
  /\ DestOf \in [Jobs -> Dests]
  /\ MaxConcurrentCalls \in Nat /\ MaxConcurrentPreps \in Nat \ {0}
  /\ MaxBatchJobs \in Nat \ {0} /\ MaxTries \in Nat \ {0}
  /\ PrepOutcomes \subseteq {"yes", "no", "reject"}
  /\ Refusals \subseteq {"submit", "stagger"}
  /\ Commands \subseteq {"X", "Y", "K", "Q"} /\ MaxCommands \in Nat
  /\ ModemMessages \subseteq {"R", "B", "D", "E"}
  /\ {KillTimers, ForkMayFail, Uncounted, OtherLockers, ConfigRereads} \subseteq BOOLEAN
  /\ ModemOf \in [Jobs -> Modems \cup {NoModem}]
  /\ IgnoreModemBusy \subseteq Jobs

VARIABLES
  faxq,     \* the memory of the process
  pc,       \* the loop in progress: "idle", "scan", "batch", "process", "finish"
  caller,   \* who called processJob: "scan" or "prepareJobDone"
  cur,      \* the job a loop is at
  head,     \* the first job of the batch being started
  dest,     \* the DestInfo processJob works on, NoDest if it was purged
  todo,     \* the jobs this scheduler pass has still to visit
  frames,   \* the suspendJob calls waiting for a child, innermost last
  phase,    \* "reap" once a dispatch round is reaping children
  commands  \* commands received, at most MaxCommands

loop == <<pc, caller, cur, head, dest, todo>>
vars == <<faxq, loop, frames, phase, commands>>

-----------------------------------------------------------------------------
(* The memory of the process *)

\* Where a Job is: "absent" no Job object, "none" on no list, or a QLink list.
Places == {"absent", "none", "runq", "sleepq", "activeq",
           "suspendq", "deadq", "blocked"}
States == {"suspended", "pending", "sleeping", "blocked",
           "ready", "active", "done", "failed"}

JobRecord ==
  [on : Places,
   state : States,
   modem : Modems \cup {NoModem},
   bprev : Jobs \cup {NoJob}, bnext : Jobs \cup {NoJob},
   qlock : BOOLEAN,            \* an open FaxRequest holds the flock of its file
   qfile : {"sendq", "doneq"}, \* where the queue file is
   suspendPending : BOOLEAN,
   tts : BOOLEAN, kill : BOOLEAN,    \* timers running
   expired : BOOLEAN,                \* killtime = 0
   pid : {"zero", "set"},            \* Job::pid, never reset by a child's exit
   child : {"none", "prepare", "send", "connected"}, \* connected: a faxsend in a call
   status : {"none", "done", "failed", "retry"}, \* req->status of faxsend
   tries : 0..MaxTries,              \* req->tottries
   notices : 0..2]                   \* deleteRequest calls, at most 2 counted

DestRecord == [active : SUBSET Jobs, calls : Nat, blocked : Nat, pending : BOOLEAN]

ModemRecord == [state : {"down", "ready", "busy", "exempt"},
                lock : {"free", "faxq", "other"},
                poll : BOOLEAN]      \* the lock polling timer

Faults == {"none", "assert", "deadlock", "selfkill", "dangling"}

Memory == [job : [Jobs -> JobRecord], di : [Dests -> DestRecord],
           modem : [Modems -> ModemRecord], numPrepares : Nat,
           poked : BOOLEAN,    \* a scheduler timer is set (see SchedTimeout)
           quit : BOOLEAN, running : BOOLEAN, fault : Faults]

NewJob == [on |-> "absent", state |-> "suspended", modem |-> NoModem,
           bprev |-> NoJob, bnext |-> NoJob, qlock |-> FALSE, qfile |-> "sendq",
           suspendPending |-> FALSE, tts |-> FALSE, kill |-> FALSE,
           expired |-> FALSE, pid |-> "zero", child |-> "none",
           status |-> "none", tries |-> 0, notices |-> 0]
NewDest == [active |-> {}, calls |-> 0, blocked |-> 0, pending |-> FALSE]

-----------------------------------------------------------------------------
(* Lists and queue files *)

Fail(q, f) == [q EXCEPT !.fault = IF @ = "none" THEN f ELSE @]
FxAssert(q, ok) == IF ok THEN q ELSE Fail(q, "assert")
Poke(q) == [q EXCEPT !.poked = TRUE]

IsOnList(q, j) == q.job[j].on \notin {"absent", "none"}

Insert(q, j, list) ==
  [FxAssert(q, ~IsOnList(q, j)) EXCEPT !.job[j].on = list]

\* Job::remove takes the job off its list and out of its batch.  It forgets
\* breq but does not close it, so the lock of the queue file stays.
Remove(q, j) ==
  LET p == q.job[j].bprev
      n == q.job[j].bnext
      Unlink(k) ==
        IF k = j THEN [q.job[k] EXCEPT !.on = "none", !.bprev = NoJob, !.bnext = NoJob]
        ELSE [q.job[k] EXCEPT !.bprev = IF k = n THEN p ELSE @,
                              !.bnext = IF k = p THEN n ELSE @]
  IN [FxAssert(q, IsOnList(q, j)) EXCEPT !.job = [k \in Jobs |-> Unlink(k)]]

Unlist(q, j) == IF IsOnList(q, j) THEN Remove(q, j) ELSE q

\* The jobs of a batch from j on, and its first job.
Batch(q, j) ==
  IF q.job[j].bnext \notin Jobs THEN {j}
  ELSE {k \in Jobs : \A S \in SUBSET Jobs :
          (j \in S /\ \A i \in S : q.job[i].bnext \in Jobs => q.job[i].bnext \in S)
             => k \in S}
BatchOf(q, j) == {k \in Jobs : j \in Batch(q, k) \/ k \in Batch(q, j)}
First(q, j) ==
  LET F == {f \in BatchOf(q, j) : q.job[f].bprev = NoJob /\ j \in Batch(q, f)}
  IN IF F = {} THEN NoJob ELSE CHOOSE f \in F : TRUE

\* readRequest locks the queue file through a new descriptor: if the process
\* already holds the lock through another one it waits for itself.
ReadRequest(q, j) == IF q.job[j].qlock THEN Fail(q, "deadlock") ELSE q

\* deleteRequest moves the queue file to doneq, tells the sender, closes it.
DeleteRequest(q, j) ==
  [q EXCEPT !.job[j].qfile = "doneq", !.job[j].qlock = FALSE,
            !.job[j].notices = IF @ < 2 THEN @ + 1 ELSE 2]

-----------------------------------------------------------------------------
(* Destinations *)

\* Mutant: a count that is 0 is decremented.
MinusUnguarded(n, k) == n - k

\* Every count is decremented with a guard.
Minus(n, k) == IF n > k THEN n - k ELSE 0

\* Mutant: the call is not given back.
HangupForgets(q, d) == [q EXCEPT !.di[d].pending = FALSE]
Hangup(q, d) == [q EXCEPT !.di[d].calls = Minus(@, 1), !.di[d].pending = FALSE]
Call(q, d) == [q EXCEPT !.di[d].calls = @ + 1, !.di[d].pending = TRUE]
Connected(q, d) == [q EXCEPT !.di[d].pending = FALSE]
Active(q, j) == [q EXCEPT !.di[DestOf[j]].active = @ \cup {j}]

\* removeDestInfoJob: the entry is purged, and its call count with it, when
\* no job is counted in it.
RemoveDestInfoJob(q, j) ==
  LET left == q.di[DestOf[j]].active \ {j}
  IN [q EXCEPT !.di[DestOf[j]] =
        IF left = {} /\ @.blocked = 0 THEN NewDest ELSE [@ EXCEPT !.active = left]]

BlockedOn(q, d) == {k \in Jobs : DestOf[k] = d /\ q.job[k].on = "blocked"}

\* How many blocked jobs unblockDestJobs releases: as many as the calls left
\* can take, or one if it is forced and no call is left.
Room(q, d, force) ==
  LET blocked == Cardinality(BlockedOn(q, d))
      left == Minus(MaxConcurrentCalls, q.di[d].calls) * MaxBatchJobs
      room == IF left = 0 /\ force THEN 1 ELSE left
  IN IF MaxConcurrentCalls = 0 \/ room > blocked THEN blocked ELSE room

Unblockable(q, d, force) ==
  {U \in SUBSET BlockedOn(q, d) : Cardinality(U) = Room(q, d, force)}

\* The jobs U leave the blocked list of d for the run queue.
Unblock(q, d, U) ==
  [q EXCEPT
     !.di[d].blocked = Minus(@, Cardinality(U)),
     !.job = [k \in Jobs |->
       IF k \in U THEN [@[k] EXCEPT !.on = "runq", !.state = "ready", !.pid = "zero"]
       ELSE @[k]]]

\* Mutant: a failed call leaves the blocked jobs alone.
DelayBlockedNot(q, d) == q

\* The jobs blocked on d are put to sleep, as after a failed call.
DelayBlocked(q, d) ==
  LET B == BlockedOn(q, d) IN
  [q EXCEPT
     !.di[d].blocked = Minus(@, Cardinality(B)),
     !.job = [k \in Jobs |->
       IF k \in B THEN [@[k] EXCEPT !.on = "sleepq", !.state = "sleeping", !.tts = TRUE]
       ELSE @[k]]]

\* A blocked job is suspended or killed.
UnblockOne(q, d) == [q EXCEPT !.di[d].blocked = Minus(@, 1)]

-----------------------------------------------------------------------------
(* Modems *)

\* Mutant: the lock file stays.
ReleasedKeepsLock(m) == [m EXCEPT !.state = IF @ = "busy" THEN "ready" ELSE @]

\* Modem::release drops the lock if faxq has it and makes a BUSY modem READY.
Released(m) == [m EXCEPT !.state = IF @ = "busy" THEN "ready" ELSE @,
                         !.lock = IF @ = "faxq" THEN "free" ELSE @]

ReleaseModem(q, j) ==
  LET B == Batch(q, j)
      m == q.job[j].modem
  IN IF m = NoModem THEN Fail(q, "assert")
     ELSE [FxAssert(Poke(q), \A k \in B : q.job[k].modem # NoModem) EXCEPT
             !.modem[m] = Released(@),
             !.job = [k \in Jobs |->
                IF k \in B THEN [@[k] EXCEPT !.modem = NoModem] ELSE @[k]]]

ReleaseIfHeld(q, j) == IF q.job[j].modem = NoModem THEN q ELSE ReleaseModem(q, j)

-----------------------------------------------------------------------------
(* The queue transitions every handler is built from *)

\* Mutant: the corpse goes on no list.
SetDeadUnlisted(q, j) ==
  Poke(ReleaseIfHeld(Unlist(RemoveDestInfoJob(
    [q EXCEPT !.job[j].tts = FALSE, !.job[j].suspendPending = FALSE,
              !.job[j].state = IF @ = "done" THEN @ ELSE "failed"], j), j), j))
\* Mutant: whoever waits for the job is not told.
SetDeadWaiting(q, j) ==
  LET marked == [q EXCEPT !.job[j].tts = FALSE,
                          !.job[j].state = IF @ = "done" THEN @ ELSE "failed"]
  IN Poke(ReleaseIfHeld(Insert(Unlist(RemoveDestInfoJob(marked, j), j), j, "deadq"), j))

SetDead(q, j) ==
  LET marked == [q EXCEPT !.job[j].tts = FALSE, !.job[j].suspendPending = FALSE,
                          !.job[j].state = IF @ = "done" THEN @ ELSE "failed"]
      buried == Insert(Unlist(RemoveDestInfoJob(marked, j), j), j, "deadq")
  IN Poke(ReleaseIfHeld(buried, j))

SetReadyToRun(q, j) ==
  [Insert(q, j, "runq") EXCEPT !.job[j].state = "ready", !.job[j].pid = "zero"]

SetSleep(q, j, state) ==
  [Insert(q, j, "sleepq") EXCEPT !.job[j].state = state, !.job[j].tts = TRUE]

DelayJob(q, j) == ReleaseIfHeld(SetSleep(q, j, "sleeping"), j)

SetActive(q, j) == [Insert(q, j, "activeq") EXCEPT !.job[j].state = "active"]

SetSuspend(q, j) == [Insert(q, j, "suspendq") EXCEPT !.job[j].state = "suspended"]

-----------------------------------------------------------------------------
(* The Dispatcher *)

Idle == pc = "idle" /\ faxq.running /\ faxq.fault = "none"

Top == frames[Len(frames)]
Waiting == frames # <<>> /\ faxq.job[Top.job].suspendPending

\* A round handles FIFO input, then timers, then children.  The loop in
\* suspendJob tests its job between rounds, so once a child has answered it
\* only the other children of that round come first.  After the innermost
\* wait has returned, the round of the wait outside it is still going on.
Input == Idle /\ (frames = <<>> \/ Waiting \/ phase = "any")

\* What a handler of input or of a timer leaves alone.
Handled == UNCHANGED <<loop, frames, commands>> /\ phase' = "any"
\* The same for the exit of a child.
Reaping == /\ phase' = IF frames = <<>> THEN "any" ELSE "reap"
           /\ UNCHANGED <<frames, commands>>

-----------------------------------------------------------------------------
(* Submission *)

\* submitJob, for a new queue file or a suspended job: it is refused, put to
\* sleep until its time to send, or made ready.
Submit(j) ==
  LET new == faxq.job[j].on = "absent" /\ faxq.job[j].qfile = "sendq"
      q == IF new THEN [faxq EXCEPT !.job[j].on = "none"]
                  ELSE ReadRequest(Remove(faxq, j), j)
      timed == [q EXCEPT !.job[j].kill = TRUE, !.job[j].expired = FALSE]
  IN /\ Input
     /\ new \/ (faxq.job[j].on # "absent" /\ faxq.job[j].state = "suspended")
     /\ \/ faxq' = Poke(SetReadyToRun(timed, j))
        \/ faxq' = Poke(SetSleep(timed, j, "pending"))
        \/ "submit" \in Refusals /\ faxq' = SetDead(DeleteRequest(q, j), j)
     /\ Handled

\* runJob: the time to send has come.
TtsTimer(j) ==
  /\ Input
  /\ faxq.job[j].tts
  /\ LET q == [faxq EXCEPT !.job[j].tts = FALSE]
     IN faxq' = Poke(IF q.job[j].state = "failed" THEN q
                     ELSE ReadRequest(SetReadyToRun(Unlist(q, j), j), j))
  /\ Handled

\* timeoutJob: the kill time has come.  An active job is only marked.
KillTimer(j) ==
  /\ Input
  /\ KillTimers /\ faxq.job[j].kill
  /\ LET q == [faxq EXCEPT !.job[j].kill = FALSE]
     IN faxq' = IF q.job[j].state = "active"
                THEN [q EXCEPT !.job[j].expired = TRUE]
                ELSE LET failed == [Unlist(q, j) EXCEPT !.job[j].state = "failed"]
                     IN SetDead(DeleteRequest(ReadRequest(failed, j), j), j)
  /\ Handled

-----------------------------------------------------------------------------
(* Suspending and killing a job on request *)

\* Mutant: the job stays on its list.
LeaveListed(q, j) == [RemoveDestInfoJob(q, j) EXCEPT !.job[j].kill = FALSE]
\* Mutant: the kill timer runs on.
LeaveKillTimer(q, j) == Unlist(RemoveDestInfoJob(q, j), j)

Leave(q, j) == [Unlist(RemoveDestInfoJob(q, j), j) EXCEPT !.job[j].kill = FALSE]

Suspended(q, j) == Poke(ReadRequest(SetSuspend(Leave(q, j), j), j))
Killed(q, j) ==
  LET q1 == [Leave(q, j) EXCEPT !.job[j].state = "failed"]
  IN SetDead(DeleteRequest(ReadRequest(q1, j), j), j)
Answer(q, j, cmd) == IF cmd = "K" THEN Killed(q, j) ELSE Suspended(q, j)

Commanded(j, cmd) ==
  /\ Input
  /\ cmd \in Commands \ {"Q"} /\ commands < MaxCommands
  /\ faxq.job[j].on # "absent"
  /\ ~faxq.job[j].suspendPending
  /\ commands' = commands + 1 /\ phase' = "any"

\* suspendJob and terminateJob, for a job no subprocess handles.
Command(j, cmd) ==
  /\ Commanded(j, cmd)
  /\ faxq.job[j].state \notin {"active", "done", "failed"}
  /\ LET q == [faxq EXCEPT !.job[j].tts =
                 IF faxq.job[j].state \in {"sleeping", "pending"} THEN FALSE ELSE @]
     IN faxq' = Answer(IF q.job[j].state = "blocked" THEN UnblockOne(q, DestOf[j]) ELSE q,
                       j, cmd)
  /\ UNCHANGED <<loop, frames>>

\* The same for an active job: its subprocess is sent SIGTERM, except by a
\* plain suspend, and the handler waits for it in a nested dispatch loop.
CommandActive(j, cmd) ==
  /\ Commanded(j, cmd)
  /\ faxq.job[j].state = "active"
  /\ LET q == [faxq EXCEPT !.job[j].suspendPending = TRUE, !.job[j].kill = FALSE]
     IN faxq' = IF cmd # "X" /\ q.job[j].pid = "zero" THEN Fail(q, "selfkill") ELSE q
  /\ frames' = Append(frames, [job |-> j, cmd |-> cmd])
  /\ UNCHANGED loop

\* Mutant: the state of the job is not checked again after the wait.
ResumeUnchecked ==
  /\ Idle
  /\ frames # <<>> /\ ~Waiting
  /\ LET j == Top.job
     IN faxq' = IF faxq.job[j].on = "absent" THEN Fail(faxq, "dangling")
                ELSE Answer(faxq, j, Top.cmd)
  /\ frames' = SubSeq(frames, 1, Len(frames) - 1)
  /\ phase' = "any"
  /\ UNCHANGED <<loop, commands>>

\* The wait is over and suspendJob goes on with the job, unless it finished.
Resume ==
  /\ Idle
  /\ frames # <<>> /\ ~Waiting
  /\ LET j == Top.job
     IN faxq' = IF faxq.job[j].on = "absent" THEN Fail(faxq, "dangling")
                ELSE IF faxq.job[j].state \in {"done", "failed"} THEN faxq
                ELSE Answer(faxq, j, Top.cmd)
  /\ frames' = SubSeq(frames, 1, Len(frames) - 1)
  /\ phase' = "any"
  /\ UNCHANGED <<loop, commands>>

\* Mutant: the scheduler is not told.
QuitUnpoked ==
  /\ Input
  /\ "Q" \in Commands /\ ~faxq.quit
  /\ faxq' = [faxq EXCEPT !.quit = TRUE]
  /\ Handled

\* The quit message: stop when no job is active.
Quit ==
  /\ Input
  /\ "Q" \in Commands /\ ~faxq.quit
  /\ faxq' = Poke([faxq EXCEPT !.quit = TRUE])
  /\ Handled

-----------------------------------------------------------------------------
(* The scheduler: one pass over the run queue *)

OnQueue(q, list) == {k \in Jobs : q.job[k].on = list}

RunScheduler ==
  /\ Input
  /\ faxq.poked
  /\ ~(faxq.quit /\ OnQueue(faxq, "activeq") = {})
  /\ \E n \in {faxq.numPrepares} \cup (IF ConfigRereads THEN {0} ELSE {}) :
       faxq' = [faxq EXCEPT !.poked = FALSE, !.numPrepares = n]
  /\ pc' = "scan"
  /\ todo' = IF faxq.quit THEN {} ELSE OnQueue(faxq, "runq")
  /\ phase' = "any"
  /\ UNCHANGED <<caller, cur, head, dest, frames, commands>>

\* Mutant: faxq does not wait for its jobs.
CloseAtOnce ==
  /\ Input
  /\ faxq.poked /\ faxq.quit
  /\ faxq' = [faxq EXCEPT !.poked = FALSE, !.running = FALSE]
  /\ Handled

\* faxq stops once it was told to quit and no job is active.
Close ==
  /\ Input
  /\ faxq.poked /\ faxq.quit /\ OnQueue(faxq, "activeq") = {}
  /\ faxq' = [faxq EXCEPT !.poked = FALSE, !.running = FALSE]
  /\ Handled

\* Mutant: one preparation too many.
VisitingLate(j) ==
  /\ pc = "scan" /\ faxq.fault = "none"
  /\ j \in todo /\ faxq.numPrepares <= MaxConcurrentPreps
  /\ UNCHANGED <<frames, phase, commands>>

\* Each visit to a job of the run queue starts so.
Visiting(j) ==
  /\ pc = "scan" /\ faxq.fault = "none"
  /\ j \in todo /\ faxq.numPrepares < MaxConcurrentPreps
  /\ faxq.job[j].bprev = NoJob /\ faxq.job[j].on # "deadq"
  /\ UNCHANGED <<frames, phase, commands>>
Visited(j) == ReadRequest(FxAssert(faxq, faxq.job[j].modem = NoModem), j)
OnToNext(j) == todo' = todo \ {j} /\ UNCHANGED <<pc, caller, cur, head, dest>>

\* The pass comes to a job that a batch has taken from under its iterator: it
\* gives up this run queue for another pass.
VisitBatched(j) ==
  /\ pc = "scan" /\ faxq.fault = "none"
  /\ j \in todo /\ faxq.numPrepares < MaxConcurrentPreps
  /\ faxq.job[j].bprev # NoJob
  /\ faxq' = Poke(faxq) /\ todo' \in SUBSET (todo \ {j})
  /\ UNCHANGED <<pc, caller, cur, head, dest, frames, phase, commands>>

\* Mutant: one call too many.
MustBlockLate(j) == faxq.di[DestOf[j]].calls > MaxConcurrentCalls

MustBlock(j) ==
  LET d == faxq.di[DestOf[j]]
  IN IF MaxConcurrentCalls = 0 THEN d.pending
     ELSE d.calls + 1 > MaxConcurrentCalls

\* Mutant: the rejected job is not taken from the run queue.
RejectJobKeeps(j) == faxq' = DeleteRequest(Visited(j), j) /\ OnToNext(j)

RejectJob(j) == faxq' = DeleteRequest(SetDead(Visited(j), j), j) /\ OnToNext(j)

VisitExhausted(j) ==
  /\ Visiting(j)
  /\ faxq.job[j].tries >= MaxTries
  /\ RejectJob(j)

\* Mutant: a job that has used up its tries is sent once more, and again.
EligibleStill(j) == Visiting(j) /\ faxq.job[j].tries <= MaxTries

Eligible(j) == Visiting(j) /\ faxq.job[j].tries < MaxTries

VisitBlocked(j) ==
  /\ Eligible(j)
  /\ MustBlock(j)
  /\ faxq' = [Insert(Unlist(Visited(j), j), j, "blocked") EXCEPT
                !.job[j].state = "blocked", !.di[DestOf[j]].blocked = @ + 1]
  /\ OnToNext(j)

\* Time-of-day restrictions and call staggering put a job back to sleep.
VisitDelayed(j) ==
  /\ Eligible(j) /\ ~MustBlock(j)
  /\ "stagger" \in Refusals
  /\ faxq' = DelayJob(Unlist(Visited(j), j), j)
  /\ OnToNext(j)

Candidates(j) == IF ModemOf[j] = NoModem THEN Modems ELSE {ModemOf[j]}
ReadyFor(j) == {m \in Candidates(j) : faxq.modem[m].state = "ready"}
\* Mutant: the lock file of the modem is not looked at.
LockedNot(j) == {}

Locked(j) == {m \in ReadyFor(j) : faxq.modem[m].lock # "free"}
Ignoring(j) == j \in IgnoreModemBusy /\ ModemOf[j] # NoModem

\* The modems whose lock could not be had are polled until it is free.
Polling(q, T) ==
  [q EXCEPT !.modem = [m \in Modems |->
     IF m \in T THEN [@[m] EXCEPT !.state = "busy", !.poll = TRUE] ELSE @[m]]]

\* No modem to be had: the job stays on the run queue.
VisitNoModem(j) ==
  /\ Eligible(j) /\ ~MustBlock(j)
  /\ ReadyFor(j) = Locked(j)
  /\ Ignoring(j) => faxq.modem[ModemOf[j]].state = "down"
  /\ faxq' = Polling(Visited(j), Locked(j))
  /\ OnToNext(j)

\* A job that insists on an exempt modem is rejected.
VisitExempt(j) ==
  /\ Eligible(j) /\ ~MustBlock(j)
  /\ Ignoring(j) /\ faxq.modem[ModemOf[j]].state = "exempt"
  /\ RejectJob(j)

\* The job gets modem m and leaves the run queue with its queue file open.
Assigned(q, j, m, lock) ==
  [Unlist(q, j) EXCEPT
     !.modem[m].state = "busy", !.modem[m].lock = lock,
     !.job[j].modem = m, !.job[j].qlock = TRUE, !.job[j].bnext = NoJob]

\* With batching, the jobs blocked on the destination are released first.
StartCall(q, j) ==
  LET d == DestOf[j] IN
  /\ cur' = j /\ head' = j /\ dest' = d /\ caller' = "scan"
  /\ \/ /\ MaxBatchJobs = 1
        /\ faxq' = Call(q, d) /\ pc' = "process" /\ todo' = todo \ {j}
     \/ /\ MaxBatchJobs > 1
        /\ \E U \in Unblockable(q, d, FALSE) :
             /\ faxq' = Unblock(q, d, U)
             /\ \E seen \in SUBSET U : todo' = (todo \ {j}) \cup seen
        /\ pc' = "batch"

VisitAssign(j) ==
  /\ Eligible(j) /\ ~MustBlock(j)
  /\ \E m \in ReadyFor(j) \ Locked(j), T \in SUBSET Locked(j) :
       StartCall(Assigned(Polling(Visited(j), T), j, m, "faxq"), j)

\* ignoremodembusy: a BUSY modem is assigned without its lock.
VisitAssignBusy(j) ==
  /\ Eligible(j) /\ ~MustBlock(j)
  /\ Ignoring(j)
  /\ LET m == ModemOf[j]
     IN /\ faxq.modem[m].state = "busy" \/ m \in Locked(j)
        /\ StartCall(Assigned(Polling(Visited(j), Locked(j)), j, m, faxq.modem[m].lock), j)

\* Mutant: c stays on its list.
JoinListed(q, c, last) ==
  [ReadRequest(q, c) EXCEPT
     !.job[c].tts = FALSE, !.job[c].state = "ready",
     !.job[c].modem = q.job[last].modem, !.job[c].qlock = TRUE,
     !.job[c].bprev = last, !.job[last].bnext = c]
\* Mutant: the timer of a sleeping job runs on.
JoinTimerRuns(q, c, last) ==
  [Remove(ReadRequest(q, c), c) EXCEPT
     !.job[c].state = "ready", !.job[c].modem = q.job[last].modem,
     !.job[c].qlock = TRUE, !.job[c].bprev = last, !.job[last].bnext = c]

\* Job c joins a batch after its last job, from the run queue or, if only a
\* retry delays it, from the sleep queue.
Join(q, c, last) ==
  [Remove(ReadRequest(FxAssert(q, q.job[c].on = "runq" =>
                        ~q.job[c].tts /\ q.job[c].modem = NoModem), c), c) EXCEPT
     !.job[c].tts = IF q.job[c].on = "sleepq" THEN FALSE ELSE @,
     !.job[c].state = "ready",
     !.job[c].modem = q.job[last].modem, !.job[c].qlock = TRUE,
     !.job[c].bprev = last, !.job[last].bnext = c]

\* What the pass has still to visit when c leaves the run queue.  Its iterator
\* steps on to the job behind the last of the batch, and when the pass goes on
\* it steps once more: if that job has not joined it is passed over, and
\* if c was the one after it the iterator holds on to c.  From the end of a
\* run queue the iterator starts with it again.
Passing(c) ==
  {todo \ {c, k} : k \in Jobs} \cup {todo \ {k} : k \in todo \ {c}}
    \cup {(todo \ {c}) \cup again : again \in SUBSET (OnQueue(faxq, "runq") \ todo)}

AddToBatch(c) ==
  /\ pc = "batch" /\ faxq.fault = "none"
  /\ DestOf[c] = DestOf[head]
  /\ \/ faxq.job[c].on = "runq" /\ todo' \in Passing(c)
     \/ faxq.job[c].on = "sleepq" /\ faxq.job[c].state = "sleeping" /\ todo' = todo
  /\ Cardinality(Batch(faxq, head)) < MaxBatchJobs
  /\ faxq' = Join(faxq, c, cur)
  /\ cur' = c
  /\ UNCHANGED <<pc, caller, head, dest, frames, phase, commands>>

\* The batch is complete.
EndBatch ==
  /\ pc = "batch" /\ faxq.fault = "none"
  /\ faxq' = Call([faxq EXCEPT !.job[cur].bnext = NoJob], DestOf[head])
  /\ pc' = "process" /\ cur' = head
  /\ UNCHANGED <<caller, head, dest, todo, frames, phase, commands>>

\* The pass is over, or too many preparations are running.  The dead are
\* reaped: a Job's destructor stops its timers.
EndScan ==
  /\ pc = "scan" /\ faxq.fault = "none"
  /\ todo \subseteq OnQueue(faxq, "deadq") \/ faxq.numPrepares >= MaxConcurrentPreps
  /\ faxq' = [faxq EXCEPT !.job = [k \in Jobs |->
       IF @[k].on = "deadq"
       THEN [@[k] EXCEPT !.on = "absent", !.tts = FALSE, !.kill = FALSE]
       ELSE @[k]]]
  /\ pc' = "idle" /\ todo' = {}
  /\ UNCHANGED <<caller, cur, head, dest, frames, phase, commands>>

-----------------------------------------------------------------------------
(* processJob: prepare the jobs of a batch one after the other, then send *)

\* prepareJobDone ends by giving up its preparation slot.
PrepareFinished(q) ==
  LET n == Minus(q.numPrepares, 1)
      q1 == [q EXCEPT !.numPrepares = n]
  IN IF n < MaxConcurrentPreps THEN Poke(q1) ELSE q1

\* processJob returns to the scheduler pass or to prepareJobDone.
ReturnWith(q) ==
  /\ \/ caller = "scan" /\ pc' = "scan" /\ faxq' = q
     \/ caller = "prepareJobDone" /\ pc' = "idle" /\ faxq' = PrepareFinished(q)
  /\ cur' = NoJob /\ head' = NoJob /\ dest' = NoDest
  /\ UNCHANGED <<caller, todo>>

Processing == /\ pc = "process" /\ faxq.fault = "none"
              /\ UNCHANGED <<frames, phase, commands>>
OnToNextInBatch(q, first) ==
  /\ faxq' = q /\ head' = first /\ cur' = faxq.job[cur].bnext
  /\ UNCHANGED <<pc, caller, todo>>

\* di.active(job) and setActive(job).  If the entry was purged under
\* processJob this writes to freed memory: no effect, or a crash.
Entered ==
  LET entered == IF dest = NoDest THEN {faxq, Fail(faxq, "dangling")}
                                  ELSE {Active(faxq, cur)}
  IN {SetActive(q, cur) : q \in entered}

\* Nothing to prepare: the next job of the batch.
ProcessReady ==
  /\ Processing /\ cur # NoJob /\ "no" \in PrepOutcomes
  /\ \E q \in Entered : OnToNextInBatch(q, head)
  /\ UNCHANGED dest

\* The job cannot be sent with this modem: it fails, the batch goes on.
ProcessReject ==
  /\ Processing /\ cur # NoJob /\ "reject" \in PrepOutcomes
  /\ \E q \in Entered :
       LET failed == DeleteRequest([q EXCEPT !.job[cur].state = "failed"], cur)
           dead == SetDead(failed, cur)
       IN /\ OnToNextInBatch(dead, IF faxq.job[cur].bprev = NoJob
                                   THEN faxq.job[cur].bnext ELSE head)
          /\ dest' = IF dead.di[DestOf[cur]] = NewDest THEN NoDest ELSE dest

\* prepareJobStart: a child prepares the job; its exit goes on with the batch.
ProcessPrepare ==
  /\ Processing /\ cur # NoJob /\ "yes" \in PrepOutcomes
  /\ \E q \in Entered : ReturnWith([q EXCEPT
       !.numPrepares = @ + 1, !.job[cur].child = "prepare",
       !.job[cur].pid = "set", !.job[cur].qlock = FALSE])

\* fork failed: the job is delayed and the batch restarts after it.
ProcessForkFails ==
  /\ Processing /\ cur # NoJob /\ "yes" \in PrepOutcomes /\ ForkMayFail
  /\ \E q \in Entered :
       OnToNextInBatch([DelayJob(Unlist(q, cur), cur) EXCEPT
                          !.job[cur].qlock = FALSE, !.numPrepares = @ + 1],
                       faxq.job[cur].bnext)
  /\ UNCHANGED dest

\* sendJobStart: one child sends all jobs of the batch.
SendJobStart ==
  /\ Processing /\ cur = NoJob /\ head # NoJob
  /\ LET B == Batch(faxq, head)
         h == faxq.job[head]
     IN ReturnWith([FxAssert(faxq, h.qlock /\ h.modem # NoModem) EXCEPT
          !.job = [k \in Jobs |->
            IF k \in B THEN [faxq.job[k] EXCEPT !.pid = "set", !.qlock = FALSE,
                               !.child = IF k = head THEN "send" ELSE @]
            ELSE faxq.job[k]]])

\* fork failed: every job of the batch is delayed and the modem released.
SendForkFails ==
  /\ Processing /\ cur = NoJob /\ head # NoJob /\ ForkMayFail
  /\ LET B == Batch(faxq, head)
         M == {faxq.job[k].modem : k \in B}
     IN ReturnWith([FxAssert(Poke(faxq), \A k \in B : IsOnList(faxq, k)) EXCEPT
          !.modem = [m \in Modems |-> IF m \in M THEN Released(@[m]) ELSE @[m]],
          !.job = [k \in Jobs |->
            IF k \in B THEN [@[k] EXCEPT !.on = "sleepq", !.state = "sleeping",
                               !.tts = TRUE, !.modem = NoModem, !.bprev = NoJob,
                               !.bnext = NoJob, !.qlock = FALSE]
            ELSE @[k]]])

\* No job of the batch is left to send: the call is hung up.
ProcessNothing ==
  /\ Processing /\ cur = NoJob /\ head = NoJob
  /\ \E q \in IF dest = NoDest THEN {faxq, Fail(faxq, "dangling")}
                               ELSE {Hangup(faxq, dest)} : ReturnWith(q)

-----------------------------------------------------------------------------
(* The exit of a child that prepared a job *)

\* processJob and sendJobStart called from prepareJobDone.
GoOn(q, next, first, d) ==
  /\ faxq' = q /\ pc' = "process" /\ caller' = "prepareJobDone"
  /\ cur' = next /\ head' = first /\ dest' = d
  /\ UNCHANGED todo

Prepared(j) == Idle /\ faxq.job[j].child = "prepare" /\ Reaping
Reaped(j) == [faxq EXCEPT !.job[j].child = "none"]

\* Someone waits to suspend the job: only the modem is released.
PrepareInterrupted(j) ==
  /\ Prepared(j)
  /\ faxq.job[j].suspendPending
  /\ faxq' = PrepareFinished(
       ReleaseModem([Reaped(j) EXCEPT !.job[j].suspendPending = FALSE], j))
  /\ UNCHANGED loop

\* The job is prepared: the next of the batch, or the transmission.
PrepareDone(j) ==
  /\ Prepared(j)
  /\ ~faxq.job[j].suspendPending
  /\ LET q == [ReadRequest(Reaped(j), j) EXCEPT !.job[j].qlock = TRUE]
     IN GoOn(q, q.job[j].bnext, First(q, j), DestOf[j])

\* The job could not be prepared: it leaves the batch, which goes on.
PrepareFailed(j) ==
  /\ Prepared(j)
  /\ ~faxq.job[j].suspendPending
  /\ \E requeued \in BOOLEAN :
       LET r == faxq.job[j]
           alone == r.bnext = NoJob /\ r.bprev = NoJob
           q == [ReadRequest(Reaped(j), j) EXCEPT
                   !.job[j].modem = IF alone THEN @ ELSE NoModem]
           left == IF requeued THEN DelayJob(Unlist(q, j), j)
                   ELSE SetDead(DeleteRequest(q, j), j)
           hungup == Hangup(left, DestOf[j])
       IN \/ /\ alone
             /\ \E U \in Unblockable(hungup, DestOf[j], FALSE) :
                  faxq' = PrepareFinished(Poke(Unblock(hungup, DestOf[j], U)))
             /\ UNCHANGED loop
          \/ /\ r.bnext # NoJob
             /\ GoOn(left, r.bnext, First(left, r.bnext), DestOf[j])
          \/ /\ r.bnext = NoJob /\ r.bprev # NoJob
             /\ GoOn(left, NoJob, First(left, r.bprev), DestOf[j])

-----------------------------------------------------------------------------
(* The exit of a child that sent a batch *)

\* faxsend sends the jobs in order up to the one where it stops, and marks
\* the others to be retried.  That one is counted only if its call was made
\* and faxsend lived to write so: not if the modem did not get ready, its lock
\* could not be had, or a busy number is not to count.
Outcome(q, j, stop, why, counted) ==
  [k \in Jobs |->
     LET attempted == stop = NoJob \/ stop \in Batch(q, k)
     IN IF k \in Batch(q, j)
        THEN [q.job[k] EXCEPT
                !.status = IF k = stop THEN why ELSE IF attempted THEN "done" ELSE "retry",
                !.tries = IF attempted /\ (k = stop => counted) /\ @ < MaxTries
                          THEN @ + 1 ELSE @]
        ELSE q.job[k]]

\* sendJobDone(job, status).  If the first job failed, the jobs blocked on the
\* destination are delayed, to prevent turnaround redialing; if it was sent or
\* must be reformatted, the blocked jobs are released, one at least.
SendDone(j) ==
  /\ Idle /\ faxq.job[j].child \in {"send", "connected"}
  /\ LET d == DestOf[j] IN
     \E stop \in Batch(faxq, j) \cup {NoJob}, why \in {"failed", "retry"},
        counted \in {TRUE, ~Uncounted} :
       LET sent == [Reaped(j) EXCEPT !.job = Outcome(Reaped(j), j, stop, why, counted)]
           q == ReadRequest(ReleaseIfHeld(Hangup(sent, d), j), j)
       IN \/ stop = j /\ faxq' = DelayBlocked(q, d)
          \/ /\ stop = j => why = "retry"       \* send_reformat
             /\ \E U \in Unblockable(q, d, TRUE) : faxq' = Unblock(q, d, U)
  /\ pc' = "finish" /\ cur' = j
  /\ Reaping
  /\ UNCHANGED <<caller, head, todo, dest>>

\* sendJobDone(job, req), for each job of the batch in turn.
Finished(q, c) ==
  LET r == q.job[c]
      status == IF r.status # "done" /\ r.suspendPending THEN "retry" ELSE r.status
      retried == IF r.suspendPending THEN [q EXCEPT !.job[c].suspendPending = FALSE]
                                     ELSE Unlist(q, c)
  IN IF status = "retry" /\ (r.suspendPending \/ ~r.expired)
     THEN IF r.suspendPending
          THEN {[retried EXCEPT !.job[c].state = s] : s \in {"sleeping", "ready"}}
          ELSE {SetSleep(retried, c, "sleeping"), SetReadyToRun(retried, c)}
     ELSE {SetDead(DeleteRequest(
             [q EXCEPT !.job[c].state = IF status = "done" THEN "done" ELSE "failed"], c), c)}

FinishJob ==
  /\ pc = "finish" /\ faxq.fault = "none"
  /\ LET next == faxq.job[cur].bnext
         unbatched == [ReadRequest(faxq, cur) EXCEPT
                         !.job[cur].bnext = NoJob, !.job[cur].bprev = NoJob]
     IN /\ \E q \in Finished(unbatched, cur) :
             LET r == [q EXCEPT !.job[cur].status = "none"]
             IN faxq' = IF next = NoJob THEN Poke(r) ELSE r
        /\ cur' = next
        /\ pc' = IF next = NoJob THEN "idle" ELSE "finish"
  /\ UNCHANGED <<caller, head, todo, dest, frames, phase, commands>>

-----------------------------------------------------------------------------
(* Messages and timers about modems, and other users of the modems *)

\* A message of the faxgetty that watches m; R: ready, B: busy, D: down,
\* E: exempt.  Each stops the polling of the lock.
ModemMessage(m, msg) ==
  LET state == [R |-> "ready", B |-> "busy", D |-> "down", E |-> "exempt"]
      q == [faxq EXCEPT !.modem[m].state = state[msg], !.modem[m].poll = FALSE]
  IN /\ Input
     /\ msg \in ModemMessages
     /\ faxq' = IF msg \in {"R", "E"} THEN Poke(q) ELSE q
     /\ Handled

\* Mutant: the scheduler is not told.
LockPollQuietly(m) ==
  /\ Input
  /\ faxq.modem[m].poll
  /\ faxq' = IF faxq.modem[m].lock = "free"
             THEN [faxq EXCEPT !.modem[m] = [Released(@) EXCEPT !.poll = FALSE]]
             ELSE faxq
  /\ Handled

\* pollForModemLock: if the lock can be had it is given back at once.
LockPoll(m) ==
  /\ Input
  /\ faxq.modem[m].poll
  /\ faxq' = IF faxq.modem[m].lock = "free"
             THEN [Poke(faxq) EXCEPT !.modem[m] = [Released(@) EXCEPT !.poll = FALSE]]
             ELSE faxq
  /\ Handled

\* Another program takes or gives back the lock of m.
OtherLock(m) ==
  /\ OtherLockers /\ Idle
  /\ faxq.modem[m].lock # "faxq"
  /\ faxq' = [faxq EXCEPT !.modem[m].lock = IF @ = "free" THEN "other" ELSE "free"]
  /\ UNCHANGED <<loop, frames, phase, commands>>

\* faxsend reports that the call is connected: with no limit on the calls to
\* one destination, its blocked jobs are released.
CallConnected(j) ==
  /\ Input
  /\ faxq.job[j].child = "send"
  /\ LET q == [Connected(faxq, DestOf[j]) EXCEPT !.job[j].child = "connected"]
     IN IF MaxConcurrentCalls = 0
        THEN \E U \in Unblockable(q, DestOf[j], TRUE) : faxq' = Poke(Unblock(q, DestOf[j], U))
        ELSE faxq' = q
  /\ Handled

-----------------------------------------------------------------------------
Init ==
  /\ faxq = [job |-> [j \in Jobs |-> NewJob], di |-> [d \in Dests |-> NewDest],
             modem |-> [m \in Modems |->
                          [state |-> "ready", lock |-> "free", poll |-> FALSE]],
             numPrepares |-> 0, poked |-> TRUE,
             quit |-> FALSE, running |-> TRUE, fault |-> "none"]
  /\ pc = "idle" /\ caller = "scan" /\ cur = NoJob /\ head = NoJob
  /\ dest = NoDest /\ todo = {}
  /\ frames = <<>> /\ phase = "any" /\ commands = 0

\* What runs without anyone asking for it.
Work ==
  \/ RunScheduler \/ Close \/ EndScan \/ EndBatch \/ Resume
  \/ ProcessReady \/ ProcessReject \/ ProcessPrepare \/ ProcessForkFails
  \/ SendJobStart \/ SendForkFails \/ ProcessNothing \/ FinishJob
  \/ \E j \in Jobs :
       \/ TtsTimer(j) \/ VisitBatched(j) \/ VisitExhausted(j) \/ VisitBlocked(j) \/ VisitDelayed(j)
       \/ VisitNoModem(j) \/ VisitExempt(j) \/ VisitAssign(j) \/ VisitAssignBusy(j)
       \/ AddToBatch(j) \/ PrepareInterrupted(j) \/ PrepareDone(j)
       \/ PrepareFailed(j) \/ SendDone(j)
  \/ \E m \in Modems : LockPoll(m)

\* What clients, faxgettys, other programs and the calendar may do.
Environment ==
  \/ Quit
  \/ \E j \in Jobs :
       \/ Submit(j) \/ KillTimer(j) \/ CallConnected(j)
       \/ \E cmd \in Commands : Command(j, cmd) \/ CommandActive(j, cmd)
  \/ \E m \in Modems : OtherLock(m) \/ \E msg \in ModemMessages : ModemMessage(m, msg)

Next == Work \/ Environment

Spec == Init /\ [][Next]_vars
=============================================================================
