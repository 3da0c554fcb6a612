# A TLA+ verification of HylaFAX+

TLA+ models of the concurrent core of HylaFAX+, their TLC instances, and TLAPS
proofs. Everything is written from the code; paths below are relative to the
repository (`faxd/...` is `src/faxd/...`). `PROJECT.json` maps each definition
to the lines it stands for.

- [1. The system](#1-the-system)
- [2. The modules and the code](#2-the-modules-and-the-code)
- [3. The runs](#3-the-runs)
- [4. Fairness](#4-fairness)
- [5. Where the code disagrees with what it says](#5-where-the-code-disagrees-with-what-it-says)
- [6. The proofs](#6-the-proofs)
- [7. What is not modelled](#7-what-is-not-modelled)
- [8. Plan](#8-plan)

## 1. The system

HylaFAX+ is a set of processes on one host that share a spool directory, named
pipes (FIFOs), lock files and the modems.

```
 clients --TCP--> hfaxd --FIFO--> faxq --fork/exec--> faxsend --> modem
                    |  queue files  | ^                 |  FIFO "S", "d"
                    v   (flock)     v |  FIFO "+m:R"    v
                  sendq/, doneq/, docq/          UUCP lock files
                                      |                 ^
                                   faxgetty ------------+--> modem (inbound)
```

### faxq, the job scheduler (`faxd/faxQueueApp.c++`, `Job.c++`, `DestInfo.c++`, `Modem.c++`)

State: each `Job` is on one of several doubly linked lists (`runqs`, `sleepq`,
`suspendq`, `activeq`, `deadq`, the blocked list of its `DestInfo`) and may be
a link in a batch (`bprev`, `bnext`); a `DestInfo` per destination counts its
active jobs, calls and blocked jobs; each `Modem` has a state, a lock and a
polling timer; `numPrepares` counts preparations; timers for time-to-send and
kill time.

Operations: submit, suspend, interrupt, kill, quit, modem messages, scheduler
pass (`runScheduler`), batch building, `prepareJobStart`/`Done`,
`sendJobStart`/`Done`, unblock and delay of blocked jobs.

Interaction: hfaxd, faxgetty and faxsend write to its FIFO; it forks a child to
prepare a job and execs `faxsend` to send a batch; child status and queue files
come back; modem locks are files.

Hard: it is single threaded, but `suspendJob` runs the event loop again from
inside a handler to wait for a child, so any handler may run in the middle of
another one (and of a third); the same `Job&` is held across. Counters
(`callCount`, `blockedCount`, `numPrepares`) are kept by hand over a dozen
early returns. A batch shrinks while it is prepared. `fork` may fail at each
step. Kill timers fire at any moment. An open `FaxRequest` holds an `flock` and
a second open of the same file by faxq waits for itself.

Correct if: a modem serves one call; call counts are those of the calls under
way and stay within `MaxConcurrentCalls`; preparations stay within
`MaxConcurrentPreps`; no job is lost, stays blocked with nobody to wake it, or
runs after it was suspended; whoever can run is scheduled; each sender hears
once of the end of a job; every job ends; the process stops when told to and
not before its children are gone.

### Scheduler throttle (`SchedTimeout` in `faxQueueApp.c++`)

State: `started`, `pending`, `lastRun`, timers in the Dispatcher. Operations:
`start`, `timerExpired`. Hard: a poke may be dropped when a timer is known to
be there; pokes arrive from inside the pass; the clock may jump. Correct if no
poke is lost, pokes do not pile up, one pass a second.

### Dispatcher (`util/Dispatcher.c++`)

State: timer queue, ready masks, child queue. Operations: one round of
`dispatch` = `select`, input handlers, expired timers, exited children. Hard:
nested rounds; timers set in a handler; a child that exits before it is entered
in the child queue. Correct if each due timer and each exit is served once.

### UUCP modem locks (`faxd/UUCPLock.c++`)

State: the lock file, its pid and age; `locked` in each process. Operations:
`lock` (create, check for staleness, create again), `unlock`, `isNewer`,
`ownerExists`, `setOwner`. Hard: several processes run these file system calls
interleaved; owners die; pids are tested after the file was opened and the file
is unlinked by name. Correct if one process has the modem and a dead owner does
not hold it for ever.

### faxsend (`faxd/faxSendApp.c++`, `FaxSend.c++`, `FaxRequest.c++`)

State: the queue file (dial, try and page counters, status), the batch, the
lock of the modem. Operations: call, send documents, mark, retry or reject,
report to faxq. Hard: a batch with failures in the middle; counters across
restarts; SIGTERM (abort) at any point. Correct if counters never exceed the
limits, every job of the batch has a status at exit, pages sent are not resent.

### faxgetty and the modem server (`faxd/faxGettyApp.c++`, `ModemServer.c++`, `FaxServer.c++`)

State: `BASE, RUNNING, MODEMWAIT, LOCKWAIT, GETTYWAIT, SENDING, ANSWERING,
RECEIVING, LISTENING`; modem lock; config. Operations: state changes on timers,
modem data, locks taken by others, messages to faxq. Hard: faxq's view of the
modem lags; lock polling races with faxsend. Correct if faxq is told of every
change and the server is not stuck waiting for a lock that is free.

### Class 1 and Class 2 drivers (`faxd/Class1*.c++`, `Class2*.c++`, `HDLCFrame.c++`)

State: the T.30 phase, frame and block numbers (ECM), retry counts. Hard: lost
and corrupt frames, timeouts (T1, T2, T4), 256-block wraparound. Correct if
each page is confirmed at most once and in order and both ends finish.

### hfaxd (`hfaxd/*.c++`)

State: a session per client with its jobs, the FIFO to faxq and the reply FIFO,
shared file locks. Operations: job commands (`JSUBM`, `JSUSP`, `JKILL`, ...),
`sendQueuerACK`. Hard: answers matched to requests; a lost or late answer; a
queue file that faxq moves while hfaxd reads it. Correct if an OK means that
faxq has done it and jobs are written only while suspended.

### The rest

Queue files (`FaxRequest`, `FaxItem`); preparation and imaging; jobs through a
proxy server; triggers; job control and machine info; `pagesend`; `faxqclean`
with document reference counts; the SNPP server; client library and commands;
T.4 coding; NSF tables; SSL fax; containers, formatting, scripts and vendored
code. Each is a row of "components" in `PROJECT.json` with what is or is not
modelled. The hazards of the code, each at its line, are the rows of "hazards".

## 2. The modules and the code

| Module | What it is |
| --- | --- |
| `FaxQueue` | faxq's scheduler: state, one action per handler or loop turn |
| `FaxQueueProperties` | its type invariant, invariants, action and liveness properties, fairness |
| `FaxQueueProofs` | what each operator and loop does to the memory; types and preparations |
| `FaxQueueSingleProofs` | its theorems without batches: lists, links, locks, counts, reports |
| `FaxQueueWakeupProofs` | no wakeup of its scheduler is lost, and no blocked job is left without one that will release it |
| `SchedTimeout`, `SchedTimeoutProofs` | the throttle and the timers behind it, with a clock; its theorems |
| `UUCPLock`, `UUCPLockProofs` | processes that lock one modem, a file system call a step; its theorem |
| `Device`, `DeviceProofs` | one modem between faxgetty, login sessions, faxq, faxsend and other programs; its theorem |
| `FaxSend`, `FaxSendProofs` | faxsend: the jobs of a call, the queue files, and what faxq makes of them; its theorems |
| `T30Line`, `Class1Send`, `Class1Recv` | the line between two stations, the sender, the receiver |
| `FaxCall` | the three joined: a fax call, and who may give up when |
| `PageTransfer` | what a call promises to faxsend; `FaxCall` implements it, `FaxSend` uses it |
| `JobService`, `JobServiceProofs` | hfaxd's job commands with faxq at the other end of the FIFOs; its theorems |
| `MC...` | instances for TLC, with one cfg per run |

How they fit together:

```
 JobService --requests, queue files--> FaxQueue --batch--> FaxSend --pages--> PageTransfer
                                        |    |                                    ^ implements
                            poked means |    | lock of a modem                 FaxCall
                                        v    v                              (Class1Send, T30Line,
                               SchedTimeout  UUCPLock, Device                 Class1Recv)
```

A module takes its neighbours at what the other module shows of them: `FaxQueue`
takes `poked` for a promise of a pass (`PokeNotLost`), a lock for something that
is had or not (`ExclusiveUntilDeath`, `OneUser`), and the outcome of a batch for
what `BatchOutcome` of `FaxSend` says. `FaxSend` takes a call as a
`PageTransfer`. `JobService` reduces faxq to the part a client can tell.

Definitions whose comment begins with "Mutant:" are broken variants of the
definition below them. No action uses them; they record what each property
would catch.

### FaxQueue

All the memory of the process is one record, `faxq`, and the helpers of the
code (`setDead`, `releaseModem`, `unblockDestJobs`, ...) are operators from
records to records, so that a handler is their composition in the order of the
code.

| State | Code |
| --- | --- |
| `faxq.job[j].on` | the list the `Job` is on; `absent`: no `Job`; `none`: on no list |
| `.state`, `.modem`, `.bprev`, `.bnext`, `.suspendPending`, `.pid` | fields of `Job` |
| `.qlock` | a `FaxRequest` (`breq`) of the job is open, so the queue file is locked |
| `.qfile` | `sendq/` or `doneq/` |
| `.tts`, `.kill`, `.expired` | running timers; `killtime == 0` |
| `.child` | its child: `prepare`, `send` (dialing) or `connected` |
| `.status`, `.tries` | `req->status`, `req->tottries` as faxsend leaves them |
| `.notices` | calls of `deleteRequest`, that is final notices to the sender |
| `faxq.di[d]` | `DestInfo`: active jobs, `callCount`, `blockedCount`, `pendingConnection` |
| `faxq.modem[m]` | `Modem`: state, who has the lock file, lock polling timer |
| `faxq.numPrepares`, `.quit` | the fields of `faxQueueApp` |
| `faxq.poked` | a scheduler pass is asked for: `wanted` of `SchedTimeout` |
| `faxq.fault` | the process has failed an `fxAssert`, waits for its own `flock`, would signal itself, or reads a deleted `Job` |
| `frames` | the calls of `suspendJob` that wait in `Dispatcher::dispatch`, innermost last |
| `phase` | `reap`: the current round is past its input and serves exited children |
| `pc`, `cur`, `head`, `todo`, `caller`, `dest` | the loop that is running and its local variables |

A handler is one action (`Submit`, `Command`, `TtsTimer`, `KillTimer`,
`ModemMessage`, `LockPoll`, `CallConnected`, `PrepareDone`, `PrepareFailed`,
`PrepareInterrupted`, `SendDone`). The loops over jobs take a step per turn:

- `RunScheduler` starts a pass; `VisitExhausted`, `VisitBlocked`,
  `VisitDelayed`, `VisitNoModem`, `VisitExempt`, `VisitAssign`,
  `VisitAssignBusy` are the ways through the body of its loop; `EndScan` ends it
  and reaps `deadq`; `Close` is the pass of a process that is quitting.
- `AddToBatch`/`EndBatch` collect further jobs for a call, from the run,
  sleep and blocked lists. The iterator of the pass has already fetched its next job;
  what it steps over or holds on to when that job, or one near it, joins is
  `Passing`, and `VisitBatched` is the branch of a pass that comes upon a member.
- `ProcessReady`, `ProcessReject`, `ProcessPrepare`, `ProcessForkFails`,
  `ProcessNothing`, `SendJobStart`, `SendForkFails` are the turns of
  `processJob`.
- `FinishJob` is a turn of the loop at the end of `sendJobDone`.

No other handler runs during a loop, as in the code. The exception is the
code's own: `CommandActive` pushes a frame, and every handler may run until
`Resume` finds that the child has answered and pops it. `Input` and `Reaping`
encode the order of a Dispatcher round, so that only interleavings the event
loop can produce occur.

What faxsend did is a choice in `Outcome`: it went through the batch and stopped
at some job for some reason, or at none. With `Uncounted` it may have left the
counters of that job alone, as it does when its modem never gets ready
(`faxSendApp.c++:570`), its lock is not had (`FaxSend.c++:118`), the line is busy under `-B`
(426), or it dies.

Abstractions: jobs of a destination are interchangeable within a pass (`todo`
is a set, so a pass may visit them in any order; priorities and submission
order are left out); time-to-send and kill times are timers that may expire at
any moment; `setReadyToRun` is taken at its branch without a job control
script; a queue file is always there and readable; the `DestInfo` table always
has an entry, and a purged one is an empty one. A fault stops the model, since
nothing the code does after it means anything.

### SchedTimeout

Time is a second and a tick within it. `Start(s)` is `start`, in its three
branches (`StartNow`, `StartAgain`, nothing); `TimerExpired` and `PassEnds` are
`timerExpired` up to and after `runScheduler`, so that `Start` also occurs
inside a pass; `Tick` lets time pass at any point, so timers are served late;
`SetBack` turns the clock back, and `jumped` remembers it.

### UUCPLock

Each process runs `Lock`, `CheckOpen`, `CheckNewer`, `CheckOwner`, `Purge`,
`CreateAgain`, `Unlock`: one `link`, `open`, `stat`, `kill` or `unlink` each.
`opened` is the descriptor that `check` has opened and keeps, `file` what the
name leads to, and the difference between them is what the module is about.
`Die` ends a process with or without the lock, and `died` remembers it; `Age`
makes the file older than the timeout.

### Device

`getty` is faxgetty: `life` (running, told to quit, gone), the state of
`ModemServer`, whether it has a modem object and the lock, its two timers (its
state's, and the ten seconds between rings), the count of setup attempts, and
`at`, what its one thread is doing. Only in its dispatch loop, and in a call
(`abortRequested` polls the Dispatcher), does it take messages. `faxq` has what
faxq knows of the modem and the job that uses it; the two FIFOs are queues.
`lock` is the owner in the lock file: `dead` when that process has ended, and
`stale` when the file has also passed the timeout.

| Action | Code |
| --- | --- |
| `Open`, `SetupModem`, `TimerExpired` | `ModemServer::open`, `setupModem` and the change of state after it, `timerExpired` |
| `ModemInput`, `ListenForRing`, `RingsCease` | `inputReady`, `listenBegin`, `listenForRing`, the timer `answerHandler` |
| `ReceiveFax`, `EndCall`, `NullModem`, `AnswerCleanup` | `answerPhone` to its end, and without a modem object; `answerCleanup` |
| `RunGetty`, `LoginLocks`, `LoginEnds`, `SetOwner` | `runGetty`: lock handed over or given up, the session, the lock taken back |
| `FIFOMessage`, `Signal`, `Exit` | `A`, `L`, `Q`, `H`; SIGTERM; the end of `main` |
| `ModemMessage`, `AssignModem`, `PollForModemLock`, `ReleaseModem` | `FIFOModemMessage`, `assignModem`, `pollForModemLock`, `Modem::release` |

`MaxAttempts` is `MaxSetupAttempts`. `Budget` bounds the events from outside:
calls, jobs, commands, faults of the modem, failed forks, other programs,
restarts of faxq. `robbed` remembers that a lock was purged after a login
session had ended and before `setOwner` took it back, the race that the comment
in `runGetty` describes.

### FaxSend

`qfile` are the queue files, `state` what faxq has made of the jobs, `fs` the
memory of the one faxsend: where it is (`pc`), its batch, the request it works
on, page, lock and connection. `Start` and `Reject` are faxq's part, the others
follow `faxSendApp::send` and `FaxServer::sendFax` for one job after the other:
`ReadQFile`, `Dial` or `DialFails`, `Prologue`, `OpenDocument`, `PageConfirmed`,
`DocumentSent`, `PhaseBFails`, `NoMoreDocuments`, and `Finish` writes the queue
file and hangs up when the batch is over. `NotReady` is a faxsend whose modem never gets
ready, and `CannotLock` one that does not get its lock. `DialFails` takes each kind of failed call,
with `NoFailBusy` for the option `-B`, and `Blocked` is a job after a failed one in
its batch, which shares a failure of the call (`callFailed`) if
`ShareCallFailures` (`Share`) says so. `Crash` ends it at any point, and
`SendJobDone` is what faxq makes of the queue files. A child writes the queue file
after each page; a slow one is in `writers`. Two variables are histories: `got`
counts how often the other side has confirmed each page, `made` the calls
really made for each job and those that were answered, whatever
becomes of their counts in the queue file.

### T30Line, Class1Send, Class1Recv, FaxCall, PageTransfer

T.30 is half duplex: `line` is the one signal being sent. A signal is a frame on
the slow carrier, with or without a message on the fast one before it, whose
image is a set of units (page, block, frame). Noise is a choice of the
listener: it misses the carrier, some units, or the frame, `MaxFaults` times in
a call. `tx.pc` and `rx.pc` name the place in the code where a station waits;
an action takes an answer, or the lack of one, and ends with the next signal.
`tx.counted` is `npages`, `rx` has the page and block being received and
`saved` the pages written to documents.

Who may lose patience when is in `FaxCall` and comes from the timers: T4 of the
sender is shorter than any wait of the receiver, so a receiver's T2 runs out
only after a signal has been lost or when the sender has stopped; T1 of the sender ends a
call without an answer. Batches (`next`), retraining, fallback of the rate,
RTN with the settings of `RTNHandlingMethod`, ECM with PPR, CTC, EOR and RNR,
and `BadPageHandlingMethod` are included.

`Transfer` maps a call to `PageTransfer`: counted pages, pages given up after
RTN, the pages that the receiver's documents hold in full, and the result.

### JobService

One hfaxd process per session. `task` is the stack of handlers under way,
because a handler that waits for faxq's answer dispatches input (and urgent
data) in a nested loop. `mem` and `newer` are the session's copies of jobs and
whether the file has a later time stamp, in whole seconds: a write in the second
of the last look goes unnoticed (`Noticed`). `locker` is the `flock` of a queue file, for which
a session does not wait (the default `locktimeout`, 0), so that it may have to go on with the
copy it has (`Stale`); `waitfifo`, `response` and `inbox` are the conversation with faxq; `spec`
and `tid` the trigger of a JWAIT. `stage`, `waits` and `triggers` are faxq,
whose own actions (`StartJob`, `EndJob`, `FIFOMessage`, `SuspendReturns`,
`Restart`) are the part of `FaxQueue` that a client can tell, with the trigger
table added. `confirmed` and `strayed` are histories. `strayed` remembers that
a wait was called off while its request was out (`"calledOff"`: urgent
data, the HELLO of a restarted faxq, or a jump out of a JWAIT that loads its trigger anew), and that a
session has taken an old copy of a job for its file (`"missed"`: the two are of one second, or
the newer file is locked).

## 3. The runs

Twelve runs, each of five minutes at most. Eleven pass:

| Run | Bounds | Question |
| --- | --- | --- |
| `core` | 3 jobs (2 of one destination), 2 modems of which one is for `j1`, which ignores a busy modem, 2 tries, 1 call per destination, 1 preparation, modems that fail | call counts and limits; preparation slots; nobody is left blocked; one final notice |
| `batch` | 3 jobs of one destination, batches of 2, 2 tries, jobs with and without preparation | no fault of the process; modems and sleepers in order as batches grow and shrink |
| `commands` | as `core` with 1 try, all jobs prepared, and 2 client commands (suspend, kill) and quit at any point | lists and locks used once; suspended jobs inert; sent jobs stay sent; quit waits for children |
| `failures` | 2 jobs, 2 modems, no limit of calls, failed forks, rejects, refusals, rereads, kill times, faxgetty messages, foreign locks | types (no count below zero); exclusive modems; no job lost; a freed modem brings a pass |
| `ending` | 2 jobs, 1 modem, 1 try, 1 command (suspend, interrupt, kill), quit; fairness | blocked jobs are released, and jobs end if clients let them and uncounted calls do not recur for ever; clients get answers; quit ends faxq |
| `timers` | 5 seconds of 3 ticks, delays 0 and 1, the clock set back at any point | no lost poke; `pending` stands for a timer |
| `locks` | 3 processes, lock timeout, exits and crashes; fairness | exclusion until a process dies; a dead owner's lock is removed |
| `device` | 1 modem, 4 events from outside, login locks kept or not, external sessions with the lock, faxgetty gives up after the second setup in a row that fails; fairness | faxgetty and faxsend never use the modem at once; afterwards faxgetty is ready, faxq knows it, the lock is free |
| `call` | 3 pages in a batch of 2 jobs, with and without ECM, 2 configurations, 2 rates, 4 faults, 2 frames to a block, one RNR, abort; fairness | pages complete, in order and once; both ends hang up; the call implements `PageTransfer` |
| `faxsend` | 2 jobs with 2 documents and 1, batches of 2, 3 dials, 2 tries, `-B`, call failures not shared, one of abort, crash, slow child, vanished document, refused format; fairness | no page twice or never; the outcome of a batch; the limits of the calls really made; every job ends unless uncounted calls recur for ever |
| `jobs` | 1 session, 1 job, all job commands and urgent data, locked files, whole seconds, 2 calls, 1 change, 1 restart of faxq; fairness | what was confirmed stays with faxq; hfaxd writes only to inert jobs; nothing is sent again; requests and JWAITs end |

One ends with a counterexample, which is a finding (section 5): `null_block`, a
call with a page of two blocks.

Why the bounds are enough to be interesting. Three jobs are the least for a
batch with a first, a last and a job outside it, or for two jobs blocked by a
third. Two destinations and two modems let a call to one destination go on
while another waits. Two tries make a retry and a final failure. Two commands
are the least for nested waits, and each may hit any job at any point; one is
enough for a wait to end. In `SchedTimeout` three ticks give a beginning, middle
and end of a second, and five seconds are more than the longest chain of a
pass, its successor and a poke. Three processes are two that race for the lock
of a third; a process that dies is replaced, so there is no bound on how many
have lived. Four events at `Device` are a call with a session, a job, another program
and a command on top of each other, or two faults that make faxgetty give up and two
more. Four faults in a call are one more than the repeats of a command, so that
a command may be given up, and three pages have one in the middle. Three dials
against two tries let either limit be reached first; failures shared by a batch, which
would count for a job without bound, are in `LimitsAreKept` only. The bounds called so in the
modules (`MaxCommands`, `MaxSeconds`, `MaxFaults`, `MaxRev`, `MaxRestarts`,
`Budget`, `FlowLimit`, `Idents`, `MaxSlow`) are not in the code.

In `jobs` times are whole seconds and hfaxd does not wait for the lock of a queue
file, as in the code. The safety properties hold of a behaviour until the session strays, that is
until it acts on an old copy or a wait was called off; after that they
are false (section 5). To bound the run, urgent data comes once and before that, and a
session that has strayed sends no further command but JKILL. With one session the run does not tell
whether answers reach the right one of several clients.

Together the passing runs take every action of every module. Where a
behaviour breaks a property (section 5) the passing runs for that property
leave it out, and it is switched on in a run for others: failed forks and kill
times in `failures` but not where call counts are checked, a job that ignores
busy modems in `core` but not where modems are. Calls that are not counted are
in all runs of `FaxQueue` but `failures`, where they would only add states.

`CHECK_DEADLOCK FALSE` is in the cfgs of `FaxQueue`: the process stops on quit
or on a fault, and a faxq whose jobs are all done waits for messages the bounds
no longer allow; and in that of `JobService`, where nothing need happen when the
client is gone. Symmetry is used for jobs of one destination and for
modems, never in a run with a liveness property. `DoneIsDone` is a property of
single steps, the same under every renaming.

## 4. Fairness

`FairSpec` of `FaxQueueProperties`:

- weak fairness for the loops (`pc # "idle" /\ Work`) and for `Resume`: code
  that runs goes on running;
- strong fairness for the scheduler's timer, `Close`, each time-to-send timer
  and each child's exit. Every round of `Dispatcher::dispatch` serves all
  expired timers and reaps all exited children, and faxsend and the preparer
  end (they have their own timeouts, and faxq sends SIGTERM when asked to).
  These actions are disabled while another handler or a nested wait is under
  way, so weak fairness would allow them to be postponed for ever by a stream
  of handlers, which the loop of rounds does not.
- nothing is assumed of clients, faxgetty, foreign lockers, kill times or the
  outcome of a call. A call that is not counted brings a job no nearer to its
  end, and the code has no limit for such calls (section 5), so `EachJobEnds` speaks of
  behaviours in which they do not recur for ever (`UncountedRetry`).

`BlockedReleased` and `EachJobEnds` are about behaviours without commands
(`Undisturbed`): a suspended job waits for its client for ever, and a command can
leave other jobs blocked (section 5). `WaitEnds` and `QuitCompletes`, in the
same run, are about the others. `EachJobEnds` is checked with preparation
switched off: a job that needs preparation may be put off by
`MaxConcurrentPreps` without limit, and the code has no bound for it.

`UUCPLock`: a process keeps trying (`WF(Attempt)`, as faxq polls the
lock and faxgetty waits for it) and time passes (`WF(Age)`).

`Device`: each process goes on, calls and sessions end, another program ends,
init starts faxgetty again (the installation runs it from inittab or systemd),
and dead locks pass the timeout. Rings, jobs, commands and faults need not come.

`FaxCall`: a signal on the line is heard or missed, and a station that waits
runs into its timer. `FaxSend`: faxsend goes on (a call ends, by `CallEnds`),
slow children finish, faxq starts or rejects jobs, and a modem that can be
locked again and again is locked at last (`SF(ReadQFile)`). `JobsEnd` makes the
same exception: calls that end in `CannotLock`, `NotReady` or, under `-B`, a busy line
(`Uncounted`) may recur for ever, and then a job need not end. `JobService`: each
process goes on serving what it has been sent; the client need not send anything, and
need not let a suspended job go.

## 5. Where the code disagrees with what it says

`null_block` is the finding that a run ends with; `PROJECT.json` quotes the
comment it contradicts. When a PPS comes without data and its count means none,
the receiver leaves the last frame of the block out of its check and answers MCF;
the comment excepts PPS-NULL, which is `getFCF2() == 0`, and the code tests
`ppsframe.getFCF() == 0` (`Class1Recv.c++:2403`), which is never so. The sender has been
asked for the last frame of the first block, sends it again, and it is lost: the block is
confirmed without it, and the page goes on with a hole in its middle.

Further ones come out of a change to the configuration of a passing run. They
are why the passing runs leave those combinations out.

| In | Change | Violates | What happens |
| --- | --- | --- | --- |
| `core` | `Commands = {"X"}`, `MaxCommands = 1` | `BlockedHasWaker`, `CallsAccounted` | the job that was unblocked for the free call is suspended before it is called, and the others stay blocked (`faxQueueApp.c++:2272`); one suspended during preparation does not give its call back (445) |
| `core` | all jobs of one destination and `IgnoreModemBusy = {j1}`, or `"reject"` in `PrepOutcomes` | `BlockedHasWaker` | the job that was released for the free call is rejected, because its modem is exempt from faxing (3376) or by its preparation, and the rejection (2332) releases nobody; where a job goes to a proxy the code thinks of it (3242, "this job may be blocking others") |
| `batch` | | `CallLimit`, `CallsAccounted` | a first job that fails to be prepared purges the destination with its call count, and a second call is made (2679) |
| `batch` | `"reject"` in `PrepOutcomes` | `AssertsHold` | the iterator of a pass holds on to a job that has joined a batch (`faxQueueApp.c++:3322`, `Job.h:184`); if the first of the batch is rejected, its link back is gone (`Job.c++:119`), the test for members (3118) does not see it, and "Job on run queue holding modem" (3126) ends faxq |
| `batch` | `Dests = {d1, d2}`, `DestOf <- TwoDests`, no symmetry | `RunnableIsScheduled` | a job of another destination that stands between two jobs of a batch is stepped over by the pass (3322), and nobody pokes the scheduler |
| `commands` | | `NoFault` | nested waits: a scheduler pass deletes a job that an outer `suspendJob` still reads (2238) |
| `commands` | `KillTimers = TRUE` | `DoneIsDone` | the kill timer of a job that was sent runs on until it is reaped and turns it into a failed one (2460) |
| `core` | `KillTimers = TRUE` | `CallsAccounted`, `AtMostOneFinal` | the kill time of a blocked job leaves it counted (2461; `suspendJob` does it right, 2262); that of a job on `deadq` reports its end again |
| `batch` | `KillTimers = TRUE` | `NoFault` | the kill time of a job in a batch opens a queue file that faxq has locked, which `timeoutJob` warns of (2464, 2478) |
| `core` | `ConfigRereads = TRUE`, `MaxConcurrentCalls = 2` | `PrepLimit` | rereading the configuration zeroes the count of preparations (4049) |
| `core` | `ForkMayFail = TRUE` | `CallsAccounted` | a failed fork of faxsend leaves its call counted (1623) |
| `batch` | `ForkMayFail = TRUE` | `NoStranded`, `ModemAccounted` | a failed fork in the middle of a batch forgets the jobs before it, and one at its start the modem of the others (317) |
| `core` | | `ModemExclusive`, `ModemAccounted` | a job that ignores busy modems is given one that is in a call, and gives back its lock (`Modem.c++:278`) |
| `timers` | `PokeNotLost` without `~jumped` | `PokeNotLost` | the clock is set back, `lastRun` lies in the future and pokes are dropped until the clock has caught up (98) |
| `locks` | | `MutualExclusion` | a lock is judged by descriptor and removed by name, so the next owner's lock is removed (`UUCPLock.c++:301`) |
| `device` | `KeepExtern = {FALSE}` | `OneUser` | after an external session without the lock faxgetty goes on with the call and does not take the lock again (`faxGettyApp.c++:764`) |
| `call` | `Doc <- NewFormat`, `BlockCount = 2`, `FrameCount = 1` | `NullBlocksWhole`, `TransferSpec` | before a change of format the sender leaves out the last block of the page (`Class1Send.c++:2689`), and the page counts |
| `call` | `Doc <- TwoAlike` | `TransferSpec` | a page is confirmed unseen when its carrier is missed and its message is that of the page before, unless nine seconds were heard to pass; the code calls this "extremely remote" (`Class1Recv.c++:1532`) |
| `faxsend` | `DoneMeansSent` without its condition | `DoneMeansSent` | a document that cannot be opened after another was sent is taken for delivered (`FaxSend.c++:611`, then 395); a status of done, which is that of a confirmed page (`FaxSendStatus.h:40`), is in the queue file when faxsend crashes |
| `jobs` | properties with `"calledOff" \notin strayed` for `strayed = {}` | `TouchesOnlyInert`, `NoSecondSending` | copies are compared by whole seconds (`Jobs.c++:379`), and one that cannot be read again because the file is locked is used as it is (380): JDELE deletes a job that was queued in the same second, against hfaxd(1M), which has it that only done or suspended jobs are deleted; JSUBM writes the file of a job that has ended, and it is sent again |
| `faxsend` | `JobsEnd` as `<>[](Ready = {})` | `JobsEnd` | a call that is not counted is retried without end: no lock (`FaxSend.c++:118`), busy under `-B` (426), a modem that never gets ready (`faxSendApp.c++:570`) |
| `ending` | `EachJobEnds` without `UncountedRetry` | `EachJobEnds` | the same, seen by faxq |

Read in the code while it was modelled, and left out of the models or of the
properties where that is said:

- *T.30.* After EOM the receiver counts blocks from the start, so a repeated PPS
  is answered by PPR and the block is stored twice, against the comment at
  `Class1Recv.c++:2443`; page numbers roll over at 256 and a repeat of page 256 is
  taken for a new page; a receiver that has confirmed EOM is deaf until T2, so
  that a lost MCF makes a duplicate; a lost ERR after EOR-EOP meets a receiver
  that answers with DCN; RNR is "repeated 3 times" but tried twice; `v17fail` may
  be the result of a call that delivered everything. A page whose confirmation is lost twice is
  rejected after nine seconds and stored beside its first copy.
- *faxsend.* A child that writes the queue file waits for the child before it, which is
  not its own child (`FaxSend.c++:1139`), and the last write does not wait, so a slow child
  may overwrite the final queue file. A reformat puts all documents back to their
  first page (`faxQueueApp.c++:1757`), sent ones too. An abort after the last page
  makes a retry of a job that was sent (`FaxSend.c++:466`). Limits are tested by equality
  (470, 473) and for the first job of a batch only (`faxQueueApp.c++:3170`).
- *faxq.* `fxAssert(cjob->tts <= Sys::now())` (`faxQueueApp.c++:3314`) fails for a job
  that became runnable before the clock was set back. A failed fork of a preparation
  (313) does not give its slot back, so that with one slot nothing is prepared until
  the configuration is reread; `RunnableIsScheduled` excuses jobs that wait for a slot.
- *hfaxd.* Answers carry no job number: after urgent data (`InetFaxServer.c++:392`)
  or the HELLO of a restarted faxq (`FIFO.c++:195`) the late answer is taken for that of the
  next request with the same letter. JDELE keeps the `flock` while it waits for
  faxq, which may be waiting for that lock (`Jobs.c++:1560`, `faxQueueApp.c++:3515`). A failed
  `newTrigger` leaves the old trigger number, and cancels another session's
  trigger. The end of a session deletes the files of its unsubmitted jobs also when another
  session has submitted them (`Login.c++:660`). `findJob` evicts an arbitrary job
  of ten, which may be the current one (`Jobs.c++:1346`). Pipelined commands share
  one response. Urgent data in a JWAIT that loads its trigger anew for a restarted faxq
  jumps out of it with `S_WAITFIFO` still set (`InetFaxServer.c++:391-411`).
- *faxgetty.* `faxanswer` in LOCKWAIT or MODEMWAIT answers without a modem object
  and the process ends with a fault (`faxGettyApp.c++:276`, against "this can come in
  when we are in many different states", 260); `NullModem` and `init` restore it. `L` during a call deletes the modem
  object in use. `Q` during a call tells faxq that the modem is down and, when the call
  ends, that it is ready. SIGTERM during a call leaves the lock file to its timeout. A failed
  fork of a session without the lock hangs up without it. `faxApp::close` closes the
  FIFO and keeps its number, so the next message is lost (`faxApp.c++:91`). If faxq dies
  during a call its lock goes stale while faxsend still has the modem.

## 6. The proofs

TLC checks each formula, and each inductive invariant, on an instance; TLAPS
proves it for all values of the constants within the named assumptions
(`Constants`, `SchedConstants`, `LockConstants`, `SendAssumptions`,
`DeviceAssumption`, `ServiceAssumption`: sets are finite where the code counts
them, limits are numbers) and the hypotheses of the theorem. With them every
safety property of the passing runs is a theorem, but `SavedInOrder` of the T.30
call. Where a hypothesis excludes a behaviour of the code, section 5 has what
goes wrong with it.

### FaxQueue: types and preparations

The first part of `FaxQueueProofs` has one lemma for each operator of the queue,
in terms of `Keeps(p, q)`: `q` is a memory with the same preparations and the
same preparing children as `p`.

- **`Typed`**: `Spec => []TypeOK`. The content is that every decrement is guarded
  (no count leaves `Nat`), that links lead to jobs, and that every composition of
  the operators, including the chain walked by a batch, gives a memory again.
  The invariant is `TypeOK /\ CursorOK`: a loop over a batch has a job to work
  on, without which the next state of `faxq.job[cur]` has no type.
- **`PreparationsLimited`**: `Spec => []PrepLimit` if `~ConfigRereads`. `PrepLimit`
  alone is not inductive, as it says nothing about the counter that guards it.
  `SlotsAccounted` does: each preparing child has a slot in `numPrepares`, one
  more is held while `prepareJobDone` continues its batch, and whoever enters
  `processJob` has found a slot free.

### FaxQueue: jobs, modems, calls

These twelve theorems are about `MaxBatchJobs = 1`, one job in a call, which is a
setting of the configuration and not the default (64, `faxQueueApp.c++:4017`);
batches rest on the run `batch`. All but `CallsAreAccounted` are about behaviours
with `[]OneWait` (`Len(frames) <= 1`): no request has to wait for a child while
another one does, which the nested event loop of `suspendJob` would allow, and
which leads to a use of a deleted job. Suspends and kills of jobs with a
subprocess, and every handler that runs while they wait, are included. Without
suspends and kills nobody waits (`NoneWaits`), so `CallsAreAccounted` needs no
such hypothesis.

| Theorem | Property | Further hypotheses |
| --- | --- | --- |
| `ModemsAreExclusive` | `ModemExclusive` | no job ignores a busy modem |
| `LocksAreAccounted` | `ModemAccounted` | the same |
| `AssertionsHold` | `AssertsHold` | |
| `NothingFaults` | `NoFault` | no job is rejected by its preparation |
| `CallsAreLimited` | `CallLimit` | |
| `CallsAreAccounted` | `CallsAccounted` | no suspend or kill, kill time or failed fork |
| `NoneIsStranded` | `NoStranded` | |
| `SuspendedIsInert` | `SuspendedInert` | |
| `SleepersAreTimed` | `SleeperHasTimer` | |
| `QuitHasWaited` | `QuitWaits` | |
| `OneFinalNotice` | `AtMostOneFinal` | no kill time passes |
| `DoneStaysDone` | `DoneIsDone` | no kill time passes |

None of these is inductive: each speaks of the moments between two handlers, and
each handler keeps it because of what the others do. One invariant serves all,
`Shape` (end of `FaxQueueProofs`):

- `Phases`: a job rests on a list, or is busy with a subprocess, or was left by it
  for a request that waits, or is the one job the handler under way has in hand.
  To a phase belong the list, the state, timers, modem, and queue file lock;
- `Loops`: what a loop has in hand, and that a pass visits runnable jobs only;
- `Waits`: a job with `suspendPending` is that of the waiting request, and while the
  request waits for its turn the job has been left to it, or is dead;
- `Members`: who has a modem is one of the active jobs of its destination;
- `LocksHeld`: the locks of faxq are those of its jobs' modems, one each;
- `CallCounts`: the calls of a destination are counted at least once, and exactly
  where nothing takes a job from its call; `processJob` has one more to hang up when
  its job has gone (`Slack`). The count may run ahead of the calls, never behind:
  that is why `CallLimit` survives what breaks `CallsAccounted`;
- `BlockedCounts`, `Reports`: the blocked count, and the notices of each job.

Nearly every handler is a step about one job, those it wakes and one destination
(`Effect`). `StepShape` says once what such a step has to keep; a lemma for each
action (`FaxQueueSingleProofs`) shows that it does.

### FaxQueue: wakeups

`FaxQueueWakeupProofs`, again with one job in a call.

- **`RunnablesAreScheduled`**: `Spec => []RunnableIsScheduled`, with requests in any
  number nested, kill times, failed forks, rereads and other programs that lock
  modems. The invariant is `Scheduled`. A job that wants to run and has a ready modem
  is still in `todo` while a pass is under way, and between handlers it is held back
  by the limit of preparations or calls, unless the scheduler was poked. The lock
  of the modem is not looked at: other programs give it back without telling
  faxq, which is why a modem found locked is made BUSY and polled, and no longer
  counts as ready. A job that waits for a preparation slot counts as held back, also when a
  failed fork has leaked the slot (`faxQueueApp.c++:313`). The step to see is every place that puts a job on `runqs`, makes
  a modem ready, or lowers a count: it also pokes.
- **`BlockedAreServed`**: `Spec => []BlockedHasWaker` under `Placid` (nothing of what
  section 5 shows to leave jobs blocked: suspends and kills, kill times, failed
  forks, rejections by preparation, exempt modems). The invariant is `Served`: a
  blocked job has tries left, and some job to its destination is in a call, or is on
  the run or sleep queue with tries left. The tries matter: a woken job becomes the
  one the others wait for, and a job out of tries is rejected by the
  scheduler, which releases nobody. `prepareJobDone` releases nobody either when the limit
  of calls is still reached, and that is right because `CallsAreAccounted` has the
  count equal to the calls: another call is under way.

### The other modules

- **`PokesServed`** (`SchedTimeoutProofs`): `Spec => [](TypeOK /\ PokeNotLost)`, and
  **`PendingStands`**: `Spec => []PendingTimer`. In the invariant `IInv` the flag
  `pending` always stands for a timer, until the clock is set back so does a
  `lastRun` that lies ahead (`TimerAhead`), and no timer is more than two seconds
  away (`TimersSoon`). `start` drops a poke on the strength of one of the two, so
  that both have to mean a timer. It holds for any length of the second, any number
  of pokes and any lateness.
- **`Exclusive`** (`UUCPLockProofs`): `Spec => []ExclusiveUntilDeath` for any
  number of processes, with or without a lock timeout. `IInv` says who has the
  lock owns the file (`LockIsMine`, without which the owner of the file could
  change under the holder) and no process is ever on the way to `unlink`
  another's lock (`NothingPurged`).
- **`DeviceExclusive`** (`DeviceProofs`): `Spec => []OneUser` if `FALSE \notin
  KeepExtern`, that is external sessions give the lock back to faxgetty
  (`faxGettyApp.c++:764`). `OneUser` says nothing of what faxgetty believes, and that
  is what its steps depend on: `Places` has where it takes itself to have the lock,
  and `Named` that the lock file then names it, or the session it has lent the lock to,
  or what that session left behind. The theorem holds for any budget of outside
  events and any number of setup attempts.
- **`LimitsAreKept`**, **`BatchComesOut`**, **`PagesAreAccounted`**,
  **`DoneJobsAreSent`**, **`SendTyped`** (`FaxSendProofs`), for any jobs, documents and
  limits, with or without `-B` and with call failures shared or not. The properties name the faults they allow. `Base` ties the batch, the
  queue files and the slow writers to the job in hand. `LimitsKept` is about the
  calls really made, whatever is written of them. `Limits` says it of the counts: with the
  limits, that a job waiting for a retry is below them and what a slow child
  will write is within them. `Calls` then says that what was made is
  nowhere more than what is counted, in the queue file of a job at rest, in memory
  while its call goes on, and in what a slow child will write, but for the one call a crash
  has interrupted. If failures are shared, calls of others may be counted for a job past its
  limit of dials, so `Dials` adds that the job a call is made for, the first of its
  batch, was below the limit when the batch was made and is so until it is dialed. `Line` and `Prefix` say that the batch is sent up to some
  job all the time and not only at the end. `Sendings` accounts for the pages
  with the request in memory while its job is in a call, and the queue file
  otherwise. All actions that end a job are one kind of step (`Ending`).
- **`SubmissionsAreKept`**, **`SentOnce`**, **`InertTouched`** (`JobServiceProofs`):
  `ConfirmedKept`, `NoSecondSending` and `TouchesOnlyInert` for any number of
  sessions, jobs, changes and restarts, with locked files and whole seconds. They hold until a session
  has taken an old copy for its file or a wait was called off, as the
  properties say. The invariant `Inv` says who owns a job (`OwnedBy`), that a session
  has at most the request out that its innermost handler waits for (`RequestsOf`),
  that the queue file says what faxq does with the job (`Queue`), that a copy of another state
  than its file is known to be old (`Seen`), and that what a handler saw of the job
  when it looked still holds when it acts (`HandlingOf`): in between, faxq is the
  session's own request away from touching it. All but the first part is claimed only
  while nothing has strayed.

### Only model-checked

- Liveness, which rests on fairness and `ENABLED`, beyond the prover.
- `FaxCall`: its refinement of `PageTransfer` (`TransferSpec`), `NoSecondCopy` and
  `SavedInOrder`. Their invariant relates the places of two stations and the signal
  between them, through retries, retraining and the timers `FaxCall` bounds; a large
  product of cases, in which the run shows more than a proof would explain.
- `FaxQueue` with batches of two and more, and with a request that waits while another
  does. With the latter `NoFault` is false. With batches `CallsAccounted` and `CallLimit` are
  false, and so is `RunnableIsScheduled`: its pass steps over jobs (section 5).
- What the queue does to data: `todo` in its real order, priorities, and what
  recursive definitions compute.

## 7. What is not modelled

- *faxq*: jobs sent through a proxy, the job control script, priorities, modem
  groups with limits, modem capabilities, and the client command that releases a
  destination by hand. The queue directory scan after a restart is in
  `JobService` only. A comment of `processJob`'s callers speaks of releasing *one* blocked
  job (`faxd/faxQueueApp.c++:3911`), while all are released when
  `MaxConcurrentCalls` is 0; the model follows the code.
- *Dispatcher*: `select` masks and the race of the child queue with SIGCHLD.
- *faxgetty*: what is done with a received fax, the rotary of answer types,
  distinctive rings, configuration messages, `PollLockPokeModem`. A signal during a login
  session, which the session would survive, is left out.
- *faxsend*: polling, probes, cover pages, proxies, accounting, messages about a
  job under way, probing of image sizes, an unreadable queue file in a batch.
- *Class 1*: V.34, SSL fax, echo, CNG, CRP for a bad checksum, PIN and PIP,
  `maxRecvPages`, a TCF taken for a page; a change of DIS when phase B is repeated.
- *hfaxd*: logins, file transfer, listings, JINTR, job groups, documents, covers
  and job hosts, proxies, several clients with one job.

Components without a module: Class 2 drivers (the modem's firmware runs T.30 and
the driver follows), the serial layer, compression and tables of images,
text formatting, the client library and commands, SNPP, scripts and vendored
code. They compute over data that is out of TLC's reach, or do plain input and
output. These are more than half of the repository's lines, which is why the map
covers a small share of it: the map has most of the scheduler, the T.30 driver
without V.34, faxsend, the lock and the job commands.

## 8. Plan

Done: all modules of section 2, and proofs of the safety properties of all
components but the T.30 call (section 6).

Theorems next: `Shape` with batches, whose `Phases` needs the chain of links, so
that `AssertsHold`, `NoStranded` and `SleeperHasTimer` cover the default
configuration; `SavedInOrder`; the step simulation of `PageTransfer` by `FaxCall`.

Modules that could follow: `ChildQueue` against SIGCHLD; proxies; `faxqclean`
with document references; `TimeOfDay::nextTimeOfDay`, dial rules and type rules
against reference definitions.
