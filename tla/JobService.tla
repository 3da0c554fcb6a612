----------------------------- MODULE JobService -----------------------------
(***************************************************************************)
(* The job commands of hfaxd, one process per client, with faxq at the     *)
(* other end of the FIFOs and the queue files between them                 *)
(* (src/hfaxd/Jobs.c++, FIFO.c++, Trigger.c++, Login.c++).                 *)
(*                                                                         *)
(* A handler of hfaxd that sends a request waits for the answer in a       *)
(* nested dispatch loop, in which messages and urgent data are served; a   *)
(* client is taken to send the next command when the last is answered, and *)
(* to use only its own jobs.  A session is a stack of frames, one for each *)
(* handler under way.  A frame is "checked" when the state of the job has  *)
(* been looked at, "asked" when a request is out, and a JWAIT alternates   *)
(* between "watch" (about to look at the job) and "sleep".                 *)
(*                                                                         *)
(* faxq is reduced to what a session can tell: which jobs it knows, which  *)
(* of them a subprocess works on, and the requests in its FIFO.            *)
(***************************************************************************)
EXTENDS Naturals, SequencesExt, FiniteSets

CONSTANTS
  Sessions,     \* hfaxd processes
  Jobs,         \* job numbers the sequence file will give out
  Tids,         \* trigger numbers
  None,
  Commands,     \* job commands the clients use
  Urgent,       \* TRUE: clients send urgent data (ABOR)
  MaxRev,       \* bound: changes of a job's parameters
  MaxCalls,     \* calls that are made for a job before it fails
  MaxRestarts   \* bound: restarts of faxq

ASSUME ServiceAssumption ==
  /\ None \notin Sessions \cup Jobs \cup Tids \cup [by : Sessions, job : Jobs]
  /\ Tids \subseteq Nat /\ MaxCalls \in Nat \ {0}

VARIABLES
  file,       \* queue files
  locker,     \* session that keeps the flock of a queue file while it waits
  stage,      \* what faxq has of a job
  waits,      \* nested waits of suspendJob in faxq, innermost last
  fifo,       \* FIFO: requests to faxq
  triggers,   \* Trigger::triggers of faxq
  restarts,   \* how often faxq has been restarted
  online,     \* sessions with a client
  mem,        \* jobs: copies of jobs in a session
  newer,      \* copies with a lastmod before the st_mtime of their file
  cur,        \* curJob
  blank,      \* blankJobs
  task,       \* handlers under way
  waitfifo,   \* S_WAITFIFO
  response,   \* fifoResponse
  inbox,      \* FIFO.<pid>: messages to a session
  spec,       \* trigSpec, by its job
  tid,        \* tid
  confirmed,  \* history: the parameters with which a job was last said to be submitted
  strayed     \* history: what has come between a session and faxq, see below

faxqVars == <<stage, waits, triggers, restarts>>
copyVars == <<mem, newer, cur>>
waitVars == <<waitfifo, response, spec, tid>>
vars == <<file, locker, faxqVars, fifo, online, copyVars, blank, task, waitVars, inbox, confirmed, strayed>>

\* "calledOff": a wait for an answer was called off while the request was out;
\* "missed": a session took an old copy of a job for the state of its file.
Strays == {"calledOff", "missed"}

Ended == {"done", "failed"}
JobStates == {"suspended", "ready", "active"} \cup Ended
NoFile == [at |-> "unborn", state |-> "suspended", rev |-> 0, imaged |-> FALSE,
           calls |-> 0, owner |-> None]
Copy(f) == [at |-> f.at, state |-> f.state, rev |-> f.rev, imaged |-> f.imaged]

Init ==
  /\ file = [j \in Jobs |-> NoFile]
  /\ locker = [j \in Jobs |-> None] /\ stage = [j \in Jobs |-> "unknown"]
  /\ waits = <<>> /\ fifo = <<>> /\ restarts = 0
  /\ triggers = [t \in Tids |-> None]
  /\ online = Sessions
  /\ mem = [s \in Sessions |-> [j \in Jobs |-> None]] /\ newer = {}
  /\ cur = [s \in Sessions |-> None] /\ blank = [s \in Sessions |-> {}]
  /\ task = [s \in Sessions |-> <<>>]
  /\ waitfifo = [s \in Sessions |-> FALSE]
  /\ response = [s \in Sessions |-> None] /\ inbox = [s \in Sessions |-> <<>>]
  /\ spec = [s \in Sessions |-> None]
  /\ tid \in [Sessions -> Tids]   \* never initialized
  /\ confirmed = [j \in Jobs |-> None] /\ strayed = {}

-----------------------------------------------------------------------------
(* Queue files.  hfaxd compares times in seconds: a write in the second of *)
(* the last look at a file is not noticed.                                 *)

Locked(j) == stage[j] = "active" \/ locker[j] # None

\* A session takes its copy for the file, f, and it is not.
Unaware(copy, f, isNewer) ==
  copy # None /\ ~isNewer /\ copy.at = f.at /\ copy.state # f.state

Stray(how, happened) == strayed' = IF happened THEN strayed \cup {how} ELSE strayed

Noticed(j) ==
  /\ \E unseen \in SUBSET Sessions : newer' = newer \cup ((Sessions \ unseen) \X {j})
  /\ Stray("missed", \E s \in Sessions : Unaware(mem[s][j], file'[j], <<s, j>> \in newer'))

\* checkJobState: is the file where the copy was read, and is it newer and to be had?
\* Mutant: a job that is no longer in the queue is still worked with.
StillThereAssumed(s, j) == TRUE
StillThere(s, j) == file[j].at = mem[s][j].at

\* Mutant: the file is not read again.
MustRereadNot(s, j) == FALSE
MustReread(s, j) == <<s, j>> \in newer /\ ~Locked(j) /\ file[j].at = mem[s][j].at

\* checkJobState and findJob: the copy a handler works with, whether it is
\* older than the file, and whether it is still the copy there was.
Looked(s, j) ==
  LET m == mem[s][j]  f == file[j]  old == <<s, j>> \in newer IN
  IF m # None /\ StillThere(s, j)
  THEN IF MustReread(s, j)
       THEN [job |-> Copy(f), newer |-> FALSE, kept |-> TRUE]
       ELSE [job |-> m, newer |-> old, kept |-> TRUE]
  ELSE IF f.at \in {"sendq", "doneq"}
       THEN [job |-> Copy(f), newer |-> TRUE, kept |-> FALSE]
       ELSE [job |-> None, newer |-> FALSE, kept |-> FALSE]

Remember(s, j, job, isNewer, kept) ==
  /\ mem' = [mem EXCEPT ![s][j] = job]
  /\ newer' = IF isNewer THEN newer \cup {<<s, j>>} ELSE newer \ {<<s, j>>}
  /\ cur' = [cur EXCEPT ![s] = IF @ = j /\ ~kept THEN None ELSE @]

\* A copy known to be old that cannot be read again, the file being locked.
Stale(s, j) ==
  mem[s][j] # None /\ StillThere(s, j) /\ <<s, j>> \in newer /\ Locked(j)

Find(s, j) == LET l == Looked(s, j) IN Remember(s, j, l.job, l.newer, l.kept)
Forget(s, j) == Remember(s, j, None, FALSE, FALSE)

-----------------------------------------------------------------------------
(* Handlers of a session *)

Top(s) == Last(<<[op |-> "parse", job |-> None, at |-> "idle"]>> \o task[s])
InDispatch(s) == Top(s).at \in {"idle", "asked", "sleep"}
CanParse(s, op) ==
  /\ s \in online /\ task[s] = <<>> /\ op \in Commands
  /\ strayed # {} => op = "JKILL" /\ fifo = <<>>   \* bound: little of what follows is explored
May(s, j) == file[j].owner = s

\* What lies below a new or a finished handler looks at its job again.
Awake(frames) ==
  [i \in DOMAIN frames |-> IF frames[i].at = "sleep" THEN [frames[i] EXCEPT !.at = "watch"]
                                                     ELSE frames[i]]
Push(s, op, j, at) ==
  task' = [task EXCEPT ![s] = Append(Awake(@), [op |-> op, job |-> j, at |-> at])]
GoTo(s, at) == task' = [task EXCEPT ![s][Len(task[s])].at = at]
Pop(s) == task' = [task EXCEPT ![s] = Front(@)]

Letter(op) == CASE op = "JSUBM" -> "S" [] op = "JSUSP" -> "X" [] op = "JKILL" -> "K"
                [] op = "JDELE" -> "U" [] op \in {"JWAIT", "HELLO"} -> "T"

\* vsendQueuerACK up to its dispatch loop
Ask(s, op, j) ==
  /\ fifo' = Append(fifo, [cmd |-> Letter(op), job |-> j, from |-> s])
  /\ waitfifo' = [waitfifo EXCEPT ![s] = TRUE]

CancelTrigger(s) ==
  /\ spec' = [spec EXCEPT ![s] = None]
  /\ fifo' = Append(fifo, [cmd |-> "D", tid |-> tid[s]])

\* JNEW
NewJob(s, j) ==
  /\ CanParse(s, "JNEW") /\ file[j].at = "unborn"
  /\ file' = [file EXCEPT ![j] = [NoFile EXCEPT !.at = "sendq", !.owner = s]]
  /\ mem' = [mem EXCEPT ![s][j] = Copy(file'[j])] /\ newer' = newer \ {<<s, j>>}
  /\ cur' = [cur EXCEPT ![s] = j] /\ blank' = [blank EXCEPT ![s] = @ \cup {j}]
  /\ UNCHANGED <<locker, faxqVars, fifo, online, task, waitVars, inbox, confirmed, strayed>>

\* JOB
SetCurrentJob(s, j) ==
  /\ CanParse(s, "JOB") /\ May(s, j)
  /\ LET l == Looked(s, j) IN
       /\ l.job # None
       /\ mem' = [mem EXCEPT ![s][j] = l.job]
       /\ newer' = IF l.newer THEN newer \cup {<<s, j>>} ELSE newer \ {<<s, j>>}
  /\ cur' = [cur EXCEPT ![s] = j]
  /\ UNCHANGED <<file, locker, faxqVars, fifo, online, blank, task, waitVars, inbox, confirmed, strayed>>

\* JPARM: a parameter of the current job, in memory only
SetJobParameter(s, j) ==
  /\ CanParse(s, "JPARM") /\ cur[s] = j
  /\ LET l == Looked(s, j) IN
       IF ~l.kept THEN Forget(s, j)
       ELSE IF l.job.state = "suspended"
       THEN l.job.rev < MaxRev /\ Remember(s, j, [l.job EXCEPT !.rev = @ + 1], l.newer, TRUE)
       ELSE Find(s, j)
  /\ UNCHANGED <<file, locker, faxqVars, fifo, online, blank, task, waitVars, inbox, confirmed, strayed>>

\* JREST: the state last saved to disk.  The copy is taken for that state even
\* if the file could not be locked and read.
ResetJob(s, j) ==
  /\ CanParse(s, "JREST") /\ May(s, j)
  /\ LET l == Looked(s, j)
         copy == IF Locked(j) THEN l.job ELSE Copy(file[j]) IN
     /\ l.job # None
     /\ IF l.job.state = "suspended"
        THEN /\ Remember(s, j, copy, FALSE, l.kept)
             /\ Stray("missed", Unaware(copy, file[j], FALSE))
        ELSE Find(s, j) /\ UNCHANGED strayed
  /\ UNCHANGED <<file, locker, faxqVars, fifo, online, blank, task, waitVars, inbox, confirmed>>

\* The state in which a command goes ahead.
Allows(op, state) ==
  CASE op = "JSUBM" -> state = "suspended"
    [] op = "JDELE" -> state \in Ended \cup {"suspended"}
    [] op \in {"JSUSP", "JKILL", "JWAIT"} -> state \notin Ended

\* preJobCmd and the tests that follow it
Begin(s, op, j) ==
  /\ CanParse(s, op) /\ May(s, j)
  /\ Find(s, j)
  /\ IF Looked(s, j).job # None /\ Allows(op, Looked(s, j).job.state)
     THEN Push(s, op, j, "checked") /\ Stray("missed", op \in {"JSUBM", "JDELE"} /\ Stale(s, j))
     ELSE UNCHANGED <<task, strayed>>
  /\ UNCHANGED <<file, locker, faxqVars, fifo, online, blank, waitVars, inbox, confirmed>>

\* updateJobOnDisk creates the file if it is gone
WriteCopy(s, j) ==
  /\ file' = [file EXCEPT ![j] = [@ EXCEPT !.at = mem[s][j].at, !.state = mem[s][j].state,
                                          !.rev = mem[s][j].rev, !.imaged = mem[s][j].imaged]]
  /\ Noticed(j)

SubmitJob(s, j) ==
  /\ Top(s).op = "JSUBM"
  /\ IF Locked(j) THEN Pop(s) /\ UNCHANGED <<file, newer, fifo, waitfifo, strayed>>
     ELSE WriteCopy(s, j) /\ Ask(s, "JSUBM", j) /\ GoTo(s, "asked")
  /\ UNCHANGED <<locker, mem, cur, confirmed, spec>>

OperateOnJob(s, j) ==
  /\ Top(s).op \in {"JSUSP", "JKILL"} /\ Ask(s, Top(s).op, j) /\ GoTo(s, "asked")
  /\ UNCHANGED <<file, locker, newer, mem, cur, confirmed, spec, strayed>>

NewTrigger(s, j) ==
  /\ Top(s).op = "JWAIT" /\ Ask(s, "JWAIT", j) /\ GoTo(s, "asked")
  /\ spec' = [spec EXCEPT ![s] = j]
  /\ UNCHANGED <<file, locker, newer, mem, cur, confirmed, strayed>>

Erase(s, j) ==
  /\ file' = [file EXCEPT ![j].at = "gone"] /\ Forget(s, j)
  /\ confirmed' = [confirmed EXCEPT ![j] = None]

DeleteJob(s, j) ==
  /\ Top(s).op = "JDELE"
  /\ IF Locked(j) \/ file[j].at # mem[s][j].at
     THEN Pop(s) /\ UNCHANGED <<file, locker, copyVars, fifo, waitfifo, confirmed>>
     ELSE IF mem[s][j].state = "suspended" /\ mem[s][j].imaged
     THEN /\ locker' = [locker EXCEPT ![j] = s] /\ Ask(s, "JDELE", j) /\ GoTo(s, "asked")
          /\ UNCHANGED <<file, copyVars, confirmed>>
     ELSE Erase(s, j) /\ Pop(s) /\ UNCHANGED <<locker, fifo, waitfifo>>
  /\ UNCHANGED <<spec, strayed>>

Act(s) ==
  /\ Top(s).at = "checked"
  /\ LET j == Top(s).job IN SubmitJob(s, j) \/ OperateOnJob(s, j) \/ NewTrigger(s, j) \/ DeleteJob(s, j)
  /\ UNCHANGED <<faxqVars, online, blank, response, tid, inbox>>

\* Mutant: the job stays a blank one.
SubmittedBlank(s, j) == blank[s]
Submitted(s, j) == blank[s] \ {j}

\* waitForJob looks at the job before it waits.
\* Mutant: it waits for the event first.
FirstWaitBlind == "sleep"
FirstWait == "watch"

\* vsendQueuerACK after its dispatch loop, and what its caller does then
Answered(s) == response[s].cmd = Letter(Top(s).op) /\ response[s].ok

Resume(s) ==
  /\ Top(s).at = "asked" /\ ~waitfifo[s]
  /\ LET j == Top(s).job IN
     \/ /\ Top(s).op = "JSUBM" /\ Pop(s)
        /\ confirmed' = IF Answered(s) THEN [confirmed EXCEPT ![j] = mem[s][j].rev] ELSE confirmed
        /\ blank' = IF Answered(s) THEN [blank EXCEPT ![s] = Submitted(s, j)] ELSE blank
        /\ UNCHANGED <<file, locker, copyVars, spec, tid>>
     \/ /\ Top(s).op \in {"JSUSP", "JKILL"} /\ Pop(s)
        /\ UNCHANGED <<file, locker, copyVars, blank, spec, tid, confirmed>>
     \/ /\ Top(s).op = "JDELE" /\ Pop(s) /\ Erase(s, j) /\ locker' = [locker EXCEPT ![j] = None]
        /\ UNCHANGED <<blank, spec, tid>>
     \/ /\ Top(s).op \in {"JWAIT", "HELLO"}   \* loadTrigger
        /\ tid' = IF Answered(s) THEN [tid EXCEPT ![s] = response[s].tid] ELSE tid
        /\ IF Top(s).op = "JWAIT" /\ Answered(s) THEN GoTo(s, FirstWait) ELSE Pop(s)
        /\ UNCHANGED <<file, locker, copyVars, blank, spec, confirmed>>
  /\ UNCHANGED <<faxqVars, fifo, online, waitfifo, response, inbox, strayed>>

\* waitForJob looks at the job after every event.
Watch(s) ==
  /\ Top(s).at = "watch"
  /\ LET j == Top(s).job  l == Looked(s, j) IN
       /\ Find(s, j)
       /\ IF l.job = None \/ l.job.state \in Ended
          THEN CancelTrigger(s) /\ Pop(s) ELSE GoTo(s, "sleep") /\ UNCHANGED <<fifo, spec>>
  /\ UNCHANGED <<file, locker, faxqVars, online, blank, waitfifo, response, tid, inbox, confirmed, strayed>>

\* FIFOInput, FIFOMessage and triggerEvent
Receive(s) ==
  /\ s \in online /\ inbox[s] # <<>> /\ InDispatch(s)
  /\ inbox' = [inbox EXCEPT ![s] = Tail(@)]
  /\ LET m == Head(inbox[s])
         woken == task' = [task EXCEPT ![s] = Awake(@)] IN
     \/ /\ m.cmd = "event" /\ woken
        /\ LET l == Looked(s, m.job) IN
             Remember(s, m.job, IF l.job = None THEN None ELSE [l.job EXCEPT !.state = m.state],
                      l.newer, l.kept)
        /\ UNCHANGED <<fifo, waitfifo, response, strayed>>
     \/ /\ m.cmd # "event" /\ waitfifo[s] /\ woken
        /\ response' = [response EXCEPT ![s] = m] /\ waitfifo' = [waitfifo EXCEPT ![s] = FALSE]
        /\ Stray("calledOff", m.cmd = "H") /\ UNCHANGED <<fifo, copyVars>>
     \/ /\ m.cmd # "event" /\ ~waitfifo[s]
        /\ IF m.cmd = "H" /\ spec[s] # None
           THEN Push(s, "HELLO", spec[s], "asked") /\ Ask(s, "HELLO", spec[s])
           ELSE woken /\ UNCHANGED <<fifo, waitfifo>>
        /\ UNCHANGED <<response, copyVars, strayed>>
  /\ UNCHANGED <<file, locker, faxqVars, online, blank, spec, tid, confirmed>>

\* Urgent data ends the wait for an answer, or a JWAIT: out of which it jumps,
\* though a request to load the trigger anew may be out, and S_WAITFIFO set.
InWait(s) == task[s][1].at \in {"watch", "sleep"}
HandleUrgentData(s) ==
  /\ Urgent /\ s \in online /\ task[s] # <<>> /\ strayed = {}   \* bound: one wait is called off
  /\ \/ /\ ~InWait(s) /\ waitfifo[s] /\ waitfifo' = [waitfifo EXCEPT ![s] = FALSE]
        /\ response' = [response EXCEPT ![s] = [cmd |-> "abort", ok |-> FALSE]]
        /\ Stray("calledOff", TRUE) /\ UNCHANGED <<task, fifo, spec>>
     \/ /\ InWait(s) /\ CancelTrigger(s) /\ task' = [task EXCEPT ![s] = <<>>]
        /\ Stray("calledOff", Top(s).at = "asked") /\ UNCHANGED <<waitfifo, response>>
  /\ UNCHANGED <<file, locker, faxqVars, online, copyVars, blank, tid, inbox, confirmed>>

\* dologout, also from a nested parse when the client is gone
DoLogout(s) ==
  /\ "QUIT" \in Commands /\ s \in online /\ InDispatch(s)
  /\ online' = online \ {s} /\ inbox' = [inbox EXCEPT ![s] = <<>>]
  /\ IF spec[s] # None THEN CancelTrigger(s) ELSE UNCHANGED <<fifo, spec>>
  /\ file' = [j \in Jobs |-> IF j \in blank[s] /\ file[j].at = "sendq"
                             THEN [file[j] EXCEPT !.at = "gone"] ELSE file[j]]
  /\ task' = [task EXCEPT ![s] = <<>>] /\ waitfifo' = [waitfifo EXCEPT ![s] = FALSE]
  /\ locker' = [j \in Jobs |-> IF locker[j] = s THEN None ELSE locker[j]]
  /\ UNCHANGED <<faxqVars, copyVars, blank, response, tid, confirmed, strayed>>

Session(s) ==
  \/ Act(s) \/ Resume(s) \/ Watch(s) \/ Receive(s) \/ HandleUrgentData(s) \/ DoLogout(s)
  \/ \E j \in Jobs :
       \/ NewJob(s, j) \/ SetCurrentJob(s, j) \/ SetJobParameter(s, j) \/ ResetJob(s, j)
       \/ \E op \in {"JSUBM", "JSUSP", "JKILL", "JDELE", "JWAIT"} : Begin(s, op, j)

-----------------------------------------------------------------------------
(* faxq *)

\* What a handler of faxq sends: an answer to one session, and the end of a
\* job (state # None) to those that wait for it, whose triggers it loses.
Answers(to, answer, j, state) ==
  /\ inbox' = [s \in Sessions |->
       IF s \notin online THEN <<>>
       ELSE inbox[s]
            \o (IF state # None /\ \E t \in Tids : triggers[t] = [by |-> s, job |-> j]
                THEN <<[cmd |-> "event", job |-> j, state |-> state]>> ELSE <<>>)
            \o (IF s = to THEN <<answer>> ELSE <<>>)]
  /\ triggers' = [t \in Tids |-> IF state # None /\ triggers[t] # None /\ triggers[t].job = j
                                 THEN [triggers[t] EXCEPT !.job = None] ELSE triggers[t]]

Ack(cmd, ok) == [cmd |-> cmd, ok |-> ok]
Present(j) == file[j].at = "sendq"

\* updateRequest
WriteState(j, state) ==
  IF Present(j) THEN file' = [file EXCEPT ![j].state = state] /\ Noticed(j)
                ELSE UNCHANGED <<file, newer, strayed>>

\* deleteRequest and setDead
BuryJob(j, state) ==
  /\ stage' = [stage EXCEPT ![j] = "unknown"]
  /\ IF Present(j) THEN file' = [file EXCEPT ![j] = [@ EXCEPT !.at = "doneq", !.state = state]] /\ Noticed(j)
                   ELSE UNCHANGED <<file, newer, strayed>>

FileFree(j) == locker[j] = None   \* else flock blocks faxq

Submit(m) ==
  LET j == m.job IN
  /\ m.cmd = "S" /\ UNCHANGED waits
  /\ \/ /\ stage[j] \in {"queued", "active", "held"}
        /\ Answers(m.from, Ack("S", TRUE), j, None) /\ UNCHANGED <<stage, file, newer, strayed>>
     \/ /\ stage[j] = "suspended" \/ (stage[j] = "unknown" /\ file[j].state \notin Ended)
        /\ Present(j) /\ FileFree(j)
        /\ \/ /\ stage' = [stage EXCEPT ![j] = "queued"] /\ WriteState(j, "ready")
              /\ Answers(m.from, Ack("S", TRUE), j, None)
           \/ BuryJob(j, "failed") /\ Answers(m.from, Ack("S", FALSE), j, "failed")   \* rejected
     \/ /\ stage[j] = "suspended" /\ ~Present(j)
        /\ BuryJob(j, "suspended") /\ Answers(m.from, Ack("S", FALSE), j, "suspended")
     \/ /\ stage[j] = "unknown" /\ (~Present(j) \/ file[j].state \in Ended)
        /\ Answers(m.from, Ack("S", FALSE), j, None) /\ UNCHANGED <<stage, file, newer, strayed>>

\* suspendJob and terminateJob once the job is off its list
Finish(cmd, j, to) ==
  /\ FileFree(j)
  /\ \/ /\ cmd = "X" /\ stage' = [stage EXCEPT ![j] = "suspended"] /\ WriteState(j, "suspended")
        /\ Answers(to, Ack(cmd, TRUE), j, None)
     \/ cmd = "K" /\ BuryJob(j, "failed") /\ Answers(to, Ack(cmd, TRUE), j, "failed")

\* Mutant: the request is dropped without an answer.
RefuseSilently(cmd, to) == UNCHANGED <<inbox, triggers, stage, file, newer, strayed>>
Refuse(cmd, to) == Answers(to, Ack(cmd, FALSE), None, None) /\ UNCHANGED <<stage, file, newer, strayed>>

Suspend(m) ==
  LET j == m.job IN
  /\ m.cmd \in {"X", "K"}
  /\ \/ stage[j] = "unknown" /\ Refuse(m.cmd, m.from) /\ UNCHANGED waits
     \/ stage[j] \in {"queued", "held", "suspended"} /\ Finish(m.cmd, j, m.from) /\ UNCHANGED waits
     \/ /\ stage[j] = "active" /\ \E i \in DOMAIN waits : waits[i].job = j /\ ~waits[i].over
        /\ Refuse(m.cmd, m.from) /\ UNCHANGED waits
     \/ /\ stage[j] = "active" /\ ~\E i \in DOMAIN waits : waits[i].job = j /\ ~waits[i].over
        /\ waits' = Append(waits, [cmd |-> m.cmd, job |-> j, from |-> m.from, over |-> FALSE])
        /\ UNCHANGED <<stage, file, newer, inbox, triggers, strayed>>

CreateTrigger(m) ==
  /\ m.cmd = "T" /\ UNCHANGED <<stage, file, newer, waits, strayed>>
  /\ LET free == {t \in Tids : triggers[t] = None} IN
     IF stage[m.job] = "unknown" \/ free = {} THEN Refuse("T", m.from)
     ELSE \E t \in free :
          /\ \A u \in free : t <= u
          /\ triggers' = [triggers EXCEPT ![t] = [by |-> m.from, job |-> m.job]]
          /\ inbox' = [s \in Sessions |->
               IF s = m.from /\ s \in online
               THEN Append(inbox[s], [cmd |-> "T", ok |-> TRUE, tid |-> t]) ELSE inbox[s]]

OtherRequest(m) ==
  /\ UNCHANGED <<stage, file, newer, waits, strayed>>
  /\ \/ m.cmd = "U" /\ Answers(m.from, Ack("U", TRUE), None, None)
     \/ m.cmd = "D" /\ triggers' = [triggers EXCEPT ![m.tid] = None] /\ UNCHANGED inbox

FIFOMessage ==
  /\ fifo # <<>> /\ fifo' = Tail(fifo)
  /\ LET m == Head(fifo) IN Submit(m) \/ Suspend(m) \/ CreateTrigger(m) \/ OtherRequest(m)
  /\ UNCHANGED <<locker, restarts, online, mem, cur, blank, task, waitVars, confirmed>>

\* The innermost wait of suspendJob goes on when its job has left the subprocess.
SuspendReturns ==
  /\ waits # <<>> /\ Last(waits).over /\ waits' = Front(waits)
  /\ LET w == Last(waits) IN
       IF stage[w.job] = "unknown" THEN Refuse(w.cmd, w.from) ELSE Finish(w.cmd, w.job, w.from)
  /\ UNCHANGED <<locker, restarts, fifo, online, mem, cur, blank, task, waitVars, confirmed>>

\* runScheduler takes a job; one without a file is dropped.
StartJob(j) ==
  /\ stage[j] = "queued" /\ FileFree(j)
  /\ IF Present(j)
     THEN /\ stage' = [stage EXCEPT ![j] = "active"] /\ UNCHANGED <<inbox, triggers>>
          /\ file' = [file EXCEPT ![j] =
               [@ EXCEPT !.state = "active", !.imaged = TRUE, !.calls = file[j].calls + 1]]
          /\ Noticed(j)
     ELSE BuryJob(j, "ready") /\ Answers(None, None, j, "ready")
  /\ UNCHANGED <<locker, waits, restarts, fifo, online, mem, cur, blank, task, waitVars, confirmed>>

\* sendJobDone
EndJob(j) ==
  /\ stage[j] = "active"
  /\ waits' = [i \in DOMAIN waits |-> IF waits[i].job = j THEN [waits[i] EXCEPT !.over = TRUE] ELSE waits[i]]
  /\ \/ \E state \in Ended : BuryJob(j, state) /\ Answers(None, None, j, state)
     \/ /\ file[j].calls < MaxCalls /\ WriteState(j, "ready") /\ UNCHANGED <<inbox, triggers>>
        /\ stage' = [stage EXCEPT ![j] =
             IF \E i \in DOMAIN waits : waits[i].job = j /\ ~waits[i].over THEN "held" ELSE "queued"]
  /\ UNCHANGED <<locker, restarts, fifo, online, mem, cur, blank, task, waitVars, confirmed>>

\* faxq dies and is started again: scanQueueDirectory and scanClientDirectory
Restart ==
  /\ restarts < MaxRestarts /\ restarts' = restarts + 1
  /\ \A j \in Jobs : stage[j] # "active" /\ locker[j] = None
  /\ stage' = [j \in Jobs |-> IF ~Present(j) \/ file[j].state \in Ended THEN "unknown"
                              ELSE IF file[j].state = "suspended" THEN "suspended" ELSE "queued"]
  /\ waits' = <<>> /\ triggers' = [t \in Tids |-> None]
  /\ inbox' = [s \in Sessions |-> IF s \in online THEN Append(inbox[s], [cmd |-> "H", ok |-> FALSE]) ELSE <<>>]
  /\ UNCHANGED <<file, locker, fifo, online, copyVars, blank, task, waitVars, confirmed, strayed>>

Faxq == FIFOMessage \/ SuspendReturns \/ \E j \in Jobs : StartJob(j) \/ EndJob(j)

Next == (\E s \in Sessions : Session(s)) \/ Faxq \/ Restart

\* Each process goes on; clients need not send anything.
Fairness ==
  /\ \A s \in Sessions : WF_vars(Act(s)) /\ WF_vars(Resume(s)) /\ WF_vars(Watch(s)) /\ WF_vars(Receive(s))
  /\ WF_vars(FIFOMessage) /\ WF_vars(SuspendReturns)
  /\ \A j \in Jobs : WF_vars(StartJob(j)) /\ WF_vars(EndJob(j))

Spec == Init /\ [][Next]_vars /\ Fairness

-----------------------------------------------------------------------------
(* Properties *)

\* A job the client was told is submitted is with faxq or done, with the
\* parameters the client set or later ones, until it is deleted.
ConfirmedKept ==
  strayed = {} => \A j \in Jobs : confirmed[j] # None =>
    /\ (Present(j) /\ stage[j] # "unknown") \/ file[j].at = "doneq"
    /\ file[j].rev >= confirmed[j]

\* hfaxd writes and deletes the queue file of a job only while faxq has
\* nothing to do with it (a client that leaves aside).
TouchesOnlyInert ==
  [][strayed = {} => \A j \in Jobs :
       /\ \E s \in Sessions : task'[s] # task[s] /\ online' = online /\ UNCHANGED stage
       /\ file'[j] # file[j]
       => stage[j] \notin {"queued", "active", "held"}]_vars

\* A job that is over is not sent again: hfaxd does not put its queue file
\* back where faxq looks for jobs.
NoSecondSending ==
  [][strayed = {} => \A j \in Jobs : file[j].at \in {"doneq", "gone"} => file'[j].at \in {"doneq", "gone"}]_vars

\* Every request to faxq is answered, or a restarted faxq calls off the wait.
AnswersCome == \A s \in Sessions : waitfifo[s] ~> ~waitfifo[s] \/ "calledOff" \in strayed

\* A JWAIT does not outlast its job: the event of faxq is not lost between
\* the look at the job and the wait.
Waiting(s, j) == \E i \in DOMAIN task[s] : task[s][i].op = "JWAIT" /\ task[s][i].job = j
WaitForJobEnds ==
  \A s \in Sessions, j \in Jobs : Waiting(s, j) /\ file[j].at # "sendq" ~> ~Waiting(s, j) \/ "calledOff" \in strayed
=============================================================================
