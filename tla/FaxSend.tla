------------------------------ MODULE FaxSend ------------------------------
(***************************************************************************)
(* faxsend: one process that makes one call for a batch of jobs            *)
(* (faxd/faxSendApp.c++, FaxSend.c++), and what faxq does with the queue   *)
(* files it leaves (faxQueueApp.c++, sendJobDone).  A queue file is what   *)
(* survives a call: the documents that are left, from which page on, and   *)
(* how often the job has dialed and tried.  Within a document the module   *)
(* relies on PageTransfer, which FaxCall implements: pages are confirmed   *)
(* one after the other, and a call does not fail after the last.           *)
(***************************************************************************)
EXTENDS Naturals, Sequences, SequencesExt, FiniteSets

CONSTANTS
  Jobs,               \* jobs for one destination
  Docs,               \* the number of pages of each document of each job
  MaxDials, MaxTries, \* maxdials and maxtries of the jobs
  RetryMax,           \* dial failures in a row for a number never reached
  Share,              \* whether ShareCallFailures is set
  NoFailBusy,         \* whether calls that find the line busy go uncounted (-B)
  MaxBatchJobs,       \* jobs in a call
  Faults, MaxFaults   \* bound: what may happen, and how much of it

FaultKinds ==
  {"abort",    \* a user suspends a job of the call
   "crash",    \* faxsend dies
   "slow",     \* a child is slow to write the queue file
   "vanish",   \* a document is gone when it is to be opened
   "format"}   \* the other side cannot take the format of the documents

ASSUME SendAssumptions ==
  /\ IsFiniteSet(Jobs) /\ "none" \notin Jobs /\ Docs \in [Jobs -> Seq(Nat \ {0})]
  /\ MaxDials \in Nat \ {0} /\ MaxTries \in Nat \ {0} /\ RetryMax \in Nat
  /\ Share \in BOOLEAN /\ NoFailBusy \in BOOLEAN /\ MaxBatchJobs \in Nat \ {0}
  /\ Faults \subseteq FaultKinds /\ MaxFaults \in Nat

VARIABLES
  qfile,    \* the queue files
  state,    \* of the jobs, in faxq: "ready", "done" or "failed"
  info,     \* of the destination: called before, supports batching
  fs,       \* the memory of faxsend
  writers,  \* children that have still to write a queue file
  got,      \* history: how often the other side has confirmed each page
  made,     \* history: the calls made for each job, and those that were answered
  faults    \* what has happened

vars == <<qfile, state, info, fs, writers, got, made, faults>>

May(fault) ==
  /\ fault \in Faults \ faults /\ Cardinality(faults) < MaxFaults
  /\ faults' = faults \cup {fault}
-----------------------------------------------------------------------------
(* Queue files *)

Pages(j) == UNION {{d} \X (1..Docs[j][d]) : d \in DOMAIN Docs[j]}
AllItems(j) == [d \in DOMAIN Docs[j] |-> [doc |-> d, dirnum |-> 0]]

\* The pages that are to be sent for the items of a queue file.
PagesLeft(j, items) ==
  {pg \in Pages(j) : \E i \in DOMAIN items :
                       items[i].doc = pg[1] /\ items[i].dirnum < pg[2]}

NewRequest(j) ==
  [items |-> AllItems(j), status |-> "retry", npages |-> 0, ntries |-> 0,
   ndials |-> 0, totdials |-> 0, tottries |-> 0, errorcode |-> "other"]

\* The history need not count further than past the limit and one lost call.
Tally(n, limit) == IF n <= limit + 1 THEN n + 1 ELSE n

\* writeQFile, by whoever has the file open.
Write(j, r) == qfile' = [qfile EXCEPT ![j] = r]

Init ==
  /\ qfile = [j \in Jobs |-> NewRequest(j)]
  /\ state = [j \in Jobs |-> "ready"]
  /\ info = [called |-> FALSE, batching |-> TRUE]
  /\ fs = [pc |-> "off", batch |-> <<>>]
  /\ writers = {}
  /\ got = [j \in Jobs |-> [pg \in Pages(j) |-> 0]]
  /\ made = [j \in Jobs |-> [dials |-> 0, tries |-> 0]]
  /\ faults = {}

At(pc) == fs.pc = pc
-----------------------------------------------------------------------------
(* faxSendApp::send: the files of the batch *)

\* faxq starts faxsend for the jobs it has put into a batch.  Only the limits
\* of the first one are looked at.
Exhausted(j) == qfile[j].totdials >= MaxDials \/ qfile[j].tottries >= MaxTries
Ready == {j \in Jobs : state[j] = "ready"}
Batches ==
  {b \in SeqOf(Ready, IF info.batching THEN MaxBatchJobs ELSE 1) :
     b # <<>> /\ IsInjective(b) /\ ~Exhausted(b[1])}

Start ==
  /\ At("off")
  /\ \E b \in Batches :
       fs' = [pc |-> "file", batch |-> b, cur |-> 1, status |-> "done",
              callFailed |-> FALSE, req |-> qfile[b[1]], page |-> 0,
              setup |-> FALSE, locked |-> FALSE, connected |-> FALSE,
              abort |-> FALSE]
  /\ UNCHANGED <<qfile, state, info, writers, got, made, faults>>

\* A job that has used up its dials or tries is rejected by the scheduler.
Reject ==
  /\ At("off")
  /\ \E j \in Ready : Exhausted(j) /\ state' = [state EXCEPT ![j] = "failed"]
  /\ UNCHANGED <<qfile, info, fs, writers, got, made, faults>>

Job == fs.batch[fs.cur]
IsFirst == fs.cur = 1
IsLast == fs.cur = Len(fs.batch)

\* Mutant: the batch goes on after a job that will never be sent.
FinishGoesOn(r, callFailed) ==
  LET over == IsLast \/ r.status = "retry" IN
  /\ Write(Job, r)
  /\ fs' = [fs EXCEPT !.pc = IF IsLast THEN "exit" ELSE "file", !.cur = @ + 1,
                      !.status = IF over THEN r.status ELSE "done", !.callFailed = callFailed,
                      !.locked = @ /\ ~over, !.connected = @ /\ ~over]

\* The end of a job: the modem is hung up and unlocked after the last job, or
\* the first that was not sent, and the queue file is written.  The notice of
\* the job says whether it was the call that failed.
Finish(r, callFailed) ==
  LET over == IsLast \/ r.status # "done" IN
  /\ Write(Job, r)
  /\ fs' = [fs EXCEPT !.pc = IF IsLast THEN "exit" ELSE "file", !.cur = @ + 1,
                      !.status = r.status, !.callFailed = callFailed,
                      !.locked = @ /\ ~over, !.connected = @ /\ ~over]

\* A job after one that was not sent: not tried, but a call failure may be
\* counted for it as well.
Blocked ==
  /\ At("file") /\ fs.status # "done"
  /\ Finish(IF fs.callFailed /\ Share
            THEN [qfile[Job] EXCEPT !.status = "retry", !.totdials = @ + 1,
                                    !.errorcode = "call"]
            ELSE [qfile[Job] EXCEPT !.status = "retry"], fs.callFailed)
  /\ UNCHANGED <<state, info, writers, got, made, faults>>

\* The modem never gets ready, and no queue file is touched.
NotReady ==
  /\ At("file") /\ IsFirst
  /\ fs' = [fs EXCEPT !.pc = "exit"]
  /\ UNCHANGED <<qfile, state, info, writers, got, made, faults>>

\* The request is read, and the modem locked for the first job.
ReadQFile ==
  /\ At("file") /\ fs.status = "done"
  /\ fs' = [fs EXCEPT !.pc = "dial", !.req = qfile[Job], !.locked = TRUE]
  /\ UNCHANGED <<qfile, state, info, writers, got, made, faults>>

CannotLock ==
  /\ At("file") /\ IsFirst
  /\ Finish([qfile[Job] EXCEPT !.status = "retry"], FALSE)
  /\ UNCHANGED <<state, info, writers, got, made, faults>>
-----------------------------------------------------------------------------
(* sendFax: the call *)

\* Mutant: no limit on tries.
JudgedByDials(r) ==
  IF fs.abort THEN [r EXCEPT !.status = "retry", !.errorcode = fs.req.errorcode]
  ELSE IF r.status = "retry" /\ r.totdials = MaxDials
  THEN [r EXCEPT !.status = "failed"] ELSE r

\* What sendFax makes of a status: an aborted call is to be retried, whatever
\* it achieved, with the error code it had, and other retries end with the limits.
Judged(r) ==
  IF fs.abort THEN [r EXCEPT !.status = "retry", !.errorcode = fs.req.errorcode]
  ELSE IF r.status = "retry" /\ (r.totdials = MaxDials \/ r.tottries = MaxTries)
  THEN [r EXCEPT !.status = "failed"] ELSE r

Stop(r, status) == Finish(Judged([r EXCEPT !.status = status]), FALSE)

\* The modem cannot be set up for the fax, or for the documents.
SetupFails ==
  /\ At("dial")
  /\ \E code \in {fs.req.errorcode, "other"} :
       Finish([fs.req EXCEPT !.status = "failed", !.errorcode = code], FALSE)
  /\ UNCHANGED <<state, info, writers, got, made, faults>>

\* The history: the first job of a batch is dialed for, and all are tried.
MadeCall ==
  made' = [made EXCEPT ![Job] =
    [dials |-> IF IsFirst THEN Tally(@.dials, MaxDials) ELSE @.dials,
     tries |-> Tally(@.tries, MaxTries)]]

\* Mutant: calls are not counted.
DialUncounted ==
  /\ At("dial") /\ ~fs.abort
  /\ fs' = [fs EXCEPT !.pc = "prologue", !.connected = TRUE, !.req.ndials = 0]
  /\ info' = [info EXCEPT !.called = TRUE]
  /\ MadeCall
  /\ UNCHANGED <<qfile, state, writers, got, faults>>

\* The call is answered; the later jobs of a batch use the same call.
Dial ==
  /\ At("dial") /\ ~fs.abort
  /\ fs' = [fs EXCEPT !.pc = "prologue", !.connected = TRUE, !.req.ndials = 0,
                      !.req.tottries = @ + 1, !.req.totdials = @ + 1]
  /\ info' = [info EXCEPT !.called = TRUE]
  /\ MadeCall
  /\ UNCHANGED <<qfile, state, writers, got, faults>>

\* The line is busy, nobody answers (which stands for the other errors that may
\* be shared), the handshake fails, or the modem.  A number that has never been
\* reached may be wrong.
CallStatuses == {"BUSY", "NOANSWER", "NOFCON", "ERROR"}

\* The failures that ShareCallFailures names.  Nothing tells other error codes
\* apart, or from none.
CallErrors == IF Share THEN {"BUSY", "NOANSWER"} ELSE {}

DialFails(callstat) ==
  /\ At("dial") /\ IsFirst /\ ~fs.abort
  /\ info' = [info EXCEPT !.called = @ \/ callstat = "NOFCON"]
  /\ LET counted == callstat # "BUSY" \/ ~NoFailBusy
         n == IF counted THEN 1 ELSE 0
         r == [fs.req EXCEPT !.ndials = @ + n, !.totdials = @ + n,
                 !.errorcode = IF callstat \in CallErrors THEN "call" ELSE "other"]
         status == IF ~info'.called /\ r.ndials > RetryMax THEN "failed" ELSE "retry"
     IN /\ Finish(Judged([r EXCEPT !.status = status]), callstat \in CallErrors)
        /\ made' = IF counted THEN [made EXCEPT ![Job].dials = Tally(@, MaxDials)] ELSE made
  /\ UNCHANGED <<state, writers, got, faults>>

\* An aborted call is not counted, but may have been made.
AbortedDial ==
  /\ At("dial") /\ fs.abort
  /\ Stop(fs.req, "retry")
  /\ \/ UNCHANGED made
     \/ IsFirst /\ made' = [made EXCEPT ![Job].dials = Tally(@, MaxDials)]
  /\ UNCHANGED <<state, info, writers, got, faults>>

\* Until its documents are sent the job is one to be retried.
Prologue ==
  /\ At("prologue")
  /\ fs' = [fs EXCEPT !.pc = "document", !.req.status = "retry", !.setup = TRUE]
  /\ UNCHANGED <<qfile, state, info, writers, got, made, faults>>

PrologueFails ==
  /\ At("prologue")
  /\ Stop([fs.req EXCEPT !.errorcode = "other"], "retry")
  /\ UNCHANGED <<state, info, writers, got, made, faults>>

\* The two sides have no format in common.
Incapable ==
  /\ At("prologue")
  /\ Stop([fs.req EXCEPT !.errorcode = "other"], "failed")
  /\ UNCHANGED <<state, info, writers, got, made, faults>>
-----------------------------------------------------------------------------
(* sendFaxPhaseB: a document *)

Document == fs.req.items[1]
PagesToSend == Docs[Job][Document.doc] - Document.dirnum

\* A slow child that a later one has not replaced in writeQFilePid.
Awaited(w) == w.job = Job /\ w.page = fs.req.npages

\* The document is deleted from those to be sent, when the last child has
\* written the queue file.
Delivered(r) ==
  /\ ~\E w \in writers : Awaited(w)
  /\ LET left == [r EXCEPT !.items = Tail(@), !.errorcode = "other"] IN
     /\ Write(Job, left)
     /\ fs' = [fs EXCEPT !.req = left, !.setup = FALSE, !.pc = "document"]

OpenDocument ==
  /\ At("document") /\ fs.req.items # <<>>
  /\ fs' = [fs EXCEPT !.pc = "page", !.page = 0, !.req.status = "done"]
  /\ UNCHANGED <<qfile, state, info, writers, got, made, faults>>

\* The first document of a call is held against what the other side can do.
FormatRefused ==
  /\ At("document") /\ fs.req.items # <<>> /\ fs.setup /\ May("format")
  /\ \E status \in {"reformat", "failed"} : Stop(fs.req, status)
  /\ UNCHANGED <<state, info, writers, got, made>>

\* Without a document the status stays what it was: that of the document sent
\* before, if there is one.
DocumentVanished ==
  /\ At("document") /\ fs.req.items # <<>> /\ May("vanish")
  /\ IF fs.req.status = "done" THEN Delivered(fs.req) ELSE Stop(fs.req, "retry")
  /\ UNCHANGED <<state, info, writers, got, made>>

\* notifyPageSent: a child writes the queue file, with the page counted and
\* the document still where the call began with it.
PageSent == [fs.req EXCEPT !.npages = @ + 1]

PageConfirmed ==
  /\ At("page") /\ fs.page < PagesToSend
  /\ got' = [got EXCEPT ![Job][<<Document.doc, Document.dirnum + fs.page + 1>>] = @ + 1]
  /\ fs' = [fs EXCEPT !.page = @ + 1, !.req = PageSent]
  /\ LET written == [PageSent EXCEPT !.errorcode = "other"] IN
     \/ /\ Write(Job, written)
        /\ UNCHANGED <<writers, faults>>
     \/ /\ May("slow")
        /\ writers' = writers \cup {[job |-> Job, req |-> written, page |-> written.npages]}
        /\ UNCHANGED qfile
  /\ UNCHANGED <<state, info, made>>

\* The comment at notifyPageSent wants the writes in order, but a child cannot
\* wait for the child before it, and the last write does not wait either.
SlowWrite ==
  /\ \E w \in writers :
       /\ Write(w.job, w.req)
       /\ writers' = writers \ {w}
  /\ UNCHANGED <<state, info, fs, got, made, faults>>

\* Mutant: the document is taken for sent before its last page is.
DocumentSentEarly ==
  /\ At("page") /\ fs.page + 1 >= PagesToSend
  /\ Delivered([fs.req EXCEPT !.ntries = 0])
  /\ UNCHANGED <<state, info, writers, got, made, faults>>

DocumentSent ==
  /\ At("page") /\ fs.page = PagesToSend
  /\ Delivered([fs.req EXCEPT !.ntries = 0])
  /\ UNCHANGED <<state, info, writers, got, made, faults>>

\* Mutant: the next call begins with the document again.
AdvancedNot(r) == [r EXCEPT !.ntries = IF fs.page = 0 THEN @ + 1 ELSE 0]

\* The next call begins with the page that was not sent.
Advanced(r) ==
  IF fs.page = 0 THEN [r EXCEPT !.ntries = @ + 1]
  ELSE [r EXCEPT !.ntries = 0, !.items[1].dirnum = @ + fs.page]

\* A page is tried three times.  What was due to the batch, to V.34 or to V.17
\* is to be retried, without it.
PhaseBFails ==
  /\ At("page") /\ fs.page < PagesToSend
  /\ \E status \in {"retry", "failed", "trouble", "batchfail"} :
       LET r == [Advanced(fs.req) EXCEPT !.errorcode = "other"] IN
       /\ Stop(r, IF status = "failed" \/ r.ntries > 2 THEN "failed" ELSE "retry")
       /\ info' = [info EXCEPT !.batching = @ /\ (status # "batchfail" \/ r.ntries > 2)]
  /\ UNCHANGED <<state, writers, got, made, faults>>

NoMoreDocuments ==
  /\ At("document") /\ fs.req.items = <<>>
  /\ Finish(Judged(fs.req), FALSE)
  /\ UNCHANGED <<state, info, writers, got, made, faults>>

\* faxq sends SIGTERM when a job of the batch is suspended or killed.
Abort ==
  /\ fs.pc \in {"dial", "prologue", "document", "page"} /\ May("abort")
  /\ fs' = [fs EXCEPT !.abort = TRUE]
  /\ UNCHANGED <<qfile, state, info, writers, got, made>>

Crash ==
  /\ fs.pc \notin {"off", "exit"} /\ May("crash")
  /\ fs' = [fs EXCEPT !.pc = "exit"]
  /\ UNCHANGED <<qfile, state, info, writers, got, made>>
-----------------------------------------------------------------------------
(* sendJobDone: faxq reads what faxsend has left *)

\* A job whose format was refused is converted anew, from its first document.
Reread(j, suspended) ==
  LET r == qfile[j] IN
  CASE r.status = "reformat" -> [r EXCEPT !.items = AllItems(j), !.status = "retry"]
    [] r.status \in {"retry", "failed"} /\ j = suspended -> [r EXCEPT !.status = "retry"]
    [] OTHER -> r

\* Jobs blocked on the destination are delayed, and the call may count for them.
Delayed(j, first) ==
  IF first.errorcode = "call" /\ Share
  THEN [qfile[j] EXCEPT !.status = "retry", !.totdials = @ + 1] ELSE qfile[j]

\* faxq has to wait for the lock of a queue file as long as a child has it.
SendJobDone ==
  /\ At("exit") /\ \A w \in writers : w.job \notin ToSet(fs.batch)
  /\ \E suspended \in IF fs.abort THEN ToSet(fs.batch) ELSE {"none"},
        blocked \in SUBSET (Ready \ ToSet(fs.batch)) :
       LET first == qfile[fs.batch[1]]
           req == [j \in ToSet(fs.batch) |-> Reread(j, suspended)]
           delay == first.status \notin {"done", "reformat"}
       IN /\ qfile' = [j \in Jobs |-> CASE j \in DOMAIN req -> req[j]
                         [] j \in blocked /\ delay -> Delayed(j, first)
                         [] OTHER -> qfile[j]]
          /\ state' = [j \in Jobs |-> IF j \notin DOMAIN req THEN state[j]
                         ELSE IF req[j].status = "retry" THEN "ready" ELSE req[j].status]
  /\ fs' = [pc |-> "off", batch |-> <<>>]
  /\ UNCHANGED <<info, writers, got, made, faults>>

Send == \/ Blocked \/ ReadQFile \/ SetupFails \/ Dial \/ AbortedDial
        \/ \E callstat \in CallStatuses : DialFails(callstat)
        \/ Prologue \/ PrologueFails \/ Incapable \/ OpenDocument
        \/ DocumentSent \/ PageConfirmed \/ PhaseBFails \/ NoMoreDocuments

AllOver == At("off") /\ Ready = {} /\ writers = {} /\ UNCHANGED vars

Next ==
  \/ Start \/ Reject \/ Send \/ NotReady \/ CannotLock \/ FormatRefused \/ DocumentVanished
  \/ SlowWrite \/ Abort \/ Crash \/ SendJobDone \/ AllOver

\* faxq goes on to call, and faxsend ends; nothing is assumed about how a call
\* ends, or that the modem can be had.
Spec ==
  /\ Init /\ [][Next]_vars
  /\ WF_vars(Start \/ Reject) /\ WF_vars(Send)
  /\ WF_vars(SlowWrite) /\ WF_vars(SendJobDone)
-----------------------------------------------------------------------------
(* Properties *)

Request ==
  [items : Seq([doc : Nat, dirnum : Nat]), npages : Nat, ntries : Nat,
   status : {"retry", "done", "failed", "reformat"}, ndials : Nat, totdials : Nat,
   tottries : Nat, errorcode : {"call", "other"}]

TypeOK ==
  /\ qfile \in [Jobs -> Request]
  /\ state \in [Jobs -> {"ready", "done", "failed"}]
  /\ info \in [called : BOOLEAN, batching : BOOLEAN]
  /\ fs.pc \in {"off", "file", "dial", "prologue", "document", "page", "exit"}
  /\ fs.batch \in Seq(Jobs)
  /\ \A w \in writers : w.job \in Jobs /\ w.req \in Request
  /\ DOMAIN got = Jobs /\ \A j \in Jobs : got[j] \in [Pages(j) -> Nat]
  /\ made \in [Jobs -> [dials : Nat, tries : Nat]]
  /\ faults \subseteq Faults

\* A job that faxq has at hand: no faxsend works on it.
AtFaxq(j) == At("off") \/ j \notin ToSet(fs.batch)

\* Whatever happened in the calls before, the pages that are not to be sent
\* again are those the other side has confirmed, once each, and as many as
\* npages says.  Needed of sendFaxPhaseB, notifyPageSent and faxq together.
PagesAccounted ==
  faults \subseteq {"abort"} =>
    \A j \in Jobs : AtFaxq(j) =>
      /\ \A pg \in Pages(j) :
           got[j][pg] = IF pg \in PagesLeft(j, qfile[j].items) THEN 0 ELSE 1
      /\ state[j] = "done" => PagesLeft(j, qfile[j].items) = {}
      /\ qfile[j].npages + Cardinality(PagesLeft(j, qfile[j].items)) = Cardinality(Pages(j))

\* A job is done only when the other side has confirmed all of its pages, be it
\* aborted or reformatted on the way, when its documents may be sent again.  A
\* document that vanishes after another was sent, or a crash with a status of
\* done in the queue file, ends a job without its pages (README).
DoneMeansSent ==
  faults \subseteq {"abort", "format"} =>
    \A j \in Jobs : state[j] = "done" => \A pg \in Pages(j) : got[j][pg] >= 1

\* faxsend leaves a batch as FaxQueue takes it: sent up to some job, and what
\* comes after it is to be retried, untried; and the modem is hung up and
\* unlocked.  Until then it is never on line without being locked.
BatchOutcome ==
  /\ ~At("off") => (fs.connected => fs.locked)
  /\ At("exit") /\ "crash" \notin faults => ~fs.locked /\ ~fs.connected
  /\ At("exit") /\ faults \subseteq {"abort", "vanish", "format"} =>
    \E stop \in 1..Len(fs.batch) + 1 : \A i \in DOMAIN fs.batch :
      /\ i < stop => qfile[fs.batch[i]].status = "done"
      /\ i = stop => qfile[fs.batch[i]].status # "done"
      /\ i > stop => qfile[fs.batch[i]].status = "retry"

\* A crash loses the count of the call it interrupts.
Lost == IF "crash" \in faults THEN 1 ELSE 0

\* However the calls end, and whatever the queue files say, no more calls are
\* really made for a job than maxdials, and it is tried no more than maxtries
\* times in calls that are answered, but for one that a crash has interrupted.
\* The limits are looked at in two places, in faxsend only by equality and in
\* faxq only for the first job of a batch, and on counts that faxsend, its
\* children and faxq write at different times, and that go up for a job when
\* the call of another fails (Share).  A call that finds the line busy is no
\* call under -B; an abort and a reformat step past the limits (README).
LimitsKept ==
  faults \cap {"abort", "format"} = {} =>
  \A j \in Jobs : made[j].dials <= MaxDials + Lost /\ made[j].tries <= MaxTries + Lost

\* What the code retries without counting it: a modem that cannot be locked or
\* never gets ready, and a line that is busy under -B.
Uncounted == CannotLock \/ NotReady \/ (NoFailBusy /\ DialFails("BUSY"))

\* Every job is sent or given up, unless such calls go on without end.
JobsEnd == []<><<Uncounted>>_vars \/ <>[](Ready = {})
=============================================================================
