-------------------------- MODULE JobServiceProofs --------------------------
(***************************************************************************)
(* What hfaxd promises a client about its jobs, for any number of clients, *)
(* jobs and restarts of faxq: a job that was said to be submitted stays    *)
(* with faxq until it is deleted, and hfaxd puts no queue file back and    *)
(* touches none that faxq works with.                                      *)
(*                                                                         *)
(* The argument is one of turns.  A session that has a request out waits   *)
(* (Requests): so while it has looked at a job and not yet acted, faxq has *)
(* nothing of it to do that could change the file of a job at rest, and    *)
(* what it saw still holds (Handling).                                     *)
(***************************************************************************)
EXTENDS JobService, SequenceTheorems, TLAPS

Letters == {"S", "X", "K", "U", "T"}
Ops == {"JSUBM", "JSUSP", "JKILL", "JDELE", "JWAIT", "HELLO"}
Stages == {"unknown", "suspended", "queued", "active", "held"}

FileType ==
  [at : {"unborn", "sendq", "doneq", "gone"}, state : JobStates, rev : Nat,
   imaged : BOOLEAN, calls : Nat, owner : Sessions \cup {None}]
CopyType == [at : {"sendq", "doneq"}, state : JobStates, rev : Nat, imaged : BOOLEAN]
FrameType == [op : Ops, job : Jobs, at : {"checked", "asked", "sleep", "watch"}]
TriggerType == [by : Sessions, job : Jobs \cup {None}]
WaitType == [cmd : {"X", "K"}, job : Jobs, from : Sessions, over : BOOLEAN]
RequestType == [cmd : Letters, job : Jobs, from : Sessions] \cup [cmd : {"D"}, tid : Tids]
ReplyType ==
  [cmd : {"S", "X", "K", "U", "H"}, ok : BOOLEAN] \cup [cmd : {"T"}, ok : {TRUE}, tid : Tids]
  \cup [cmd : {"T"}, ok : {FALSE}]
AnswerType == ReplyType \cup [cmd : {"abort"}, ok : {FALSE}]
MessageType == [cmd : {"event"}, job : Jobs, state : JobStates] \cup ReplyType

\* Every variable the argument is about keeps its type.
Typed ==
  /\ file \in [Jobs -> FileType] /\ locker \in [Jobs -> Sessions \cup {None}]
  /\ stage \in [Jobs -> Stages] /\ waits \in Seq(WaitType)
  /\ fifo \in Seq(RequestType)
  /\ triggers \in [Tids -> TriggerType \cup {None}]
  /\ online \subseteq Sessions /\ newer \subseteq Sessions \X Jobs
  /\ mem \in [Sessions -> [Jobs -> CopyType \cup {None}]]
  /\ cur \in [Sessions -> Jobs \cup {None}] /\ spec \in [Sessions -> Jobs \cup {None}]
  /\ blank \in [Sessions -> SUBSET Jobs] /\ task \in [Sessions -> Seq(FrameType)]
  /\ waitfifo \in [Sessions -> BOOLEAN] /\ inbox \in [Sessions -> Seq(MessageType)]
  /\ response \in [Sessions -> AnswerType \cup {None}] /\ tid \in [Sessions -> Tids]
  /\ confirmed \in [Jobs -> Nat \cup {None}] /\ strayed \subseteq Strays

\* A client and its session have to do with the client's own jobs only.
OwnedBy(s) ==
  /\ \A j \in Jobs : mem[s][j] # None => file[j].owner = s
  /\ \A j \in Jobs : cur[s] = j \/ spec[s] = j \/ j \in blank[s] => file[j].owner = s
  /\ \A i \in DOMAIN task[s] : file[task[s][i].job].owner = s
  /\ \A i \in DOMAIN inbox[s] :
       inbox[s][i].cmd = "event" => file[inbox[s][i].job].owner = s

\* So has what is on its way to faxq, and what faxq keeps.
OwnedThere ==
  /\ \A j \in Jobs : file[j].at = "unborn" => file[j].owner = None
  /\ \A i \in DOMAIN fifo : fifo[i].cmd # "D" => file[fifo[i].job].owner = fifo[i].from
  /\ \A i \in DOMAIN waits : file[waits[i].job].owner = waits[i].from
  /\ \A t \in Tids, s \in Sessions, j \in Jobs :
       triggers[t] = [by |-> s, job |-> j] => file[j].owner = s

\* A command is checked before anything else is under way; above it, only the
\* answer of the session to a restart of faxq.
FramesOf(s) ==
  /\ s \notin online => task[s] = <<>>
  /\ strayed = {} /\ waitfifo[s] => task[s] # <<>> /\ Top(s).at = "asked"
  /\ Top(s).at = "asked" => waitfifo[s] \/ response[s] \in AnswerType
  /\ \A i \in DOMAIN task[s] :
       /\ i > 1 => task[s][i].op = "HELLO"
       /\ task[s][i].op = "HELLO" => task[s][i].at = "asked"
       /\ task[s][i].at = "checked" => Len(task[s]) = 1 /\ mem[s][task[s][i].job] # None
       /\ task[s][i].at \in {"sleep", "watch"} => task[s][i].op = "JWAIT"

\* As long as nothing has strayed, the session waits for no answer.
AtEase(s) == strayed = {} => ~waitfifo[s]

\* A session that submits a job has a copy of it, and the job has a file.
SubmittedBy(s) ==
  \A i \in DOMAIN task[s] : task[s][i].op = "JSUBM" /\ task[s][i].at = "asked" =>
    mem[s][task[s][i].job] \in CopyType /\ file[task[s][i].job].at \in {"sendq", "doneq"}

\* faxq has the job, or it is over.
Accepted(j) == (Present(j) /\ stage[j] # "unknown") \/ file[j].at = "doneq"

\* The request a session waits for is in one place only: in the FIFO, in the
\* hands of suspendJob, or answered.
Requested(s, cmd, job) == waitfifo[s] /\ cmd = Letter(Top(s).op) /\ job = Top(s).job
By(m, s) == m.cmd # "D" /\ m.from = s
IsAnswer(m) == m.cmd \in Letters
RequestsOf(s) ==
  /\ \A i \in DOMAIN fifo : By(fifo[i], s) =>
       /\ Requested(s, fifo[i].cmd, fifo[i].job)
       /\ \A k \in DOMAIN fifo : By(fifo[k], s) => k = i
       /\ \A k \in DOMAIN waits : waits[k].from # s
       /\ \A k \in DOMAIN inbox[s] : ~IsAnswer(inbox[s][k])
  /\ \A i \in DOMAIN waits : waits[i].from = s =>
       /\ Requested(s, waits[i].cmd, waits[i].job)
       /\ \A k \in DOMAIN waits : waits[k].from = s => k = i
       /\ \A k \in DOMAIN inbox[s] : ~IsAnswer(inbox[s][k])
  /\ \A i \in DOMAIN inbox[s] : IsAnswer(inbox[s][i]) =>
       /\ Requested(s, inbox[s][i].cmd, Top(s).job)
       /\ \A k \in DOMAIN inbox[s] : IsAnswer(inbox[s][k]) => k = i

\* A submission is confirmed only if faxq has accepted the job.
BelievedBy(s) ==
  /\ \A i \in DOMAIN inbox[s] :
       inbox[s][i].cmd = "S" /\ inbox[s][i].ok => Accepted(Top(s).job)
  /\ Top(s).at = "asked" /\ ~waitfifo[s] =>
       /\ Top(s).op = "HELLO" => response[s].cmd # "S"
       /\ Top(s).op = "JSUBM" /\ response[s].cmd = "S" /\ response[s].ok => Accepted(Top(s).job)

\* A session is told only of jobs that are over, or that are gone.
EventsOf(s) ==
  \A i \in DOMAIN inbox[s] : inbox[s][i].cmd = "event" =>
    LET j == inbox[s][i].job IN
    file[j].at = "gone" \/ (file[j].at = "doneq" /\ inbox[s][i].state \in Ended)

\* A copy that is not marked as older says the same as the file.
GoodCopy(j, copy) == copy.rev >= file[j].rev /\ (copy.state \in Ended <=> copy.at = "doneq")
Current(j, copy) == copy.at = "sendq" /\ file[j].at = "sendq" => copy.state = file[j].state
CopiesOf(s) ==
  \A j \in Jobs : mem[s][j] # None =>
    GoodCopy(j, mem[s][j]) /\ (<<s, j>> \notin newer => Current(j, mem[s][j]))

\* What a session found when it checked a command still holds when it acts,
\* and what it needs of the job when the answer comes.
AtRest(j) == file[j].at = "sendq" /\ file[j].state = "suspended"
Handled(f, j, copy) ==
  /\ f.at = "checked" /\ f.op = "JSUBM" => AtRest(j) /\ copy.at = "sendq" /\ copy.state = "suspended"
  /\ f.at = "checked" /\ f.op = "JDELE" => AtRest(j) \/ file[j].at = "doneq"
  /\ f.at = "asked" /\ f.op = "JDELE" => AtRest(j)
  /\ f.at = "asked" /\ f.op = "JSUBM" => copy.rev = file[j].rev
HandlingOf(s) ==
  \A i \in DOMAIN task[s] : Handled(task[s][i], task[s][i].job, mem[s][task[s][i].job])

\* The queue file of a job says what faxq does with it.
StateIn ==
  [unknown |-> "suspended", suspended |-> "suspended", queued |-> "ready",
   held |-> "ready", active |-> "active"]
Queue ==
  \A j \in Jobs :
    /\ Present(j) => file[j].state = StateIn[stage[j]]
    /\ stage[j] # "unknown" => file[j].at \in {"sendq", "gone"}
    /\ file[j].at = "doneq" => file[j].state \in Ended

Submissions ==
  \A j \in Jobs : confirmed[j] # None =>
    /\ Accepted(j) /\ file[j].rev >= confirmed[j]
    /\ \A s \in Sessions : j \notin blank[s]

\* After a wait was called off answers may be mixed up, and a copy may be taken
\* for a file it is not; until then the state of a session is sound.
Sound(s) ==
  /\ s \in online => RequestsOf(s) /\ BelievedBy(s)
  /\ EventsOf(s) /\ CopiesOf(s) /\ HandlingOf(s)
Own(s) == OwnedBy(s) /\ FramesOf(s) /\ SubmittedBy(s)

Inv ==
  /\ Typed /\ OwnedThere /\ \A s \in Sessions : Own(s)
  /\ strayed = {} => Queue /\ Submissions /\ \A s \in Sessions : Sound(s)

-----------------------------------------------------------------------------
(* Sequences *)

LEMMA AppendFacts ==
  ASSUME NEW S, NEW q \in Seq(S), NEW e \in S
  PROVE  /\ Append(q, e) \in Seq(S) /\ Append(q, e) # <<>>
         /\ Len(Append(q, e)) = Len(q) + 1 /\ Len(q) \in Nat
         /\ DOMAIN q = 1..Len(q) /\ DOMAIN Append(q, e) = 1..(Len(q) + 1)
         /\ \A i \in 1..Len(q) : Append(q, e)[i] = q[i]
         /\ Append(q, e)[Len(q) + 1] = e
BY AppendProperties, LenProperties

\* The rest of a queue, and its front without the last.
LEMMA TailFacts ==
  ASSUME NEW S, NEW q \in Seq(S), q # <<>>
  PROVE  /\ Tail(q) \in Seq(S) /\ Head(q) = q[1] /\ q[1] \in S
         /\ Len(q) \in Nat \ {0} /\ DOMAIN q = 1..Len(q)
         /\ DOMAIN Tail(q) = 1..(Len(q) - 1)
         /\ \A i \in 1..(Len(q) - 1) : Tail(q)[i] = q[i + 1]
<1>1. Len(q) \in Nat \ {0} /\ DOMAIN q = 1..Len(q)
  BY EmptySeq, LenProperties
<1>2. Tail(q) \in Seq(S) /\ Len(Tail(q)) = Len(q) - 1
      /\ \A i \in 1..Len(Tail(q)) : Tail(q)[i] = q[i + 1]
  BY HeadTailProperties
<1>3. Head(q) = q[1] /\ q[1] \in S
  <2>1. Head(q) = q[1]
    BY HeadTailProperties
  <2>2. 1 \in 1..Len(q)
    BY <1>1
  <2> QED  BY <2>1, <2>2, ElementOfSeq
<1> QED  BY <1>1, <1>2, <1>3, LenProperties

LEMMA FrontFacts ==
  ASSUME NEW S, NEW q \in Seq(S), q # <<>>
  PROVE  /\ Front(q) \in Seq(S) /\ Last(q) = q[Len(q)] /\ q[Len(q)] \in S
         /\ Len(q) \in Nat \ {0} /\ DOMAIN q = 1..Len(q)
         /\ Len(Front(q)) = Len(q) - 1 /\ DOMAIN Front(q) = 1..(Len(q) - 1)
         /\ \A i \in 1..(Len(q) - 1) : Front(q)[i] = q[i]
         /\ Len(q) = 1 => Front(q) = <<>>
<1>1. Len(q) \in Nat \ {0} /\ DOMAIN q = 1..Len(q)
  BY EmptySeq, LenProperties
<1>2. \A i \in 1..(Len(q) - 1) : q[i] \in S
  BY <1>1, ElementOfSeq
<1>3. /\ Front(q) \in Seq(S)
      /\ Len(Front(q)) = IF 1 <= Len(q) - 1 THEN Len(q) - 1 - 1 + 1 ELSE 0
      /\ \A i \in 1..(Len(q) - 1 - 1 + 1) : Front(q)[i] = q[1 + i - 1]
  BY <1>1, <1>2, SubSeqProperties DEF Front
<1>4. Len(Front(q)) = Len(q) - 1 /\ \A i \in 1..(Len(q) - 1) : Front(q)[i] = q[i]
  <2>1. Len(Front(q)) = Len(q) - 1
    <3>1. \A n \in Nat \ {0} : (IF 1 <= n - 1 THEN n - 1 - 1 + 1 ELSE 0) = n - 1
      OBVIOUS
    <3> QED  BY <1>1, <1>3, <3>1, Zenon
  <2>2. ASSUME NEW i \in 1..(Len(q) - 1) PROVE Front(q)[i] = q[i]
    <3>1. i \in 1..(Len(q) - 1 - 1 + 1) /\ 1 + i - 1 = i
      BY <1>1
    <3> QED  BY <1>3, <3>1
  <2> QED  BY <2>1, <2>2
<1>5. Last(q) = q[Len(q)] /\ q[Len(q)] \in S
  BY <1>1, ElementOfSeq DEF Last
<1>6. DOMAIN Front(q) = 1..(Len(q) - 1)
  BY <1>3, <1>4, LenProperties
<1>7. ASSUME Len(q) = 1 PROVE Front(q) = <<>>
  BY <1>3, <1>4, <1>7, EmptySeq
<1> QED  BY <1>1, <1>3, <1>4, <1>5, <1>6, <1>7, Zenon

\* A sequence of one element.
LEMMA OnlyElement ==
  ASSUME NEW S, NEW q \in Seq(S), Len(q) = 1, NEW e \in S
  PROVE  [q EXCEPT ![1] = e] \in Seq(S) /\ Len([q EXCEPT ![1] = e]) = 1 /\ [q EXCEPT ![1] = e][1] = e
<1>1. 1 \in 1..Len(q)
  OBVIOUS
<1>2. /\ [q EXCEPT ![1] = e] \in Seq(S) /\ Len([q EXCEPT ![1] = e]) = Len(q)
      /\ \A j \in 1..Len(q) : [q EXCEPT ![1] = e][j] = IF j = 1 THEN e ELSE q[j]
  BY <1>1, ExceptSeq
<1> QED  BY <1>1, <1>2

\* A sequence whose elements are changed one by one.
LEMMA MapFacts ==
  ASSUME NEW S, NEW q, NEW n \in Nat, DOMAIN q = 1..n, q = [i \in DOMAIN q |-> q[i]],
         \A i \in 1..n : q[i] \in S
  PROVE  q \in Seq(S) /\ Len(q) = n
<1>1. q \in [1..n -> S]
  OBVIOUS
<1>2. q \in Seq(S)
  BY <1>1, SeqDef
<1>3. Len(q) \in Nat /\ 1..Len(q) = 1..n
  BY <1>2, LenProperties
<1> QED  BY <1>2, <1>3

-----------------------------------------------------------------------------
(* Handlers under way *)

NoFrame == [op |-> "parse", job |-> None, at |-> "idle"]

\* The handler a session runs is the last frame of its task.
LEMMA TopFacts ==
  ASSUME NEW q \in Seq(FrameType)
  PROVE  /\ q = <<>> => Last(<<NoFrame>> \o q) = NoFrame
         /\ q # <<>> => /\ Len(q) \in Nat \ {0} /\ DOMAIN q = 1..Len(q)
                        /\ Last(<<NoFrame>> \o q) = q[Len(q)] /\ q[Len(q)] \in FrameType
<1> DEFINE all == <<NoFrame>> \o q
<1>1. <<NoFrame>> \in Seq({NoFrame} \cup FrameType) /\ Len(<<NoFrame>>) = 1
      /\ <<NoFrame>>[1] = NoFrame
  OBVIOUS
<1>2. q \in Seq({NoFrame} \cup FrameType)
  BY SeqMonotonic, Zenon
<1>3. /\ Len(all) = 1 + Len(q)
      /\ \A i \in 1..(1 + Len(q)) : all[i] = IF i <= 1 THEN NoFrame ELSE q[i - 1]
  <2> HIDE DEF NoFrame
  <2> QED  BY <1>1, <1>2, ConcatProperties
<1>4. Len(q) \in Nat /\ Last(<<NoFrame>> \o q) = all[Len(all)]
  BY LenProperties DEF Last
<1>5. CASE q = <<>>
  <2>1. Len(q) = 0
    BY <1>5, EmptySeq
  <2> HIDE DEF all
  <2> QED  BY <1>3, <1>4, <1>5, <2>1
<1>6. CASE q # <<>>
  <2>1. Len(q) \in Nat \ {0} /\ DOMAIN q = 1..Len(q)
    BY <1>6, EmptySeq, LenProperties
  <2>2. q[Len(q)] \in FrameType
    BY <2>1, ElementOfSeq
  <2> HIDE DEF all
  <2> QED  BY <1>3, <1>4, <1>6, <2>1, <2>2
<1> QED  BY <1>5, <1>6

\* The innermost handler.
LEMMA TopIs ==
  ASSUME NEW s, task[s] \in Seq(FrameType)
  PROVE  /\ task[s] = <<>> => Top(s) = NoFrame
         /\ task[s] # <<>> => /\ Len(task[s]) \in Nat \ {0} /\ DOMAIN task[s] = 1..Len(task[s])
                              /\ Top(s) = task[s][Len(task[s])] /\ Top(s) \in FrameType
BY TopFacts DEF Top, NoFrame

\* The same of the state after a step.
LEMMA TopIsNow ==
  ASSUME NEW s, task'[s] \in Seq(FrameType)
  PROVE  /\ task'[s] = <<>> => Top(s)' = NoFrame
         /\ task'[s] # <<>> => /\ Len(task'[s]) \in Nat \ {0} /\ DOMAIN task'[s] = 1..Len(task'[s])
                               /\ Top(s)' = task'[s][Len(task'[s])] /\ Top(s)' \in FrameType
BY TopFacts DEF Top, NoFrame

\* What is woken keeps its place.
LEMMA AwakeFacts ==
  ASSUME NEW q \in Seq(FrameType)
  PROVE  /\ Awake(q) \in Seq(FrameType) /\ Len(Awake(q)) = Len(q) /\ Len(q) \in Nat
         /\ DOMAIN Awake(q) = 1..Len(q) /\ DOMAIN q = 1..Len(q)
         /\ \A i \in 1..Len(q) :
              /\ Awake(q)[i].op = q[i].op /\ Awake(q)[i].job = q[i].job
              /\ Awake(q)[i].at = IF q[i].at = "sleep" THEN "watch" ELSE q[i].at
<1>1. Len(q) \in Nat /\ DOMAIN q = 1..Len(q)
  BY LenProperties
<1>2. \A i \in 1..Len(q) : q[i] \in FrameType
  BY ElementOfSeq
<1>3. \A i \in 1..Len(q) :
        /\ Awake(q)[i] = IF q[i].at = "sleep" THEN [q[i] EXCEPT !.at = "watch"] ELSE q[i]
        /\ Awake(q)[i] \in FrameType
  BY <1>1, <1>2 DEF Awake, FrameType
<1>4. Awake(q) = [i \in DOMAIN Awake(q) |-> Awake(q)[i]] /\ DOMAIN Awake(q) = 1..Len(q)
  BY <1>1 DEF Awake
<1>5. Awake(q) \in Seq(FrameType) /\ Len(Awake(q)) = Len(q)
  BY <1>1, <1>3, <1>4, MapFacts
<1>6. \A i \in 1..Len(q) :
        /\ Awake(q)[i].op = q[i].op /\ Awake(q)[i].job = q[i].job
        /\ Awake(q)[i].at = IF q[i].at = "sleep" THEN "watch" ELSE q[i].at
  BY <1>2, <1>3 DEF FrameType
<1> QED  BY <1>1, <1>4, <1>5, <1>6
-----------------------------------------------------------------------------
(* What the other sessions know is left alone by a step of session s *)

StepOf(s) ==
  /\ s \in online /\ UNCHANGED <<stage, waits, triggers>>
  /\ \A r \in Sessions \ {s} :
       /\ mem'[r] = mem[r] /\ cur'[r] = cur[r] /\ spec'[r] = spec[r] /\ blank'[r] = blank[r]
       /\ task'[r] = task[r] /\ inbox'[r] = inbox[r] /\ waitfifo'[r] = waitfifo[r]
       /\ response'[r] = response[r] /\ (r \in online' <=> r \in online)
       /\ \A j \in Jobs : <<r, j>> \in newer => <<r, j>> \in newer'
  /\ \A j \in Jobs :
       \/ file'[j] = file[j]
       \/ file'[j].owner = s /\ file[j].owner \in {s, None} /\ file'[j].at # "unborn"
  /\ \/ fifo' = fifo
     \/ \E m \in RequestType :
          fifo' = Append(fifo, m) /\ (m.cmd # "D" => m.from = s /\ file[m.job].owner = s)
  /\ strayed \subseteq strayed'

\* No session and no job is None.
LEMMA NoneIsNobody ==
  /\ None \notin Sessions /\ None \notin Jobs
  /\ \A s \in Sessions, j \in Jobs : None # [by |-> s, job |-> j]
BY ServiceAssumption

\* A job that has an owner keeps it.
LEMMA OwnersStay ==
  ASSUME NEW s \in Sessions, StepOf(s), NEW r \in Sessions, NEW j \in Jobs, file[j].owner = r
  PROVE  file'[j].owner = r
BY NoneIsNobody DEF StepOf

\* What the step of one session leaves to the others.
LEMMA FilesStay ==
  ASSUME NEW s \in Sessions, StepOf(s), NEW r \in Sessions \ {s}, NEW j \in Jobs,
         file[j].owner = r
  PROVE  file'[j] = file[j]
BY NoneIsNobody DEF StepOf

\* A job that exists keeps an owner.
LEMMA OwnedThereStays ==
  ASSUME Inv, NEW s \in Sessions, StepOf(s), Typed'
  PROVE  OwnedThere'
<1>1. \A j \in Jobs : file'[j].at = "unborn" => file'[j].owner = None
  BY DEF StepOf, Inv, OwnedThere
<1>2. \A i \in DOMAIN fifo' : fifo'[i].cmd # "D" => file'[fifo'[i].job].owner = fifo'[i].from
  <2> SUFFICES ASSUME NEW i \in DOMAIN fifo', fifo'[i].cmd # "D"
               PROVE  file'[fifo'[i].job].owner = fifo'[i].from
    OBVIOUS
  <2>0. fifo \in Seq(RequestType) /\ \A k \in DOMAIN fifo : fifo[k] \in RequestType
    BY LenProperties, ElementOfSeq DEF Inv, Typed
  <2>1. \A k \in DOMAIN fifo : fifo[k].cmd # "D" =>
           fifo[k].job \in Jobs /\ fifo[k].from \in Sessions /\ file[fifo[k].job].owner = fifo[k].from
    BY <2>0 DEF Inv, OwnedThere, RequestType
  <2>2. CASE fifo' = fifo
    BY <2>1, <2>2, OwnersStay
  <2>3. ASSUME NEW m \in RequestType, fifo' = Append(fifo, m),
               m.cmd # "D" => m.from = s /\ file[m.job].owner = s
        PROVE  file'[fifo'[i].job].owner = fifo'[i].from
    <3>1. DOMAIN fifo = 1..Len(fifo) /\ Len(fifo) \in Nat /\ i \in 1..(Len(fifo) + 1)
      BY <2>0, <2>3, AppendFacts
    <3>2. CASE i \in DOMAIN fifo
      <4>1. fifo'[i] = fifo[i]
        BY <2>0, <2>3, <3>1, <3>2, AppendFacts
      <4> QED  BY <2>1, <3>2, <4>1, OwnersStay
    <3>3. CASE i \notin DOMAIN fifo
      <4>1. fifo'[i] = m
        BY <2>0, <2>3, <3>1, <3>3, AppendFacts
      <4>2. m.job \in Jobs /\ m.from = s /\ file[m.job].owner = s
        BY <2>3, <4>1 DEF RequestType
      <4> QED  BY <4>1, <4>2, OwnersStay
    <3> QED  BY <3>2, <3>3
  <2> QED  BY <2>2, <2>3 DEF StepOf
<1>3. \A i \in DOMAIN waits' : file'[waits'[i].job].owner = waits'[i].from
  <2>0. waits \in Seq(WaitType)
    BY DEF Inv, Typed
  <2>1. \A i \in DOMAIN waits : waits[i].job \in Jobs /\ waits[i].from \in Sessions
    <3>1. \A i \in DOMAIN waits : waits[i] \in WaitType
      BY <2>0, LenProperties, ElementOfSeq
    <3> QED  BY <3>1 DEF WaitType
  <2>2. waits' = waits
    BY DEF StepOf
  <2> QED  BY <2>1, <2>2, OwnersStay DEF Inv, OwnedThere
<1>4. \A t \in Tids, r \in Sessions, j \in Jobs :
        triggers'[t] = [by |-> r, job |-> j] => file'[j].owner = r
  <2>1. triggers' = triggers
    BY DEF StepOf
  <2> QED  BY <2>1, OwnersStay DEF Inv, OwnedThere
<1> QED  BY <1>1, <1>2, <1>3, <1>4 DEF OwnedThere

\* The elements of the sequences of a session.
LEMMA ElementTypes ==
  ASSUME Typed, NEW s \in Sessions
  PROVE  /\ task[s] \in Seq(FrameType) /\ inbox[s] \in Seq(MessageType)
         /\ \A i \in DOMAIN task[s] : task[s][i] \in FrameType /\ task[s][i].job \in Jobs
         /\ \A i \in DOMAIN inbox[s] :
              /\ inbox[s][i] \in MessageType
              /\ inbox[s][i].cmd = "event" => inbox[s][i].job \in Jobs
<1>1. task[s] \in Seq(FrameType) /\ inbox[s] \in Seq(MessageType)
  BY DEF Typed
<1>2. \A i \in DOMAIN task[s] : task[s][i] \in FrameType
  BY <1>1, LenProperties, ElementOfSeq
<1>3. \A i \in DOMAIN inbox[s] : inbox[s][i] \in MessageType
  BY <1>1, LenProperties, ElementOfSeq
<1>4. \A m \in MessageType : m.cmd = "event" => m.job \in Jobs
  BY DEF MessageType, ReplyType, Letters
<1> QED  BY <1>1, <1>2, <1>3, <1>4 DEF FrameType

\* The step of one session disturbs nothing another one keeps of its own,
LEMMA OthersOwn ==
  ASSUME Inv, NEW s \in Sessions, StepOf(s), NEW r \in Sessions \ {s}
  PROVE  Own(r)'
<1>1. /\ mem'[r] = mem[r] /\ cur'[r] = cur[r] /\ spec'[r] = spec[r] /\ blank'[r] = blank[r]
      /\ task'[r] = task[r] /\ inbox'[r] = inbox[r] /\ waitfifo'[r] = waitfifo[r]
      /\ response'[r] = response[r] /\ (r \in online' <=> r \in online)
      /\ strayed' = {} => strayed = {}
  BY DEF StepOf
<1>2. Own(r) /\ Typed
  BY DEF Inv
<1>3. OwnedBy(r)'
  BY <1>1, <1>2, OwnersStay, ElementTypes DEF Own, OwnedBy
<1>4. Top(r)' = Top(r)
  BY <1>1 DEF Top
<1>5. FramesOf(r)'
  BY <1>1, <1>2, <1>4 DEF Own, FramesOf
<1>6. SubmittedBy(r)'
  <2>1. \A i \in DOMAIN task[r] : task[r][i].job \in Jobs /\ file[task[r][i].job].owner = r
    BY <1>2, ElementTypes DEF Own, OwnedBy
  <2>2. \A i \in DOMAIN task[r] : file'[task[r][i].job] = file[task[r][i].job]
    BY <2>1, FilesStay
  <2> QED  BY <1>1, <1>2, <2>2 DEF Own, SubmittedBy
<1> QED  BY <1>3, <1>5, <1>6 DEF Own

\* nor what another one believes of the queue.
LEMMA OthersSound ==
  ASSUME Inv, strayed = {}, NEW s \in Sessions, StepOf(s), Typed', NEW r \in Sessions \ {s}
  PROVE  Sound(r)'
<1>1. /\ mem'[r] = mem[r] /\ task'[r] = task[r] /\ inbox'[r] = inbox[r]
      /\ waitfifo'[r] = waitfifo[r] /\ response'[r] = response[r]
      /\ (r \in online' <=> r \in online) /\ stage' = stage /\ waits' = waits
      /\ \A j \in Jobs : <<r, j>> \in newer => <<r, j>> \in newer'
  BY DEF StepOf
<1>2. Own(r) /\ Sound(r) /\ Typed
  BY DEF Inv
<1>3. Top(r)' = Top(r)
  BY <1>1 DEF Top
<1>4. \A j \in Jobs : file[j].owner = r => file'[j] = file[j]
  BY FilesStay
<1>5. EventsOf(r)'
  BY <1>1, <1>2, <1>4, ElementTypes DEF Own, OwnedBy, Sound, EventsOf
<1>6. CopiesOf(r)'
  BY <1>1, <1>2, <1>4 DEF Own, OwnedBy, Sound, CopiesOf, GoodCopy, Current
<1>7. HandlingOf(r)'
  <2>1. ASSUME NEW i \in DOMAIN task[r], NEW f, f = task[r][i], NEW j, j = task[r][i].job
        PROVE  Handled(f, j, mem[r][j])'
    <3>1. j \in Jobs /\ file[j].owner = r
      BY <1>2, <2>1, ElementTypes DEF Own, OwnedBy
    <3>2. Handled(f, j, mem[r][j])
      BY <1>2, <2>1 DEF Sound, HandlingOf
    <3> QED  BY <1>1, <1>4, <3>1, <3>2 DEF Handled, AtRest
  <2> QED  BY <1>1, <2>1 DEF HandlingOf
<1>8. ASSUME r \in online PROVE RequestsOf(r)'
  <2>0. RequestsOf(r) /\ fifo \in Seq(RequestType) /\ DOMAIN fifo = 1..Len(fifo) /\ Len(fifo) \in Nat
    BY <1>2, <1>8, LenProperties DEF Sound, Typed
  <2>1. \A i \in DOMAIN fifo' : By(fifo'[i], r) => i \in DOMAIN fifo /\ fifo'[i] = fifo[i]
    <3>1. CASE fifo' = fifo
      BY <3>1
    <3>2. ASSUME NEW m \in RequestType, fifo' = Append(fifo, m), m.cmd # "D" => m.from = s,
                 NEW i \in DOMAIN fifo', By(fifo'[i], r)
          PROVE  i \in DOMAIN fifo /\ fifo'[i] = fifo[i]
      BY <2>0, <3>2, AppendFacts DEF By
    <3> QED  BY <3>1, <3>2 DEF StepOf
  <2>2. \A c, j : Requested(r, c, j) => Requested(r, c, j)'
    BY <1>1, <1>3 DEF Requested
  <2> QED  BY <1>1, <1>3, <2>0, <2>1, <2>2 DEF RequestsOf, Requested
<1>9. ASSUME r \in online PROVE BelievedBy(r)'
  <2>1. BelievedBy(r) /\ RequestsOf(r) /\ FramesOf(r) /\ OwnedBy(r) /\ task[r] \in Seq(FrameType)
    BY <1>2, <1>9, ElementTypes DEF Sound, Own
  <2>2. CASE task[r] = <<>>
    <3>0. Top(r) = NoFrame
      BY <2>1, <2>2, TopIs
    <3>1. Top(r).at # "asked" /\ ~waitfifo[r]
      <4>1. Top(r).at = "idle"
        BY <3>0 DEF NoFrame
      <4>2. waitfifo[r] => Top(r).at = "asked"
        BY <2>1 DEF FramesOf
      <4> QED  BY <4>1, <4>2
    <3>2. \A i \in DOMAIN inbox[r] : ~IsAnswer(inbox[r][i])
      BY <2>1, <3>1 DEF RequestsOf, Requested
    <3> QED  BY <1>1, <1>3, <3>1, <3>2 DEF BelievedBy, IsAnswer, Letters
  <2>3. CASE task[r] # <<>>
    <3>1. Top(r).job \in Jobs /\ file[Top(r).job].owner = r
      BY <2>1, <2>3, <1>2, TopIs, ElementTypes DEF OwnedBy
    <3>2. Accepted(Top(r).job) => Accepted(Top(r).job)'
      BY <1>1, <1>3, <1>4, <3>1 DEF Accepted, Present
    <3> QED  BY <1>1, <1>3, <2>1, <3>2 DEF BelievedBy
  <2> QED  BY <2>2, <2>3
<1> QED  BY <1>1, <1>5, <1>6, <1>7, <1>8, <1>9 DEF Sound
-----------------------------------------------------------------------------
(* What a step of session s has to keep for itself *)

Kept(s) ==
  /\ StepOf(s) /\ Typed' /\ Own(s)'
  /\ strayed' = {} => Queue' /\ Submissions' /\ Sound(s)'

\* So a step of a session has to be followed at that session only.
LEMMA KeptIsEnough ==
  ASSUME Inv, NEW s \in Sessions, Kept(s)
  PROVE  Inv'
<1>1. OwnedThere'
  BY OwnedThereStays DEF Kept
<1>2. ASSUME NEW r \in Sessions PROVE Own(r)'
  <2>1. CASE r = s
    BY <2>1 DEF Kept
  <2>2. CASE r # s
    BY <2>2, OthersOwn DEF Kept
  <2> QED  BY <2>1, <2>2
<1>3. ASSUME strayed' = {}, NEW r \in Sessions PROVE Sound(r)'
  <2>1. CASE r = s
    BY <1>3, <2>1 DEF Kept
  <2>2. CASE r # s
    <3>1. strayed = {}
      BY <1>3 DEF Kept, StepOf
    <3> QED  BY <2>2, <3>1, OthersSound DEF Kept
  <2> QED  BY <2>1, <2>2
<1> QED  BY <1>1, <1>2, <1>3 DEF Inv, Kept

\* A session that waits for no answer has no request under way.
Quiet(s) ==
  /\ \A i \in DOMAIN fifo : ~By(fifo[i], s)
  /\ \A i \in DOMAIN waits : waits[i].from # s
  /\ \A i \in DOMAIN inbox[s] : ~IsAnswer(inbox[s][i])

\* A session that waits for no answer has no request under way.
LEMMA NoRequests ==
  ASSUME NEW s, RequestsOf(s), ~waitfifo[s]
  PROVE  Quiet(s)
BY DEF RequestsOf, Requested, Quiet

\* Nothing is asked of a session between two commands.
LEMMA QuietIsSound ==
  ASSUME NEW s, Quiet(s)
  PROVE  RequestsOf(s)
BY DEF RequestsOf, Quiet

\* It stays so unless it sends a request.
LEMMA StaysQuiet ==
  ASSUME Typed, NEW s \in Sessions, RequestsOf(s), ~waitfifo[s], waits' = waits,
         \/ fifo' = fifo
         \/ \E t \in Tids : fifo' = Append(fifo, [cmd |-> "D", tid |-> t]),
         inbox'[s] = inbox[s] \/ (inbox[s] # <<>> /\ inbox'[s] = Tail(inbox[s]))
  PROVE  Quiet(s)' /\ RequestsOf(s)'
<1>1. Quiet(s)
  BY NoRequests
<1>2. fifo \in Seq(RequestType) /\ inbox[s] \in Seq(MessageType)
  BY DEF Typed
<1>3. \A i \in DOMAIN fifo' : ~By(fifo'[i], s)
  <2>1. CASE fifo' = fifo
    BY <1>1, <2>1 DEF Quiet
  <2>2. ASSUME NEW t \in Tids, fifo' = Append(fifo, [cmd |-> "D", tid |-> t]), NEW i \in DOMAIN fifo'
        PROVE  ~By(fifo'[i], s)
    <3>1. [cmd |-> "D", tid |-> t] \in RequestType
      BY DEF RequestType
    <3>2. i = Len(fifo) + 1 \/ (i \in DOMAIN fifo /\ fifo'[i] = fifo[i])
      BY <1>2, <2>2, <3>1, AppendFacts
    <3>3. i = Len(fifo) + 1 => fifo'[i].cmd = "D"
      BY <1>2, <2>2, <3>1, AppendFacts
    <3> QED  BY <1>1, <3>2, <3>3 DEF Quiet, By
  <2> QED  BY <2>1, <2>2
<1>4. \A i \in DOMAIN inbox'[s] : ~IsAnswer(inbox'[s][i])
  <2>1. CASE inbox'[s] = inbox[s]
    BY <1>1, <2>1 DEF Quiet
  <2>2. ASSUME inbox[s] # <<>>, inbox'[s] = Tail(inbox[s]), NEW i \in DOMAIN inbox'[s]
        PROVE  ~IsAnswer(inbox'[s][i])
    <3>1. i + 1 \in DOMAIN inbox[s] /\ inbox'[s][i] = inbox[s][i + 1]
      BY <1>2, <2>2, TailFacts
    <3> QED  BY <1>1, <3>1 DEF Quiet
  <2> QED  BY <2>1, <2>2
<1>5. Quiet(s)'
  BY <1>1, <1>3, <1>4 DEF Quiet
<1> QED  BY <1>5 DEF RequestsOf, Quiet

\* When it sends one, this is the only one.
LEMMA Asks ==
  ASSUME Typed, NEW s \in Sessions, RequestsOf(s), ~waitfifo[s], waits' = waits,
         NEW op \in Ops, NEW j \in Jobs, Ask(s, op, j),
         Top(s)'.op = op, Top(s)'.job = j,
         inbox'[s] = inbox[s] \/ (inbox[s] # <<>> /\ inbox'[s] = Tail(inbox[s]))
  PROVE  RequestsOf(s)' /\ \A i \in DOMAIN inbox'[s] : ~IsAnswer(inbox'[s][i])
<1>1. Quiet(s)
  BY NoRequests
<1>2. fifo \in Seq(RequestType) /\ inbox[s] \in Seq(MessageType) /\ waitfifo \in [Sessions -> BOOLEAN]
  BY DEF Typed
<1>3. \A i \in DOMAIN inbox'[s] : ~IsAnswer(inbox'[s][i])
  <2>1. CASE inbox'[s] = inbox[s]
    BY <1>1, <2>1 DEF Quiet
  <2>2. ASSUME inbox[s] # <<>>, inbox'[s] = Tail(inbox[s]), NEW i \in DOMAIN inbox'[s]
        PROVE  ~IsAnswer(inbox'[s][i])
    <3>1. i + 1 \in DOMAIN inbox[s] /\ inbox'[s][i] = inbox[s][i + 1]
      BY <1>2, <2>2, TailFacts
    <3> QED  BY <1>1, <3>1 DEF Quiet
  <2> QED  BY <2>1, <2>2
<1> DEFINE m == [cmd |-> Letter(op), job |-> j, from |-> s]
<1>4. m \in RequestType /\ fifo' = Append(fifo, m) /\ waitfifo'[s] = TRUE
  BY <1>2 DEF Ask, RequestType, Letter, Letters, Ops
<1>5. \A i \in DOMAIN fifo' : By(fifo'[i], s) => i = Len(fifo) + 1 /\ fifo'[i] = m
  <2> HIDE DEF m
  <2> TAKE i \in DOMAIN fifo'
  <2>1. \/ i = Len(fifo) + 1 /\ fifo'[i] = m
        \/ i \in DOMAIN fifo /\ fifo'[i] = fifo[i]
    BY <1>2, <1>4, AppendFacts
  <2> QED  BY <1>1, <2>1 DEF Quiet
<1>6. \A i \in DOMAIN waits' : waits'[i].from # s
  BY <1>1 DEF Quiet
<1>7. Requested(s, m.cmd, m.job)'
  BY <1>4 DEF Requested
<1> QED  BY <1>3, <1>5, <1>6, <1>7 DEF RequestsOf

\* With no handler under way there is little to know.
LEMMA Idle ==
  ASSUME NEW s \in Sessions, task'[s] = <<>>, AtEase(s)', OwnedBy(s)'
  PROVE  /\ Own(s)' /\ HandlingOf(s)' /\ Top(s)' = NoFrame
         /\ Quiet(s)' => BelievedBy(s)'
<1>1. task'[s] \in Seq(FrameType) /\ DOMAIN task'[s] = {}
  BY EmptySeq, LenProperties
<1>2. Top(s)' = NoFrame
  BY <1>1, TopIsNow
<1>3. Top(s)'.at = "idle"
  BY <1>2 DEF NoFrame
<1>4. FramesOf(s)'
  BY <1>1, <1>3 DEF FramesOf, AtEase
<1>5. HandlingOf(s)'
  BY <1>1 DEF HandlingOf
<1>6. Quiet(s)' => BelievedBy(s)'
  BY <1>3 DEF Quiet, BelievedBy, IsAnswer, Letters
<1>7. SubmittedBy(s)'
  BY <1>1 DEF SubmittedBy
<1> QED  BY <1>2, <1>4, <1>5, <1>6, <1>7 DEF Own

\* With one, it is the innermost.
LEMMA Single ==
  ASSUME NEW s \in Sessions, task'[s] \in Seq(FrameType), Len(task'[s]) = 1,
         NEW f \in FrameType, task'[s][1] = f
  PROVE  Top(s)' = f /\ task'[s] # <<>> /\ DOMAIN task'[s] = {1}
<1>1. task'[s] # <<>> /\ DOMAIN task'[s] = 1..1
  BY EmptySeq, LenProperties
<1>2. Top(s)' = f
  BY <1>1, TopIsNow
<1> QED  BY <1>1, <1>2

\* A session with one frame on its task.
LEMMA SingleOwn ==
  ASSUME NEW s \in Sessions, task'[s] \in Seq(FrameType), Len(task'[s]) = 1,
         NEW f \in FrameType, task'[s][1] = f, s \in online', OwnedBy(s)',
         strayed' = {} /\ waitfifo'[s] => f.at = "asked",
         f.at = "asked" => waitfifo'[s] \/ response'[s] \in AnswerType,
         f.op = "HELLO" => f.at = "asked", f.at \in {"sleep", "watch"} => f.op = "JWAIT",
         f.at = "checked" => mem'[s][f.job] # None,
         f.op = "JSUBM" /\ f.at = "asked" =>
           mem'[s][f.job] \in CopyType /\ file'[f.job].at \in {"sendq", "doneq"}
  PROVE  Own(s)'
<1>1. Top(s)' = f /\ task'[s] # <<>> /\ DOMAIN task'[s] = {1}
  BY Single
<1>2. SubmittedBy(s)'
  BY <1>1 DEF SubmittedBy
<1> QED  BY <1>1, <1>2 DEF Own, FramesOf

\* The handler of a command is the only one when it is the innermost.
LEMMA Alone ==
  ASSUME Typed, NEW s \in Sessions, Own(s), Top(s) # NoFrame,
         Top(s).op # "HELLO" \/ Top(s).at # "asked"
  PROVE  /\ task[s] \in Seq(FrameType) /\ task[s] # <<>> /\ Len(task[s]) = 1
         /\ DOMAIN task[s] = {1} /\ task[s][1] = Top(s)
         /\ Top(s) \in FrameType /\ Top(s).op # "HELLO" /\ s \in online
         /\ file[Top(s).job].owner = s
         /\ (Top(s).at # "asked" => AtEase(s))
         /\ (Top(s).at = "checked" => mem[s][Top(s).job] # None)
         /\ Front(task[s]) = <<>>
<1>1. task[s] \in Seq(FrameType)
  BY DEF Typed
<1>2. task[s] # <<>>
  BY <1>1, TopIs
<1>3. /\ Len(task[s]) \in Nat \ {0} /\ DOMAIN task[s] = 1..Len(task[s])
      /\ Top(s) = task[s][Len(task[s])] /\ Top(s) \in FrameType
  BY <1>1, <1>2, TopIs
<1>4. FramesOf(s) /\ OwnedBy(s)
  BY DEF Own
<1>5. Len(task[s]) = 1 /\ Top(s).op # "HELLO"
  <2>1. Len(task[s]) \in DOMAIN task[s]
    BY <1>3
  <2>2. /\ Len(task[s]) > 1 => Top(s).op = "HELLO"
        /\ Top(s).op = "HELLO" => Top(s).at = "asked"
    BY <1>3, <1>4, <2>1 DEF FramesOf
  <2>3. ASSUME Top(s).op = "HELLO" PROVE FALSE
    BY <2>2, <2>3
  <2>4. Len(task[s]) = 1 \/ Len(task[s]) > 1
    <3>1. Len(task[s]) \in Nat \ {0}
      BY <1>3
    <3>2. \A n \in Nat \ {0} : n = 1 \/ n > 1
      OBVIOUS
    <3> QED  BY <3>1, <3>2, Zenon
  <2> QED  BY <2>2, <2>3, <2>4
<1>6. Front(task[s]) = <<>>
  BY <1>1, <1>2, <1>5, FrontFacts
<1> QED  BY <1>1, <1>2, <1>3, <1>4, <1>5, <1>6 DEF FramesOf, OwnedBy, AtEase

\* A handler that ends uncovers the frame below it,
LEMMA PopFacts ==
  ASSUME Typed, NEW s \in Sessions, Own(s), Top(s) # NoFrame,
         Top(s).op # "HELLO" \/ Top(s).at # "asked", Pop(s)
  PROVE  task' \in [Sessions -> Seq(FrameType)] /\ task'[s] = <<>>
         /\ \A r \in Sessions \ {s} : task'[r] = task[r]
<1>1. task \in [Sessions -> Seq(FrameType)] /\ Front(task[s]) = <<>>
  BY Alone DEF Typed
<1> QED  BY <1>1, EmptySeq DEF Pop

\* and one that goes on only moves its own frame.
LEMMA GoToFacts ==
  ASSUME Typed, NEW s \in Sessions, Own(s), Top(s) # NoFrame,
         Top(s).op # "HELLO" \/ Top(s).at # "asked",
         NEW at \in {"checked", "asked", "sleep", "watch"}, GoTo(s, at)
  PROVE  /\ task' \in [Sessions -> Seq(FrameType)] /\ Len(task'[s]) = 1
         /\ task'[s][1] = [Top(s) EXCEPT !.at = at] /\ [Top(s) EXCEPT !.at = at] \in FrameType
         /\ \A r \in Sessions \ {s} : task'[r] = task[r]
<1>1. /\ task \in [Sessions -> Seq(FrameType)] /\ Len(task[s]) = 1 /\ DOMAIN task[s] = {1}
      /\ task[s][1] = Top(s) /\ Top(s) \in FrameType
  BY Alone DEF Typed
<1>2. [Top(s) EXCEPT !.at = at] \in FrameType
  BY <1>1 DEF FrameType
<1>3. task' = [task EXCEPT ![s] = [task[s] EXCEPT ![1] = [Top(s) EXCEPT !.at = at]]]
  BY <1>1 DEF GoTo
<1> DEFINE q == [task[s] EXCEPT ![1] = [Top(s) EXCEPT !.at = at]]
<1>4. q \in Seq(FrameType) /\ Len(q) = 1 /\ q[1] = [Top(s) EXCEPT !.at = at]
  BY <1>1, <1>2, OnlyElement, Zenon
<1> HIDE DEF q
<1>5. task' = [task EXCEPT ![s] = q]
  BY <1>3 DEF q
<1> QED  BY <1>1, <1>2, <1>4, <1>5
-----------------------------------------------------------------------------
(* Looking at a job *)

\* A file is a record of its type, and its copy a record of that one.
LEMMA FileFacts ==
  ASSUME Typed, NEW j \in Jobs
  PROVE  /\ file[j] \in FileType
         /\ file[j].at \in {"sendq", "doneq"} => Copy(file[j]) \in CopyType
         /\ Copy(file[j]).at = file[j].at /\ Copy(file[j]).state = file[j].state
         /\ Copy(file[j]).rev = file[j].rev
<1>1. file[j] \in FileType
  BY DEF Typed
<1> QED  BY <1>1 DEF FileType, CopyType, Copy

\* What a handler finds: its copy, or the file.
LEMMA LookedFacts ==
  ASSUME Typed, NEW s \in Sessions, NEW j \in Jobs,
         NEW l, l = Looked(s, j)
  PROVE  /\ l.job \in CopyType \cup {None} /\ l.newer \in BOOLEAN /\ l.kept \in BOOLEAN
         /\ l.kept => mem[s][j] # None
         /\ \/ l.job = None /\ ~l.kept /\ file[j].at \notin {"sendq", "doneq"}
            \/ l.job = Copy(file[j]) /\ file[j].at \in {"sendq", "doneq"}
            \/ /\ l.job = mem[s][j] /\ mem[s][j] # None /\ mem[s][j].at = file[j].at
               /\ file[j].at \in {"sendq", "doneq"}
               /\ (l.newer <=> <<s, j>> \in newer)
               /\ (l.newer => Locked(j))
<1>1. mem[s][j] \in CopyType \cup {None} /\ file[j] \in FileType
  BY DEF Typed
<1>2. mem[s][j] # None => mem[s][j].at \in {"sendq", "doneq"}
  BY <1>1 DEF CopyType
<1>3. file[j].at \in {"sendq", "doneq"} => Copy(file[j]) \in CopyType
  BY FileFacts
<1>4. CASE mem[s][j] # None /\ StillThere(s, j)
  <2>1. CASE MustReread(s, j)
    <3>1. l = [job |-> Copy(file[j]), newer |-> FALSE, kept |-> TRUE]
      BY <1>4, <2>1 DEF Looked
    <3>2. file[j].at \in {"sendq", "doneq"}
      BY <1>2, <1>4 DEF StillThere
    <3>3. l.job = Copy(file[j]) /\ l.newer = FALSE /\ l.kept = TRUE
      BY <3>1
    <3> QED  BY <1>3, <1>4, <3>2, <3>3
  <2>2. CASE ~MustReread(s, j)
    <3>1. l = [job |-> mem[s][j], newer |-> <<s, j>> \in newer, kept |-> TRUE]
      BY <1>4, <2>2 DEF Looked
    <3>2. mem[s][j].at = file[j].at /\ file[j].at \in {"sendq", "doneq"}
      BY <1>2, <1>4 DEF StillThere
    <3>3. <<s, j>> \in newer => Locked(j)
      BY <2>2, <3>2 DEF MustReread
    <3>4. l.job = mem[s][j] /\ l.kept = TRUE /\ l.newer = (<<s, j>> \in newer)
      BY <3>1
    <3>5. l.newer \in BOOLEAN /\ (l.newer <=> <<s, j>> \in newer)
      <4>1. CASE <<s, j>> \in newer
        <5>1. l.newer = TRUE
          BY <3>4, <4>1, Zenon
        <5> QED  BY <4>1, <5>1
      <4>2. CASE <<s, j>> \notin newer
        <5>1. l.newer = FALSE
          <6>1. (<<s, j>> \in newer) = FALSE
            BY <4>2
          <6> QED  BY <3>4, <6>1, Zenon
        <5> QED  BY <4>2, <5>1
      <4> QED  BY <4>1, <4>2
    <3> QED  BY <1>1, <1>4, <3>2, <3>3, <3>4, <3>5
  <2> QED  BY <2>1, <2>2
<1>5. CASE ~(mem[s][j] # None /\ StillThere(s, j)) /\ file[j].at \in {"sendq", "doneq"}
  <2>1. l = [job |-> Copy(file[j]), newer |-> TRUE, kept |-> FALSE]
    BY <1>5 DEF Looked
  <2> QED  BY <1>3, <1>5, <2>1
<1>6. CASE ~(mem[s][j] # None /\ StillThere(s, j)) /\ file[j].at \notin {"sendq", "doneq"}
  <2>1. l = [job |-> None, newer |-> FALSE, kept |-> FALSE]
    BY <1>6 DEF Looked
  <2> QED  BY <1>6, <2>1
<1> QED  BY <1>4, <1>5, <1>6

\* The file of a job tells its state.
LEMMA FileIsGood ==
  ASSUME Typed, Queue, NEW j \in Jobs, file[j].at \in {"sendq", "doneq"}
  PROVE  file[j].state \in Ended <=> file[j].at = "doneq"
<1>1. stage[j] \in Stages
  BY DEF Typed
<1>2. CASE file[j].at = "sendq"
  <2>1. file[j].state = StateIn[stage[j]]
    BY <1>2 DEF Queue, Present
  <2> QED  BY <1>1, <1>2, <2>1 DEF StateIn, Stages, Ended
<1>3. CASE file[j].at = "doneq"
  BY <1>3 DEF Queue
<1> QED  BY <1>2, <1>3

\* What a look at a job returns is no newer than its file.
LEMMA LookedIsGood ==
  ASSUME Typed, Queue, NEW s \in Sessions, CopiesOf(s), NEW j \in Jobs, NEW l, l = Looked(s, j)
  PROVE  l.job # None \/ l.kept => GoodCopy(j, l.job) /\ (~l.newer => Current(j, l.job))
<1>1. CASE l.job = None /\ ~l.kept
  BY <1>1
<1>2. CASE l.job = Copy(file[j]) /\ file[j].at \in {"sendq", "doneq"}
  <2>1. file[j].rev \in Nat
    BY FileFacts DEF FileType
  <2> QED  BY <1>2, <2>1, FileFacts, FileIsGood DEF GoodCopy, Current
<1>3. CASE l.job = mem[s][j] /\ mem[s][j] # None /\ (l.newer <=> <<s, j>> \in newer)
  BY <1>3 DEF CopiesOf
<1> QED  BY <1>1, <1>2, <1>3, LookedFacts

\* A handler whose copy is not an old one sees the state of the file.
LEMMA LookedIsTrue ==
  ASSUME Typed, Queue, NEW s \in Sessions, CopiesOf(s), NEW j \in Jobs,
         NEW l, l = Looked(s, j), ~Stale(s, j), l.job # None
  PROVE  /\ l.job.at = file[j].at /\ file[j].at \in {"sendq", "doneq"}
         /\ l.job.state \in Ended <=> l.job.at = "doneq"
         /\ l.job.at = "sendq" => l.job.state = file[j].state
<1>1. CASE l.job = Copy(file[j]) /\ file[j].at \in {"sendq", "doneq"}
  BY <1>1, FileFacts, FileIsGood
<1>2. CASE /\ l.job = mem[s][j] /\ mem[s][j] # None /\ mem[s][j].at = file[j].at
           /\ file[j].at \in {"sendq", "doneq"}
           /\ (l.newer <=> <<s, j>> \in newer) /\ (l.newer => Locked(j))
  <2>1. <<s, j>> \notin newer
    BY <1>2 DEF Stale, StillThere
  <2> QED  BY <1>2, <2>1 DEF CopiesOf, GoodCopy, Current
<1> QED  BY <1>1, <1>2, LookedFacts

-----------------------------------------------------------------------------
(* Remembering it *)

CopyStep(s, j, job, now) ==
  /\ mem' = [mem EXCEPT ![s][j] = job] /\ cur' = [cur EXCEPT ![s] = now]
  /\ newer' \in {newer \cup {<<s, j>>}, newer \ {<<s, j>>}}

\* Remembering a copy changes one entry of one session.
LEMMA CopyStepFacts ==
  ASSUME Typed, NEW s \in Sessions, NEW j \in Jobs, NEW job \in CopyType \cup {None},
         NEW now \in Jobs \cup {None}, CopyStep(s, j, job, now)
  PROVE  /\ mem' \in [Sessions -> [Jobs -> CopyType \cup {None}]]
         /\ newer' \subseteq Sessions \X Jobs /\ cur' \in [Sessions -> Jobs \cup {None}]
         /\ mem'[s][j] = job /\ \A k \in Jobs \ {j} : mem'[s][k] = mem[s][k]
         /\ cur'[s] = now
         /\ \A k \in Jobs \ {j} : <<s, k>> \in newer' <=> <<s, k>> \in newer
         /\ \A r \in Sessions \ {s} :
              /\ mem'[r] = mem[r] /\ cur'[r] = cur[r]
              /\ \A k \in Jobs : <<r, k>> \in newer => <<r, k>> \in newer'
<1>1. /\ mem \in [Sessions -> [Jobs -> CopyType \cup {None}]]
      /\ newer \subseteq Sessions \X Jobs /\ cur \in [Sessions -> Jobs \cup {None}]
  BY DEF Typed
<1>2. /\ mem' \in [Sessions -> [Jobs -> CopyType \cup {None}]]
      /\ mem'[s][j] = job /\ \A k \in Jobs \ {j} : mem'[s][k] = mem[s][k]
      /\ \A r \in Sessions \ {s} : mem'[r] = mem[r]
  BY <1>1 DEF CopyStep
<1>3. /\ newer' \subseteq Sessions \X Jobs
      /\ \A k \in Jobs \ {j} : <<s, k>> \in newer' <=> <<s, k>> \in newer
      /\ \A r \in Sessions \ {s} : \A k \in Jobs : <<r, k>> \in newer => <<r, k>> \in newer'
  BY <1>1 DEF CopyStep
<1>4. /\ cur' \in [Sessions -> Jobs \cup {None}] /\ cur'[s] = now
      /\ \A r \in Sessions \ {s} : cur'[r] = cur[r]
  BY <1>1 DEF CopyStep
<1> QED  BY <1>2, <1>3, <1>4

\* A look leaves every copy of the session behind or equal to its file.
LEMMA LookCopies ==
  ASSUME Typed, NEW s \in Sessions, NEW j \in Jobs, NEW job \in CopyType \cup {None},
         NEW now \in Jobs \cup {None}, CopyStep(s, j, job, now), CopiesOf(s), file' = file,
         job # None => GoodCopy(j, job) /\ (<<s, j>> \notin newer' => Current(j, job))
  PROVE  CopiesOf(s)'
<1>1. /\ mem'[s][j] = job /\ \A k \in Jobs \ {j} : mem'[s][k] = mem[s][k]
      /\ \A k \in Jobs \ {j} : <<s, k>> \in newer' <=> <<s, k>> \in newer
  BY CopyStepFacts
<1>2. ASSUME NEW k \in Jobs, NEW copy, copy = mem'[s][k], copy # None
      PROVE  GoodCopy(k, copy) /\ (<<s, k>> \notin newer' => Current(k, copy))
  <2>1. CASE k = j
    BY <1>1, <1>2, <2>1
  <2>2. CASE k # j
    BY <1>1, <1>2, <2>2 DEF CopiesOf
  <2> QED  BY <2>1, <2>2
<1>3. \A k, copy : /\ GoodCopy(k, copy) => GoodCopy(k, copy)'
                   /\ Current(k, copy) => Current(k, copy)'
  BY DEF GoodCopy, Current
<1> QED  BY <1>2, <1>3 DEF CopiesOf

\* What is known of all jobs stays when no file changes.
LEMMA FilesAlone ==
  ASSUME Queue, Submissions, UNCHANGED <<file, stage, confirmed>>,
         \A s \in Sessions : blank'[s] = blank[s]
  PROVE  Queue' /\ Submissions'
<1>1. \A j \in Jobs : (Present(j)' <=> Present(j)) /\ (Accepted(j)' <=> Accepted(j))
  BY DEF Present, Accepted
<1>2. Queue'
  BY <1>1 DEF Queue
<1>3. Submissions'
  BY <1>1 DEF Submissions
<1> QED  BY <1>2, <1>3

\* At most the first message has been taken out.
Shorter(s) == inbox'[s] = inbox[s] \/ (inbox[s] # <<>> /\ inbox'[s] = Tail(inbox[s]))

\* Taking a message leaves a part of the queue.
LEMMA ShorterFacts ==
  ASSUME Typed, NEW s \in Sessions, Shorter(s)
  PROVE  /\ inbox'[s] \in Seq(MessageType)
         /\ \A i \in DOMAIN inbox'[s] : \E k \in DOMAIN inbox[s] : inbox'[s][i] = inbox[s][k]
<1>1. inbox[s] \in Seq(MessageType)
  BY DEF Typed
<1>2. CASE inbox'[s] = inbox[s]
  BY <1>1, <1>2
<1>3. CASE inbox[s] # <<>> /\ inbox'[s] = Tail(inbox[s])
  <2>1. /\ Tail(inbox[s]) \in Seq(MessageType) /\ Len(inbox[s]) \in Nat
        /\ DOMAIN inbox[s] = 1..Len(inbox[s])
        /\ DOMAIN Tail(inbox[s]) = 1..(Len(inbox[s]) - 1)
        /\ \A i \in 1..(Len(inbox[s]) - 1) : Tail(inbox[s])[i] = inbox[s][i + 1]
    BY <1>1, <1>3, TailFacts
  <2>2. \A n \in Nat : \A i \in 1..(n - 1) : i + 1 \in 1..n
    OBVIOUS
  <2> QED  BY <1>3, <2>1, <2>2
<1> QED  BY <1>2, <1>3 DEF Shorter

\* Messages under way are judged by the files they speak of.
LEMMA EventsAlone ==
  ASSUME Typed, NEW s \in Sessions, EventsOf(s), file' = file, Shorter(s)
  PROVE  EventsOf(s)'
BY ShorterFacts DEF EventsOf

\* A look does not change whose jobs the frames of a session work on.
LEMMA LookOwned ==
  ASSUME Inv, NEW s \in Sessions, NEW j \in Jobs, NEW job \in CopyType \cup {None},
         NEW now \in Jobs \cup {None}, CopyStep(s, j, job, now),
         now \in {None, j, cur[s]}, file' = file, file[j].owner = s, blank'[s] = blank[s],
         spec'[s] \in {None, spec[s]}, Shorter(s),
         \A i \in DOMAIN task'[s] : file[task'[s][i].job].owner = s
  PROVE  OwnedBy(s)'
<1>0. Typed
  BY DEF Inv
<1>1. OwnedBy(s)
  BY DEF Inv, Own
<1>2. \A k \in Jobs : mem'[s][k] # None => file[k].owner = s
  <2>1. \A k \in Jobs \ {j} : mem'[s][k] = mem[s][k]
    BY <1>0, CopyStepFacts
  <2> QED  BY <1>1, <2>1 DEF OwnedBy
<1>3. \A k \in Jobs : cur'[s] = k \/ spec'[s] = k \/ k \in blank'[s] => file[k].owner = s
  <2>1. cur'[s] = now
    BY <1>0, CopyStepFacts
  <2>2. ASSUME NEW k \in Jobs, cur'[s] = k \/ spec'[s] = k \/ k \in blank'[s]
        PROVE  file[k].owner = s
    BY <1>1, <2>1, <2>2, NoneIsNobody DEF OwnedBy
  <2> QED  BY <2>2
<1>4. \A i \in DOMAIN inbox'[s] : inbox'[s][i].cmd = "event" => file[inbox'[s][i].job].owner = s
  BY <1>0, <1>1, ShorterFacts DEF OwnedBy
<1> QED  BY <1>2, <1>3, <1>4 DEF OwnedBy

\* A step that only looks, while no handler is under way.
LEMMA IdleLook ==
  ASSUME Inv, NEW s \in Sessions, NEW op, CanParse(s, op), NEW j \in Jobs, file[j].owner = s,
         NEW job \in CopyType \cup {None}, NEW now \in Jobs \cup {None},
         now \in {None, j, cur[s]}, CopyStep(s, j, job, now),
         job # None /\ strayed' = {} =>
           GoodCopy(j, job) /\ (<<s, j>> \notin newer' => Current(j, job)),
         UNCHANGED <<file, locker, faxqVars, fifo, online, blank, task, waitVars, inbox, confirmed>>,
         strayed \subseteq strayed', strayed' \subseteq Strays
  PROVE  Kept(s)
<1>0. Typed
  BY DEF Inv
<1>1. Typed /\ Own(s) /\ s \in online /\ task[s] = <<>>
  BY DEF Inv, CanParse
<1>2. UNCHANGED <<file, locker, stage, waits, triggers, fifo, online, blank, task, waitfifo,
                  response, spec, tid, inbox, confirmed>>
  BY DEF faxqVars, waitVars
<1>3. /\ mem' \in [Sessions -> [Jobs -> CopyType \cup {None}]]
      /\ newer' \subseteq Sessions \X Jobs /\ cur' \in [Sessions -> Jobs \cup {None}]
      /\ \A r \in Sessions \ {s} :
           /\ mem'[r] = mem[r] /\ cur'[r] = cur[r]
           /\ \A k \in Jobs : <<r, k>> \in newer => <<r, k>> \in newer'
  BY <1>0, CopyStepFacts
<1>4. Typed'
  BY <1>1, <1>2, <1>3 DEF Typed
<1>5. StepOf(s)
  BY <1>1, <1>2, <1>3 DEF StepOf
<1>6. AtEase(s)
  <2>1. FramesOf(s)
    BY <1>1 DEF Own
  <2> QED  BY <1>1, <2>1 DEF FramesOf, AtEase
<1>7. task'[s] = <<>> /\ AtEase(s)'
  BY <1>1, <1>2, <1>6 DEF AtEase
<1>8. OwnedBy(s)'
  <2>1. DOMAIN task'[s] = {}
    BY <1>7
  <2>2. \A i \in DOMAIN task'[s] : file[task'[s][i].job].owner = s
    BY <2>1
  <2> QED  BY <1>2, <2>2, LookOwned DEF Shorter
<1>9. ASSUME strayed' = {}
      PROVE  Queue' /\ Submissions' /\ Sound(s)'
  <2>0. strayed = {}
    BY <1>9
  <2>1. Queue /\ Submissions /\ Sound(s) /\ RequestsOf(s) /\ ~waitfifo[s]
    BY <1>1, <1>6, <2>0 DEF Inv, Sound, AtEase
  <2>2. Queue' /\ Submissions'
    BY <1>2, <2>1, FilesAlone
  <2>3. Quiet(s)' /\ RequestsOf(s)'
    BY <1>1, <1>2, <2>1, StaysQuiet
  <2>4. HandlingOf(s)' /\ BelievedBy(s)'
    BY <1>7, <1>8, <2>3, Idle
  <2>5. CopiesOf(s)'
    BY <1>1, <1>2, <1>9, <2>1, LookCopies DEF Sound
  <2>6. EventsOf(s)'
    BY <1>0, <1>2, <2>1, EventsAlone DEF Sound, Shorter
  <2> QED  BY <2>2, <2>3, <2>4, <2>5, <2>6 DEF Sound
<1> QED  BY <1>2, <1>4, <1>5, <1>7, <1>8, <1>9, Idle DEF Kept

\* JOB names the job that later commands are about.
LEMMA SetCurrentJobStep ==
  ASSUME Inv, NEW s \in Sessions, NEW j \in Jobs, SetCurrentJob(s, j)
  PROVE  Kept(s)
<1>1. PICK l : l = Looked(s, j)
  OBVIOUS
<1>2. Typed /\ file[j].owner = s /\ CanParse(s, "JOB") /\ strayed' = strayed
  BY DEF Inv, SetCurrentJob, May
<1>3. l.job \in CopyType \cup {None} /\ l.newer \in BOOLEAN
  BY <1>1, <1>2, LookedFacts
<1>4. CopyStep(s, j, l.job, j) /\ (<<s, j>> \notin newer' => ~l.newer)
  BY <1>1 DEF SetCurrentJob, CopyStep
<1>5. l.job # None /\ strayed = {} => GoodCopy(j, l.job) /\ (~l.newer => Current(j, l.job))
  BY <1>1, <1>2, LookedIsGood DEF Inv, Sound
<1>6. UNCHANGED <<file, locker, faxqVars, fifo, online, blank, task, waitVars, inbox, confirmed>>
  BY DEF SetCurrentJob
<1>7. strayed \subseteq strayed' /\ strayed' \subseteq Strays
  BY <1>2 DEF Typed
<1> QED  BY <1>2, <1>3, <1>4, <1>5, <1>6, <1>7, IdleLook

\* The result of a lookup, by the places the copy came from.
LEMMA FindIs ==
  ASSUME Typed, NEW s \in Sessions, NEW j \in Jobs, NEW l, l = Looked(s, j), Find(s, j)
  PROVE  \E now \in Jobs \cup {None} :
           /\ now \in {None, j, cur[s]} /\ CopyStep(s, j, l.job, now)
           /\ <<s, j>> \notin newer' => ~l.newer
<1> DEFINE now == IF cur[s] = j /\ ~l.kept THEN None ELSE cur[s]
<1>1. /\ mem' = [mem EXCEPT ![s][j] = l.job] /\ cur' = [cur EXCEPT ![s] = now]
      /\ newer' = IF l.newer THEN newer \cup {<<s, j>>} ELSE newer \ {<<s, j>>}
  BY DEF Find, Remember
<1>2. now \in Jobs \cup {None} /\ now \in {None, j, cur[s]}
  BY DEF Typed
<1>3. CopyStep(s, j, l.job, now) /\ (<<s, j>> \notin newer' => ~l.newer)
  <2> HIDE DEF now
  <2> QED  BY <1>1 DEF CopyStep
<1> QED  BY <1>2, <1>3

\* A step in which the session looks at a job, or lets it go, before it parses on.
LEMMA FindStep ==
  ASSUME Inv, NEW s \in Sessions, NEW op, CanParse(s, op), NEW j \in Jobs, file[j].owner = s,
         Find(s, j),
         UNCHANGED <<file, locker, faxqVars, fifo, online, blank, task, waitVars, inbox,
                     confirmed, strayed>>
  PROVE  Kept(s)
<1>1. PICK l : l = Looked(s, j)
  OBVIOUS
<1>2. l.job \in CopyType \cup {None} /\ l.newer \in BOOLEAN /\ Typed
  BY <1>1, LookedFacts DEF Inv
<1>3. l.job # None /\ strayed = {} => GoodCopy(j, l.job) /\ (~l.newer => Current(j, l.job))
  BY <1>1, <1>2, LookedIsGood DEF Inv, Sound
<1>4. PICK now \in Jobs \cup {None} :
        /\ now \in {None, j, cur[s]} /\ CopyStep(s, j, l.job, now)
        /\ <<s, j>> \notin newer' => ~l.newer
  BY <1>1, <1>2, FindIs
<1>5. strayed \subseteq strayed' /\ strayed' \subseteq Strays
  BY <1>2 DEF Typed
<1> QED  BY <1>2, <1>3, <1>4, <1>5, IdleLook

\* Dropping a copy.
LEMMA ForgetIs ==
  ASSUME Typed, NEW s \in Sessions, NEW j \in Jobs, Forget(s, j)
  PROVE  \E now \in Jobs \cup {None} : now \in {None, j, cur[s]} /\ CopyStep(s, j, None, now)
<1> DEFINE now == IF cur[s] = j THEN None ELSE cur[s]
<1>1. /\ mem' = [mem EXCEPT ![s][j] = None] /\ cur' = [cur EXCEPT ![s] = now]
      /\ newer' = newer \ {<<s, j>>}
  BY DEF Forget, Remember
<1>2. now \in Jobs \cup {None} /\ now \in {None, j, cur[s]}
  BY DEF Typed
<1>3. CopyStep(s, j, None, now)
  <2> HIDE DEF now
  <2> QED  BY <1>1 DEF CopyStep
<1> QED  BY <1>2, <1>3

\* JPARM changes the copy alone.
LEMMA SetJobParameterStep ==
  ASSUME Inv, NEW s \in Sessions, NEW j \in Jobs, SetJobParameter(s, j)
  PROVE  Kept(s)
<1>1. PICK l : l = Looked(s, j)
  OBVIOUS
<1>2. /\ Typed /\ file[j].owner = s /\ CanParse(s, "JPARM")
      /\ UNCHANGED <<file, locker, faxqVars, fifo, online, blank, task, waitVars, inbox, confirmed, strayed>>
  BY DEF Inv, SetJobParameter, Own, OwnedBy
<1>6. strayed \subseteq strayed' /\ strayed' \subseteq Strays
  BY <1>2 DEF Typed
<1>3. CASE ~l.kept
  <2>1. Forget(s, j)
    BY <1>1, <1>3 DEF SetJobParameter
  <2>2. PICK now \in Jobs \cup {None} : now \in {None, j, cur[s]} /\ CopyStep(s, j, None, now)
    BY <1>2, <2>1, ForgetIs
  <2> QED  BY <1>2, <1>6, <2>2, IdleLook
<1>4. CASE l.kept /\ l.job.state = "suspended"
  <2> DEFINE job == [l.job EXCEPT !.rev = @ + 1]
  <2>1. /\ mem' = [mem EXCEPT ![s][j] = job] /\ cur' = cur
        /\ newer' = IF l.newer THEN newer \cup {<<s, j>>} ELSE newer \ {<<s, j>>}
    BY <1>1, <1>2, <1>4 DEF SetJobParameter, Remember, Typed
  <2>2. l.job \in CopyType
    <3>1. \/ l.job = Copy(file[j]) /\ file[j].at \in {"sendq", "doneq"}
          \/ l.job = mem[s][j] /\ mem[s][j] # None
      <4>1. \/ l.job = None /\ ~l.kept /\ file[j].at \notin {"sendq", "doneq"}
            \/ l.job = Copy(file[j]) /\ file[j].at \in {"sendq", "doneq"}
            \/ /\ l.job = mem[s][j] /\ mem[s][j] # None /\ mem[s][j].at = file[j].at
               /\ file[j].at \in {"sendq", "doneq"}
               /\ (l.newer <=> <<s, j>> \in newer)
               /\ (l.newer => Locked(j))
        BY <1>1, <1>2, LookedFacts, ZenonT(60)
      <4> QED  BY <1>4, <4>1, Zenon
    <3>2. mem[s][j] \in CopyType \cup {None}
      BY <1>2 DEF Typed
    <3> QED  BY <1>2, <3>1, <3>2, FileFacts
  <2>3. job \in CopyType /\ job.at = l.job.at /\ job.state = l.job.state /\ job.rev = l.job.rev + 1
    BY <2>2 DEF CopyType
  <2>4. strayed = {} => GoodCopy(j, l.job) /\ (~l.newer => Current(j, l.job))
    BY <1>1, <1>2, <1>4, LookedIsGood DEF Inv, Sound
  <2>5. file[j].rev \in Nat /\ l.job.rev \in Nat
    BY <1>2, <2>2, FileFacts DEF FileType, CopyType
  <2>6. strayed = {} => GoodCopy(j, job) /\ (~l.newer => Current(j, job))
    <3> HIDE DEF job
    <3> QED  BY <2>3, <2>4, <2>5 DEF GoodCopy, Current
  <2>7. cur[s] \in Jobs \cup {None}
    BY <1>2 DEF Typed
  <2>8. CopyStep(s, j, job, cur[s]) /\ (<<s, j>> \notin newer' => ~l.newer)
    <3> HIDE DEF job
    <3>1. cur' = [cur EXCEPT ![s] = cur[s]]
      BY <1>2, <2>1 DEF Typed
    <3> QED  BY <2>1, <3>1 DEF CopyStep
  <2> HIDE DEF job
  <2> QED  BY <1>2, <1>6, <2>3, <2>6, <2>7, <2>8, IdleLook
<1>5. CASE l.kept /\ l.job.state # "suspended"
  <2>1. Find(s, j)
    BY <1>1, <1>5 DEF SetJobParameter
  <2> QED  BY <1>2, <2>1, FindStep
<1> QED  BY <1>3, <1>4, <1>5

\* JREST takes its copy for the file, read again or not.
LEMMA ResetJobStep ==
  ASSUME Inv, NEW s \in Sessions, NEW j \in Jobs, ResetJob(s, j)
  PROVE  Kept(s)
<1>1. PICK l : l = Looked(s, j)
  OBVIOUS
<1>2. /\ Typed /\ file[j].owner = s /\ CanParse(s, "JREST") /\ l.job # None
      /\ UNCHANGED <<file, locker, faxqVars, fifo, online, blank, task, waitVars, inbox, confirmed>>
  BY <1>1 DEF Inv, ResetJob, May
<1> DEFINE copy == IF Locked(j) THEN l.job ELSE Copy(file[j])
<1>3. CASE l.job.state = "suspended"
  <2>1. Remember(s, j, copy, FALSE, l.kept) /\ Stray("missed", Unaware(copy, file[j], FALSE))
    BY <1>1, <1>3 DEF ResetJob
  <2> DEFINE now == IF cur[s] = j /\ ~l.kept THEN None ELSE cur[s]
  <2>2. /\ mem' = [mem EXCEPT ![s][j] = copy] /\ newer' = newer \ {<<s, j>>}
        /\ cur' = [cur EXCEPT ![s] = now]
    <3> HIDE DEF copy
    <3> QED  BY <2>1 DEF Remember
  <2>3. now \in Jobs \cup {None} /\ now \in {None, j, cur[s]}
    BY <1>2 DEF Typed
  <2>4. CopyStep(s, j, copy, now)
    <3> HIDE DEF now, copy
    <3> QED  BY <2>2 DEF CopyStep
  <2>5. /\ file[j].at \in {"sendq", "doneq"} /\ Copy(file[j]) \in CopyType
        /\ file[j].rev \in Nat /\ l.job \in CopyType
    <3>1. file[j].at \in {"sendq", "doneq"} /\ l.job \in CopyType \cup {None}
      BY <1>1, <1>2, LookedFacts
    <3> QED  BY <1>2, <3>1, FileFacts DEF FileType
  <2>6. copy \in CopyType
    BY <2>5
  <2>7. strayed \subseteq strayed' /\ strayed' \subseteq Strays
        /\ (strayed' = {} => strayed = {} /\ ~Unaware(copy, file[j], FALSE))
    <3> HIDE DEF copy
    <3> QED  BY <1>2, <2>1 DEF Stray, Strays, Typed
  <2>8. ASSUME strayed' = {} PROVE GoodCopy(j, copy) /\ Current(j, copy)
    <3>1. Queue /\ CopiesOf(s)
      BY <2>7, <2>8 DEF Inv, Sound
    <3>2. CASE Locked(j)
      <4>1. copy = l.job
        BY <3>2
      <4>2. GoodCopy(j, l.job)
        BY <1>1, <1>2, <3>1, LookedIsGood
      <4>3. ~Unaware(l.job, file[j], FALSE)
        BY <2>7, <2>8, <4>1, Zenon
      <4>4. Current(j, l.job)
        BY <1>2, <4>3 DEF Unaware, Current
      <4> HIDE DEF copy
      <4> QED  BY <4>1, <4>2, <4>4
    <3>3. CASE ~Locked(j)
      <4>1. copy = Copy(file[j])
        BY <3>3
      <4>2. GoodCopy(j, Copy(file[j])) /\ Current(j, Copy(file[j]))
        BY <1>2, <2>5, <3>1, FileFacts, FileIsGood DEF GoodCopy, Current
      <4> HIDE DEF copy
      <4> QED  BY <4>1, <4>2
    <3> QED  BY <3>2, <3>3
  <2> HIDE DEF now, copy
  <2> QED  BY <1>2, <2>3, <2>4, <2>6, <2>7, <2>8, IdleLook
<1>4. CASE l.job.state # "suspended"
  <2>1. Find(s, j) /\ UNCHANGED strayed
    BY <1>1, <1>4 DEF ResetJob
  <2> QED  BY <1>2, <2>1, FindStep
<1> QED  BY <1>3, <1>4
-----------------------------------------------------------------------------
(* A new job, and the look with which a command begins *)

\* JNEW writes the file of a new job.
LEMMA NewJobStep ==
  ASSUME Inv, NEW s \in Sessions, NEW j \in Jobs, NewJob(s, j)
  PROVE  Kept(s)
<1>0. Typed
  BY DEF Inv
<1>1. /\ s \in online /\ task[s] = <<>> /\ file[j].at = "unborn" /\ Own(s) /\ OwnedBy(s)
      /\ file[j].owner = None
  BY DEF NewJob, CanParse, Inv, Own, OwnedThere
<1>2. UNCHANGED <<locker, stage, waits, triggers, fifo, online, task, waitfifo, response, spec,
                  tid, inbox, confirmed, strayed>>
  BY DEF NewJob, faxqVars, waitVars
<1> DEFINE f == [NoFile EXCEPT !.at = "sendq", !.owner = s]
<1>3. /\ f \in FileType /\ f.at = "sendq" /\ f.owner = s /\ f.state = "suspended" /\ f.rev = 0
      /\ Copy(f) \in CopyType
      /\ Copy(f).at = "sendq" /\ Copy(f).state = "suspended" /\ Copy(f).rev = 0
  BY DEF NoFile, FileType, JobStates, Copy, CopyType
<1>4. file' = [file EXCEPT ![j] = f] /\ file'[j] = f
  BY <1>0 DEF NewJob, Typed
<1>5. /\ mem' = [mem EXCEPT ![s][j] = Copy(f)] /\ newer' = newer \ {<<s, j>>}
      /\ cur' = [cur EXCEPT ![s] = j] /\ blank' = [blank EXCEPT ![s] = @ \cup {j}]
  BY <1>4 DEF NewJob
<1> HIDE DEF f
<1>6. CopyStep(s, j, Copy(f), j)
  BY <1>5 DEF CopyStep
<1>7. /\ mem' \in [Sessions -> [Jobs -> CopyType \cup {None}]]
      /\ newer' \subseteq Sessions \X Jobs /\ cur' \in [Sessions -> Jobs \cup {None}]
      /\ mem'[s][j] = Copy(f) /\ \A k \in Jobs \ {j} : mem'[s][k] = mem[s][k]
      /\ cur'[s] = j
      /\ \A k \in Jobs \ {j} : <<s, k>> \in newer' <=> <<s, k>> \in newer
      /\ \A r \in Sessions \ {s} :
           /\ mem'[r] = mem[r] /\ cur'[r] = cur[r]
           /\ \A k \in Jobs : <<r, k>> \in newer => <<r, k>> \in newer'
  BY <1>0, <1>3, <1>6, CopyStepFacts
<1>8. /\ file' \in [Jobs -> FileType] /\ \A k \in Jobs \ {j} : file'[k] = file[k]
  BY <1>0, <1>3, <1>4 DEF Typed
<1>9. /\ blank' \in [Sessions -> SUBSET Jobs] /\ blank'[s] = blank[s] \cup {j}
      /\ \A r \in Sessions \ {s} : blank'[r] = blank[r]
  BY <1>0, <1>5 DEF Typed
<1>10. Typed'
  BY <1>0, <1>2, <1>7, <1>8, <1>9 DEF Typed
<1>11. StepOf(s)
  BY <1>1, <1>2, <1>3, <1>4, <1>7, <1>8, <1>9 DEF StepOf
<1>12. OwnedBy(s)'
  <2>0. \A k \in Jobs : file[k].owner = s => file'[k].owner = s
    BY <1>3, <1>4, <1>8
  <2>1. \A k \in Jobs : mem'[s][k] # None => file'[k].owner = s
    BY <1>1, <1>3, <1>4, <1>7, <1>8 DEF OwnedBy
  <2>2. \A k \in Jobs : cur'[s] = k \/ spec'[s] = k \/ k \in blank'[s] => file'[k].owner = s
    BY <1>1, <1>2, <1>3, <1>4, <1>7, <1>9, <2>0 DEF OwnedBy
  <2>3. DOMAIN task'[s] = {}
    BY <1>1, <1>2
  <2>4. \A i \in DOMAIN inbox'[s] :
          inbox'[s][i].cmd = "event" => file'[inbox'[s][i].job].owner = s
    BY <1>0, <1>1, <1>2, <2>0, ElementTypes DEF OwnedBy
  <2> QED  BY <2>1, <2>2, <2>3, <2>4 DEF OwnedBy
<1>13. task'[s] = <<>> /\ AtEase(s) /\ AtEase(s)'
  BY <1>1, <1>2 DEF Own, FramesOf, AtEase
<1>14. ASSUME strayed' = {} PROVE Queue' /\ Submissions' /\ Sound(s)'
  <2>1. Queue /\ Submissions /\ Sound(s) /\ RequestsOf(s) /\ ~waitfifo[s]
    BY <1>1, <1>2, <1>13, <1>14 DEF Inv, Sound, AtEase
  <2>2. stage[j] = "unknown" /\ confirmed[j] = None
    BY <1>1, <2>1 DEF Queue, Submissions, Accepted, Present
  <2>3. Queue'
    <3>1. ASSUME NEW k \in Jobs
          PROVE  /\ file'[k].at = "sendq" => file'[k].state = StateIn[stage[k]]
                 /\ stage[k] # "unknown" => file'[k].at \in {"sendq", "gone"}
                 /\ file'[k].at = "doneq" => file'[k].state \in Ended
      <4>1. CASE k = j
        BY <1>3, <1>4, <2>2, <4>1 DEF StateIn
      <4>2. CASE k # j
        BY <1>8, <2>1, <4>2 DEF Queue, Present
      <4> QED  BY <4>1, <4>2
    <3> QED  BY <1>2, <3>1 DEF Queue, Present
  <2>4. Submissions'
    <3>1. ASSUME NEW k \in Jobs, confirmed[k] # None
          PROVE  /\ (file'[k].at = "sendq" /\ stage[k] # "unknown") \/ file'[k].at = "doneq"
                 /\ file'[k].rev >= confirmed[k] /\ \A r \in Sessions : k \notin blank'[r]
      <4>1. k # j
        BY <2>2, <3>1
      <4> QED  BY <1>8, <1>9, <2>1, <3>1, <4>1 DEF Submissions, Accepted, Present
    <3> QED  BY <1>2, <3>1 DEF Submissions, Accepted, Present
  <2>5. Quiet(s)' /\ RequestsOf(s)'
    BY <1>0, <1>2, <1>13, <2>1, StaysQuiet
  <2>6. HandlingOf(s)' /\ BelievedBy(s)'
    BY <1>12, <1>13, <2>5, Idle
  <2>7. CopiesOf(s)'
    <3>1. ASSUME NEW k \in Jobs, NEW copy, copy = mem'[s][k], copy # None
          PROVE  GoodCopy(k, copy)' /\ (<<s, k>> \notin newer' => Current(k, copy)')
      <4>1. CASE k = j
        BY <1>3, <1>4, <1>7, <3>1, <4>1 DEF GoodCopy, Current, Ended
      <4>2. CASE k # j
        BY <1>7, <1>8, <2>1, <3>1, <4>2 DEF Sound, CopiesOf, GoodCopy, Current
      <4> QED  BY <4>1, <4>2
    <3> QED  BY <3>1 DEF CopiesOf
  <2>8. EventsOf(s)'
    <3>1. \A k \in Jobs : file[k].at # "unborn" => file'[k] = file[k]
      BY <1>1, <1>8
    <3> QED  BY <1>0, <1>2, <2>1, <3>1, ElementTypes DEF Sound, EventsOf
  <2> QED  BY <2>3, <2>4, <2>5, <2>6, <2>7, <2>8 DEF Sound
<1> QED  BY <1>2, <1>10, <1>11, <1>12, <1>13, <1>14, Idle DEF Kept

\* A command looks its job up, and goes ahead or ends at once.
LEMMA BeginStep ==
  ASSUME Inv, NEW s \in Sessions, NEW j \in Jobs,
         NEW op \in {"JSUBM", "JSUSP", "JKILL", "JDELE", "JWAIT"}, Begin(s, op, j)
  PROVE  Kept(s)
<1>0. Typed
  BY DEF Inv
<1>1. /\ s \in online /\ task[s] = <<>> /\ Own(s) /\ OwnedBy(s) /\ file[j].owner = s
      /\ CanParse(s, op) /\ Find(s, j)
  BY DEF Begin, CanParse, Inv, Own, May
<1>2. PICK l : l = Looked(s, j)
  OBVIOUS
<1>3. CASE ~(l.job # None /\ Allows(op, l.job.state))
  <2>1. UNCHANGED <<file, locker, faxqVars, fifo, online, blank, task, waitVars, inbox,
                    confirmed, strayed>>
    BY <1>2, <1>3 DEF Begin
  <2> QED  BY <1>1, <2>1, FindStep
<1>4. CASE l.job # None /\ Allows(op, l.job.state)
  <2>1. UNCHANGED <<file, locker, stage, waits, triggers, fifo, online, blank, waitfifo, response,
                    spec, tid, inbox, confirmed>>
    BY DEF Begin, faxqVars, waitVars
  <2>17. /\ strayed \subseteq strayed' /\ strayed' \subseteq Strays
         /\ op \in {"JSUBM", "JDELE"} /\ strayed' = {} => ~Stale(s, j)
    BY <1>0, <1>2, <1>4 DEF Begin, Stray, Strays, Typed
  <2> DEFINE f == [op |-> op, job |-> j, at |-> "checked"]
  <2>2. f \in FrameType
    BY DEF FrameType, Ops
  <2>3. task' = [task EXCEPT ![s] = Append(Awake(task[s]), f)]
    BY <1>2, <1>4 DEF Begin, Push
  <2>4. Awake(task[s]) \in Seq(FrameType) /\ Len(Awake(task[s])) = 0
    <3>1. <<>> \in Seq(FrameType) /\ Len(<<>>) = 0
      OBVIOUS
    <3> QED  BY <1>1, <3>1, AwakeFacts
  <2> HIDE DEF f
  <2>5. task' \in [Sessions -> Seq(FrameType)] /\ Len(task'[s]) = 1 /\ task'[s][1] = f
        /\ \A r \in Sessions \ {s} : task'[r] = task[r]
    BY <1>0, <2>2, <2>3, <2>4, AppendFacts DEF Typed
  <2>6. Top(s)' = f /\ task'[s] # <<>> /\ DOMAIN task'[s] = {1}
    BY <2>2, <2>5, Single
  <2>7. l.job \in CopyType \cup {None} /\ l.newer \in BOOLEAN
    BY <1>0, <1>2, LookedFacts
  <2>8. PICK now \in Jobs \cup {None} :
          /\ now \in {None, j, cur[s]} /\ CopyStep(s, j, l.job, now)
          /\ <<s, j>> \notin newer' => ~l.newer
    BY <1>0, <1>1, <1>2, FindIs
  <2>9. /\ mem' \in [Sessions -> [Jobs -> CopyType \cup {None}]]
        /\ newer' \subseteq Sessions \X Jobs /\ cur' \in [Sessions -> Jobs \cup {None}]
        /\ mem'[s][j] = l.job
        /\ \A r \in Sessions \ {s} :
             /\ mem'[r] = mem[r] /\ cur'[r] = cur[r]
             /\ \A k \in Jobs : <<r, k>> \in newer => <<r, k>> \in newer'
    BY <1>0, <2>7, <2>8, CopyStepFacts
  <2>10. Typed'
    BY <1>0, <2>1, <2>5, <2>9, <2>17 DEF Typed
  <2>11. StepOf(s)
    BY <1>1, <2>1, <2>5, <2>9, <2>17 DEF StepOf
  <2>12. f.op = op /\ f.job = j /\ f.at = "checked"
    BY DEF f
  <2>13. OwnedBy(s)'
    <3>1. \A i \in DOMAIN task'[s] : file[task'[s][i].job].owner = s
      BY <1>1, <2>5, <2>6, <2>12
    <3> QED  BY <1>1, <2>1, <2>7, <2>8, <3>1, LookOwned DEF Shorter
  <2>14. AtEase(s) /\ AtEase(s)'
    BY <1>1, <2>1, <2>17 DEF Own, FramesOf, AtEase
  <2>15. Own(s)'
    BY <1>0, <1>1, <1>4, <2>9, <2>1, <2>2, <2>5, <2>12, <2>13, <2>14, SingleOwn DEF Typed, AtEase
  <2>16. ASSUME strayed' = {} PROVE Queue' /\ Submissions' /\ Sound(s)'
    <3>0. strayed = {} /\ (op \in {"JSUBM", "JDELE"} => ~Stale(s, j))
      BY <2>16, <2>17
    <3>1. Queue /\ Submissions /\ Sound(s) /\ RequestsOf(s) /\ ~waitfifo[s]
      BY <1>1, <2>14, <3>0 DEF Inv, Sound, AtEase
    <3>2. Queue' /\ Submissions'
      BY <2>1, <3>1, FilesAlone
    <3>3. Quiet(s)' /\ RequestsOf(s)'
      BY <1>0, <2>1, <3>1, StaysQuiet
    <3>4. BelievedBy(s)'
      BY <2>6, <2>12, <3>3 DEF Quiet, BelievedBy, IsAnswer, Letters
    <3>5. CopiesOf(s)'
      <4>1. GoodCopy(j, l.job) /\ (~l.newer => Current(j, l.job))
        BY <1>0, <1>2, <1>4, <3>1, LookedIsGood DEF Sound
      <4> QED  BY <1>0, <2>1, <2>7, <2>8, <3>1, <4>1, LookCopies DEF Sound
    <3>6. EventsOf(s)'
      BY <1>0, <2>1, <3>1, EventsAlone DEF Sound, Shorter
    <3>7. HandlingOf(s)'
      <4>1. op \in {"JSUBM", "JDELE"} =>
              /\ l.job.at = file[j].at /\ file[j].at \in {"sendq", "doneq"}
              /\ l.job.state \in Ended <=> l.job.at = "doneq"
              /\ l.job.at = "sendq" => l.job.state = file[j].state
        BY <1>0, <1>2, <1>4, <3>0, <3>1, LookedIsTrue DEF Sound
      <4>2. op = "JSUBM" => AtRest(j) /\ l.job.at = "sendq" /\ l.job.state = "suspended"
        BY <1>4, <4>1 DEF Allows, AtRest, Ended
      <4>3. op = "JDELE" => AtRest(j) \/ file[j].at = "doneq"
        BY <1>4, <4>1 DEF Allows, AtRest, Ended
      <4>4. Handled(f, j, l.job)
        BY <2>12, <4>2, <4>3 DEF Handled
      <4>5. Handled(f, j, l.job)'
        BY <2>1, <4>4 DEF Handled, AtRest
      <4>6. \A i \in DOMAIN task'[s] : i = 1
        BY <2>6
      <4> QED  BY <2>5, <2>9, <2>12, <4>5, <4>6 DEF HandlingOf
    <3> QED  BY <3>2, <3>3, <3>4, <3>5, <3>6, <3>7 DEF Sound
  <2> QED  BY <2>1, <2>10, <2>11, <2>15, <2>16 DEF Kept
<1> QED  BY <1>3, <1>4
-----------------------------------------------------------------------------
(* A file that is written *)

\* Unless something has strayed, no session takes an old copy of the job for its file.
Seen(j) ==
  strayed' = {} => \A s \in Sessions : ~Unaware(mem[s][j], file'[j], <<s, j>> \in newer')

\* A write that a session does not see is a stray one.
LEMMA NoticedFacts ==
  ASSUME Typed, NEW j \in Jobs, Noticed(j)
  PROVE  /\ newer' \in SUBSET (Sessions \X Jobs) /\ newer \subseteq newer'
         /\ strayed \subseteq strayed' /\ strayed' \subseteq Strays /\ Seen(j)
<1>1. newer' \in SUBSET (Sessions \X Jobs) /\ newer \subseteq newer'
  BY DEF Noticed, Typed
<1>2. Stray("missed", \E s \in Sessions : Unaware(mem[s][j], file'[j], <<s, j>> \in newer'))
  BY DEF Noticed
<1>3. strayed \subseteq strayed' /\ strayed' \subseteq Strays
  BY <1>2 DEF Stray, Strays, Typed
<1>4. ASSUME strayed' = {}, NEW s \in Sessions, Unaware(mem[s][j], file'[j], <<s, j>> \in newer')
      PROVE  FALSE
  BY <1>2, <1>4 DEF Stray
<1> QED  BY <1>1, <1>3, <1>4 DEF Seen

-----------------------------------------------------------------------------
(* A handler that ends, and one that sends its request *)

\* A session with a handler under way is busy.
LEMMA BusyTop ==
  ASSUME NEW s, Top(s).at # "idle"
  PROVE  Top(s) # NoFrame
BY DEF NoFrame

\* What a handler at work on its job knows.
LEMMA AtWork ==
  ASSUME Inv, NEW s \in Sessions, Top(s).at # "idle", Top(s).op # "HELLO" \/ Top(s).at # "asked"
  PROVE  /\ Typed /\ Own(s) /\ OwnedBy(s) /\ s \in online
         /\ Top(s) \in FrameType /\ Top(s).job \in Jobs /\ file[Top(s).job].owner = s
         /\ Top(s).op # "HELLO" /\ Len(task[s]) = 1 /\ DOMAIN task[s] = {1} /\ task[s][1] = Top(s)
         /\ (Top(s).at # "asked" => AtEase(s))
         /\ (Top(s).at = "checked" => mem[s][Top(s).job] # None)
         /\ (strayed = {} => /\ Queue /\ Submissions /\ Sound(s) /\ RequestsOf(s)
                             /\ CopiesOf(s) /\ EventsOf(s)
                             /\ Handled(Top(s), Top(s).job, mem[s][Top(s).job]))
<1>1. Typed /\ Own(s) /\ OwnedBy(s)
  BY DEF Inv, Own
<1>2. /\ Top(s) \in FrameType /\ file[Top(s).job].owner = s /\ Top(s).op # "HELLO"
      /\ Len(task[s]) = 1 /\ DOMAIN task[s] = {1} /\ task[s][1] = Top(s)
      /\ s \in online /\ (Top(s).at # "asked" => AtEase(s))
      /\ (Top(s).at = "checked" => mem[s][Top(s).job] # None)
  BY <1>1, BusyTop, Alone
<1>3. Top(s).job \in Jobs
  BY <1>2 DEF FrameType
<1>4. ASSUME strayed = {}
      PROVE  /\ Queue /\ Submissions /\ Sound(s) /\ RequestsOf(s) /\ CopiesOf(s) /\ EventsOf(s)
             /\ Handled(Top(s), Top(s).job, mem[s][Top(s).job])
  <2>1. Queue /\ Submissions /\ Sound(s)
    BY <1>4 DEF Inv
  <2>2. RequestsOf(s) /\ CopiesOf(s) /\ EventsOf(s) /\ HandlingOf(s)
    BY <1>2, <2>1 DEF Sound
  <2>3. Handled(Top(s), Top(s).job, mem[s][Top(s).job])
    BY <1>2, <2>2 DEF HandlingOf
  <2> QED  BY <2>1, <2>2, <2>3
<1> QED  BY <1>1, <1>2, <1>3, <1>4

\* The handler ends and nothing else happens.
LEMMA EndsOnly ==
  ASSUME Inv, NEW s \in Sessions, Top(s).at # "idle", Top(s).op # "HELLO" \/ Top(s).at # "asked",
         Pop(s), AtEase(s), tid' \in [Sessions -> Tids],
         UNCHANGED <<file, stage, waits, triggers, fifo, online, copyVars, blank, waitfifo,
                     response, spec, inbox, confirmed, strayed, locker>>
  PROVE  Kept(s)
<1>1. /\ Typed /\ Own(s) /\ OwnedBy(s) /\ s \in online
      /\ strayed = {} => /\ Queue /\ Submissions /\ Sound(s) /\ RequestsOf(s)
                         /\ CopiesOf(s) /\ EventsOf(s)
  BY AtWork
<1>2. UNCHANGED <<mem, newer, cur>>
  BY DEF copyVars
<1>3. /\ task' \in [Sessions -> Seq(FrameType)] /\ task'[s] = <<>>
      /\ \A r \in Sessions \ {s} : task'[r] = task[r]
  BY <1>1, BusyTop, PopFacts
<1>4. Typed'
  BY <1>1, <1>2, <1>3 DEF Typed
<1>5. StepOf(s)
  BY <1>1, <1>2, <1>3 DEF StepOf
<1>6. OwnedBy(s)'
  <2>1. DOMAIN task'[s] = {}
    BY <1>3
  <2> QED  BY <1>1, <1>2, <2>1 DEF OwnedBy
<1>8. AtEase(s)'
  BY DEF AtEase
<1>7. ASSUME strayed' = {} PROVE Queue' /\ Submissions' /\ Sound(s)'
  <2>1. Queue' /\ Submissions'
    BY <1>1, <1>7, FilesAlone
  <2>2. Quiet(s)' /\ RequestsOf(s)'
    BY <1>1, <1>7, StaysQuiet DEF AtEase
  <2>3. HandlingOf(s)' /\ BelievedBy(s)'
    BY <1>3, <1>6, <1>8, <2>2, Idle
  <2>4. CopiesOf(s)'
    BY <1>1, <1>2, <1>7 DEF CopiesOf, GoodCopy, Current
  <2>5. EventsOf(s)'
    BY <1>1, <1>7, EventsAlone DEF Shorter
  <2> QED  BY <2>1, <2>2, <2>3, <2>4, <2>5 DEF Sound
<1> QED  BY <1>3, <1>4, <1>5, <1>6, <1>7, <1>8, Idle DEF Kept

\* The handler deletes its job and ends.
LEMMA ErasesAndEnds ==
  ASSUME Inv, NEW s \in Sessions, Top(s).at # "idle", Top(s).op # "HELLO" \/ Top(s).at # "asked",
         Pop(s), AtEase(s), NEW j \in Jobs, j = Top(s).job, Erase(s, j),
         locker' \in [Jobs -> Sessions \cup {None}],
         UNCHANGED <<stage, waits, triggers, fifo, online, blank, waitfifo,
                     response, spec, tid, inbox, strayed>>
  PROVE  Kept(s)
<1>1. /\ Typed /\ Own(s) /\ OwnedBy(s) /\ s \in online /\ file[j].owner = s
      /\ strayed = {} => /\ Queue /\ Submissions /\ Sound(s) /\ RequestsOf(s)
                         /\ CopiesOf(s) /\ EventsOf(s)
  BY AtWork
<1>2. PICK now \in Jobs \cup {None} : now \in {None, j, cur[s]} /\ CopyStep(s, j, None, now)
  BY <1>1, ForgetIs DEF Erase
<1>3. /\ mem' \in [Sessions -> [Jobs -> CopyType \cup {None}]]
      /\ newer' \subseteq Sessions \X Jobs /\ cur' \in [Sessions -> Jobs \cup {None}]
      /\ mem'[s][j] = None /\ \A k \in Jobs \ {j} : mem'[s][k] = mem[s][k]
      /\ cur'[s] = now
      /\ \A k \in Jobs \ {j} : <<s, k>> \in newer' <=> <<s, k>> \in newer
      /\ \A r \in Sessions \ {s} :
           /\ mem'[r] = mem[r] /\ cur'[r] = cur[r]
           /\ \A k \in Jobs : <<r, k>> \in newer => <<r, k>> \in newer'
  BY <1>1, <1>2, CopyStepFacts
<1>4. /\ task' \in [Sessions -> Seq(FrameType)] /\ task'[s] = <<>>
      /\ \A r \in Sessions \ {s} : task'[r] = task[r]
  BY <1>1, BusyTop, PopFacts
<1>5. /\ file' \in [Jobs -> FileType] /\ \A k \in Jobs \ {j} : file'[k] = file[k]
      /\ file'[j].at = "gone" /\ file'[j].owner = s /\ file'[j].rev = file[j].rev
  <2> DEFINE g == [file[j] EXCEPT !.at = "gone"]
  <2>1. g \in FileType /\ g.at = "gone" /\ g.owner = s /\ g.rev = file[j].rev
    BY <1>1, FileFacts DEF FileType
  <2>2. file' = [file EXCEPT ![j] = g]
    BY DEF Erase
  <2> HIDE DEF g
  <2> QED  BY <1>1, <2>1, <2>2 DEF Typed
<1>6. /\ confirmed' \in [Jobs -> Nat \cup {None}] /\ confirmed'[j] = None
      /\ \A k \in Jobs \ {j} : confirmed'[k] = confirmed[k]
  BY <1>1 DEF Erase, Typed
<1>7. Typed'
  BY <1>1, <1>3, <1>4, <1>5, <1>6 DEF Typed
<1>8. StepOf(s)
  BY <1>1, <1>3, <1>4, <1>5 DEF StepOf
<1>9. OwnedBy(s)'
  <2>0. \A k \in Jobs : file[k].owner = s => file'[k].owner = s
    BY <1>5
  <2>1. \A k \in Jobs : mem'[s][k] # None => file'[k].owner = s
    BY <1>1, <1>3, <1>5 DEF OwnedBy
  <2>2. \A k \in Jobs : cur'[s] = k \/ spec'[s] = k \/ k \in blank'[s] => file'[k].owner = s
    BY <1>1, <1>2, <1>3, <2>0, NoneIsNobody DEF OwnedBy
  <2>3. DOMAIN task'[s] = {}
    BY <1>4
  <2>4. \A i \in DOMAIN inbox'[s] :
          inbox'[s][i].cmd = "event" => file'[inbox'[s][i].job].owner = s
    BY <1>1, <2>0, ElementTypes DEF OwnedBy
  <2> QED  BY <2>1, <2>2, <2>3, <2>4 DEF OwnedBy
<1>11. AtEase(s)'
  BY DEF AtEase
<1>10. ASSUME strayed' = {} PROVE Queue' /\ Submissions' /\ Sound(s)'
  <2>1. /\ Queue /\ Submissions /\ RequestsOf(s) /\ CopiesOf(s) /\ EventsOf(s) /\ ~waitfifo[s]
    BY <1>1, <1>10 DEF AtEase
  <2>2. Queue'
    <3>1. ASSUME NEW k \in Jobs
          PROVE  /\ file'[k].at = "sendq" => file'[k].state = StateIn[stage[k]]
                 /\ stage[k] # "unknown" => file'[k].at \in {"sendq", "gone"}
                 /\ file'[k].at = "doneq" => file'[k].state \in Ended
      <4>1. CASE k = j
        BY <1>5, <4>1
      <4>2. CASE k # j
        BY <1>5, <2>1, <4>2 DEF Queue, Present
      <4> QED  BY <4>1, <4>2
    <3> QED  BY <3>1 DEF Queue, Present
  <2>3. Submissions'
    <3>1. ASSUME NEW k \in Jobs, confirmed'[k] # None
          PROVE  /\ (file'[k].at = "sendq" /\ stage[k] # "unknown") \/ file'[k].at = "doneq"
                 /\ file'[k].rev >= confirmed'[k] /\ \A r \in Sessions : k \notin blank'[r]
      <4>1. k # j
        BY <1>6, <3>1
      <4> QED  BY <1>5, <1>6, <2>1, <3>1, <4>1 DEF Submissions, Accepted, Present
    <3> QED  BY <3>1 DEF Submissions, Accepted, Present
  <2>4. Quiet(s)' /\ RequestsOf(s)'
    BY <1>1, <2>1, StaysQuiet
  <2>5. HandlingOf(s)' /\ BelievedBy(s)'
    BY <1>4, <1>9, <1>11, <2>4, Idle
  <2>6. CopiesOf(s)'
    <3>1. ASSUME NEW k \in Jobs, NEW copy, copy = mem'[s][k], copy # None
          PROVE  GoodCopy(k, copy)' /\ (<<s, k>> \notin newer' => Current(k, copy)')
      <4>1. k # j
        BY <1>3, <3>1
      <4> QED  BY <1>3, <1>5, <2>1, <3>1, <4>1 DEF CopiesOf, GoodCopy, Current
    <3> QED  BY <3>1 DEF CopiesOf
  <2>7. EventsOf(s)'
    <3>1. \A k \in Jobs : file'[k] = file[k] \/ file'[k].at = "gone"
      BY <1>5
    <3> QED  BY <1>1, <2>1, <3>1, ElementTypes DEF EventsOf
  <2> QED  BY <2>2, <2>3, <2>4, <2>5, <2>6, <2>7 DEF Sound
<1> QED  BY <1>4, <1>7, <1>8, <1>9, <1>10, <1>11, Idle DEF Kept

\* The handler sends its request, the file of the job being as it was or
\* written from the copy.
LEMMA AsksAndWaits ==
  ASSUME Inv, NEW s \in Sessions, Top(s).at \notin {"idle", "asked"}, GoTo(s, "asked"),
         NEW j \in Jobs, j = Top(s).job, NEW op \in Ops, op = Top(s).op, Ask(s, op, j),
         locker' \in [Jobs -> Sessions \cup {None}], spec' \in [Sessions -> Jobs \cup {None}],
         spec'[s] \in {spec[s], j}, \A r \in Sessions \ {s} : spec'[r] = spec[r],
         file' \in [Jobs -> FileType], \A k \in Jobs \ {j} : file'[k] = file[k],
         file'[j].owner = s, file'[j].at # "unborn",
         op = "JSUBM" => mem[s][j] \in CopyType /\ file'[j].at \in {"sendq", "doneq"},
         newer' \in SUBSET (Sessions \X Jobs), newer \subseteq newer',
         strayed = {} => /\ file'[j].at = file[j].at /\ file'[j].state = file[j].state
                         /\ file'[j].rev >= file[j].rev
                         /\ (mem[s][j] # None => mem[s][j].rev >= file'[j].rev)
                         /\ op = "JDELE" => AtRest(j)
                         /\ op = "JSUBM" => file'[j].at = "sendq" /\ mem[s][j].rev = file'[j].rev,
         UNCHANGED <<stage, waits, triggers, online, mem, cur, blank,
                     response, tid, inbox, confirmed>>,
         strayed \subseteq strayed', strayed' \subseteq Strays
  PROVE  Kept(s)
<1>1. /\ Typed /\ Own(s) /\ OwnedBy(s) /\ s \in online /\ file[j].owner = s /\ AtEase(s)
      /\ Top(s) \in FrameType /\ Top(s).op # "HELLO"
      /\ strayed = {} => /\ Queue /\ Submissions /\ Sound(s) /\ RequestsOf(s)
                         /\ CopiesOf(s) /\ EventsOf(s)
  BY AtWork
<1>2. PICK f \in FrameType :
      /\ f = [Top(s) EXCEPT !.at = "asked"]
      /\ task' \in [Sessions -> Seq(FrameType)] /\ Len(task'[s]) = 1 /\ task'[s][1] = f
      /\ \A r \in Sessions \ {s} : task'[r] = task[r]
  BY <1>1, BusyTop, GoToFacts
<1>3. f.op = op /\ f.job = j /\ f.at = "asked" /\ f.op # "HELLO"
  BY <1>1, <1>2 DEF FrameType
<1>4. Top(s)' = f /\ task'[s] # <<>> /\ DOMAIN task'[s] = {1}
  BY <1>2, Single, Zenon
<1>5. PICK g \in FileType :
        /\ file' \in [Jobs -> FileType] /\ file'[j] = g /\ \A k \in Jobs \ {j} : file'[k] = file[k]
        /\ g.owner = s /\ g.at # "unborn"
  OBVIOUS
<1>6. /\ waitfifo' \in [Sessions -> BOOLEAN] /\ waitfifo'[s] /\ \A r \in Sessions \ {s} : waitfifo'[r] = waitfifo[r]
  BY <1>1 DEF Ask, Typed
<1> DEFINE m == [cmd |-> Letter(op), job |-> j, from |-> s]
<1>7. m \in RequestType /\ m.from = s /\ m.job = j /\ fifo' = Append(fifo, m)
  BY DEF Ask, RequestType, Letter, Letters, Ops
<1> HIDE DEF m
<1>8. fifo' \in Seq(RequestType)
  BY <1>1, <1>7, AppendFacts DEF Typed
<1>9. Typed'
  BY <1>1, <1>2, <1>5, <1>6, <1>8 DEF Typed
<1>10. StepOf(s)
  <2>1. \A r \in Sessions \ {s}, k \in Jobs : <<r, k>> \in newer => <<r, k>> \in newer'
    OBVIOUS
  <2>2. \/ fifo' = fifo
        \/ \E x \in RequestType :
             fifo' = Append(fifo, x) /\ (x.cmd # "D" => x.from = s /\ file[x.job].owner = s)
    BY <1>1, <1>7
  <2> QED  BY <1>1, <1>2, <1>5, <1>6, <2>1, <2>2 DEF StepOf
<1>11. OwnedBy(s)'
  <2>0. \A k \in Jobs : file[k].owner = s => file'[k].owner = s
    BY <1>5
  <2>1. \A k \in Jobs : mem'[s][k] # None => file'[k].owner = s
    BY <1>1, <2>0 DEF OwnedBy
  <2>2. \A k \in Jobs : cur'[s] = k \/ spec'[s] = k \/ k \in blank'[s] => file'[k].owner = s
    BY <1>1, <2>0 DEF OwnedBy
  <2>3. \A i \in DOMAIN task'[s] : file'[task'[s][i].job].owner = s
    <3>1. file'[f.job].owner = s
      BY <1>3, <1>5
    <3>2. task'[s][1] = f
      BY <1>2
    <3> QED  BY <1>4, <3>1, <3>2
  <2>4. \A i \in DOMAIN inbox'[s] :
          inbox'[s][i].cmd = "event" => file'[inbox'[s][i].job].owner = s
    BY <1>1, <2>0, ElementTypes DEF OwnedBy
  <2> QED  BY <2>1, <2>2, <2>3, <2>4 DEF OwnedBy
<1>12. Own(s)'
  <2>1. f.op = "JSUBM" /\ f.at = "asked" =>
          mem'[s][f.job] \in CopyType /\ file'[f.job].at \in {"sendq", "doneq"}
    BY <1>3
  <2>2. /\ strayed' = {} /\ waitfifo'[s] => f.at = "asked"
        /\ f.at = "asked" => waitfifo'[s] \/ response'[s] \in AnswerType
        /\ f.op = "HELLO" => f.at = "asked"
        /\ f.at \in {"sleep", "watch"} => f.op = "JWAIT"
        /\ f.at = "checked" => mem'[s][f.job] # None
    BY <1>3, <1>6
  <2>3. s \in online' /\ task'[s] \in Seq(FrameType)
    BY <1>1, <1>2
  <2> QED  BY <1>2, <1>11, <2>1, <2>2, <2>3, SingleOwn
<1>13. ASSUME strayed' = {} PROVE Queue' /\ Submissions' /\ Sound(s)'
  <2>0. strayed = {}
    BY <1>13
  <2>1. /\ Queue /\ Submissions /\ RequestsOf(s) /\ CopiesOf(s) /\ EventsOf(s) /\ ~waitfifo[s]
    BY <1>1, <2>0 DEF AtEase
  <2>2. /\ g.at = file[j].at /\ g.state = file[j].state
        /\ g.rev >= file[j].rev /\ (mem[s][j] # None => mem[s][j].rev >= g.rev)
    BY <1>5, <2>0
  <2>3. \A k \in Jobs : file'[k].at = file[k].at /\ file'[k].state = file[k].state
    BY <1>5, <2>2
  <2>4. \A k \in Jobs : (Present(k)' <=> Present(k)) /\ (Accepted(k)' <=> Accepted(k))
    BY <2>3 DEF Present, Accepted
  <2>5. Queue'
    BY <2>1, <2>3, <2>4 DEF Queue
  <2>6. Submissions'
    <3>1. ASSUME NEW k \in Jobs, confirmed[k] # None
          PROVE  file'[k].rev >= confirmed[k]
      <4>1. file[k].rev \in Nat /\ g.rev \in Nat /\ confirmed[k] \in Nat /\ file[k].rev >= confirmed[k]
        BY <1>1, <2>1, <3>1, FileFacts DEF Submissions, FileType, Typed
      <4> QED  BY <1>5, <2>2, <4>1
    <3> QED  BY <2>1, <2>4, <3>1 DEF Submissions
  <2>7. RequestsOf(s)' /\ \A i \in DOMAIN inbox'[s] : ~IsAnswer(inbox'[s][i])
    BY <1>1, <1>3, <1>4, <2>1, Asks
  <2>8. BelievedBy(s)'
    BY <1>6, <2>7 DEF BelievedBy, IsAnswer, Letters
  <2>9. CopiesOf(s)'
    <3>1. ASSUME NEW k \in Jobs, mem[s][k] # None
          PROVE  GoodCopy(k, mem[s][k])' /\ (<<s, k>> \notin newer' => Current(k, mem[s][k])')
      <4>1. GoodCopy(k, mem[s][k]) /\ (<<s, k>> \notin newer => Current(k, mem[s][k]))
        BY <2>1, <3>1 DEF CopiesOf
      <4>2. mem[s][k].rev >= file'[k].rev
        BY <1>5, <2>2, <3>1, <4>1 DEF GoodCopy
      <4> QED  BY <2>3, <4>1, <4>2 DEF GoodCopy, Current
    <3> QED  BY <3>1 DEF CopiesOf
  <2>10. EventsOf(s)'
    BY <1>1, <2>1, <2>3, ElementTypes DEF EventsOf
  <2>11. HandlingOf(s)'
    <3>1. op = "JDELE" => file'[j].at = "sendq" /\ file'[j].state = "suspended"
      BY <2>0, <2>3 DEF AtRest
    <3>2. op = "JSUBM" => file'[j].at = "sendq" /\ mem'[s][j].rev = file'[j].rev
      BY <1>5, <2>0
    <3>3. Handled(f, j, mem[s][j])'
      BY <1>3, <3>1, <3>2 DEF Handled, AtRest
    <3>4. task'[s][1] = f
      BY <1>2
    <3> QED  BY <1>3, <1>4, <3>3, <3>4 DEF HandlingOf
  <2> QED  BY <2>5, <2>6, <2>7, <2>8, <2>9, <2>10, <2>11 DEF Sound
<1> QED  BY <1>9, <1>10, <1>12, <1>13 DEF Kept

\* JSUBM asks faxq to take the job, whose file it has written,
LEMMA SubmitJobStep ==
  ASSUME Inv, NEW s \in Sessions, Act(s), SubmitJob(s, Top(s).job)
  PROVE  Kept(s)
<1>1. Top(s).at = "checked" /\ Top(s).op = "JSUBM"
  BY DEF Act, SubmitJob
<1>2. PICK j : j = Top(s).job
  OBVIOUS
<1>3. /\ Typed /\ j \in Jobs /\ file[j].owner = s /\ AtEase(s) /\ mem[s][j] # None
      /\ strayed = {} => CopiesOf(s) /\ Handled(Top(s), j, mem[s][j])
  BY <1>1, <1>2, AtWork
<1>4. UNCHANGED <<stage, waits, triggers, online, blank, response, tid, inbox, locker,
                   mem, cur, confirmed, spec>>
  BY DEF Act, SubmitJob, faxqVars
<1>5. CASE Locked(j)
  <2>1. Pop(s) /\ UNCHANGED <<file, newer, fifo, waitfifo, strayed>>
    BY <1>2, <1>5 DEF SubmitJob
  <2>2. tid' \in [Sessions -> Tids]
    BY <1>3, <1>4 DEF Typed
  <2> QED  BY <1>1, <1>3, <1>4, <2>1, <2>2, EndsOnly DEF copyVars
<1>6. CASE ~Locked(j)
  <2>1. WriteCopy(s, j) /\ Ask(s, "JSUBM", j) /\ GoTo(s, "asked")
    BY <1>2, <1>6 DEF SubmitJob
  <2>2. PICK c : c = mem[s][j]
    OBVIOUS
  <2>3. c \in CopyType /\ file[j] \in FileType
    BY <1>3, <2>2 DEF Typed
  <2> DEFINE h == [file[j] EXCEPT !.at = c.at, !.state = c.state, !.rev = c.rev, !.imaged = c.imaged]
  <2>4. h \in FileType /\ h.owner = s /\ h.at = c.at /\ h.state = c.state /\ h.rev = c.rev
    BY <1>3, <2>3 DEF FileType, CopyType
  <2>5. file' = [file EXCEPT ![j] = h]
    BY <2>1, <2>2 DEF WriteCopy
  <2>6. /\ file' \in [Jobs -> FileType] /\ file'[j] = h /\ \A k \in Jobs \ {j} : file'[k] = file[k]
    <3> HIDE DEF h
    <3> QED  BY <1>3, <2>4, <2>5 DEF Typed
  <2> HIDE DEF h
  <2>7. /\ newer' \in SUBSET (Sessions \X Jobs) /\ newer \subseteq newer'
        /\ strayed \subseteq strayed' /\ strayed' \subseteq Strays
    BY <1>3, <2>1, NoticedFacts DEF WriteCopy
  <2>8. strayed = {} => /\ file'[j].at = file[j].at /\ file'[j].state = file[j].state
                        /\ file'[j].rev >= file[j].rev /\ mem[s][j].rev >= file'[j].rev
                        /\ file'[j].at = "sendq" /\ mem[s][j].rev = file'[j].rev
    <3>1. c.rev \in Nat
      BY <2>3 DEF CopyType
    <3>2. strayed = {} => /\ file[j].at = "sendq" /\ file[j].state = "suspended"
                          /\ c.at = "sendq" /\ c.state = "suspended" /\ c.rev >= file[j].rev
      BY <1>1, <1>3, <2>2 DEF Handled, AtRest, CopiesOf, GoodCopy
    <3> QED  BY <2>2, <2>4, <2>6, <3>1, <3>2
  <2>9. /\ file'[j].owner = s /\ file'[j].at # "unborn"
        /\ mem[s][j] \in CopyType /\ file'[j].at \in {"sendq", "doneq"}
    BY <2>2, <2>3, <2>4, <2>6 DEF CopyType
  <2>10. /\ locker' \in [Jobs -> Sessions \cup {None}] /\ spec' \in [Sessions -> Jobs \cup {None}]
         /\ spec'[s] \in {spec[s], j} /\ \A r \in Sessions \ {s} : spec'[r] = spec[r]
    BY <1>3, <1>4 DEF Typed
  <2>11. "JSUBM" \in Ops
    BY DEF Ops
  <2> QED  BY <1>1, <1>2, <1>3, <1>4, <2>1, <2>6, <2>7, <2>8, <2>9, <2>10, <2>11, AsksAndWaits
<1> QED  BY <1>5, <1>6

\* A request sent without a change of the file.
LEMMA OnlyAsks ==
  ASSUME Inv, NEW s \in Sessions, Top(s).at = "checked", GoTo(s, "asked"),
         NEW j \in Jobs, j = Top(s).job, NEW op \in Ops, op = Top(s).op, Ask(s, op, j),
         locker' \in [Jobs -> Sessions \cup {None}], spec' \in [Sessions -> Jobs \cup {None}],
         spec'[s] \in {spec[s], j}, \A r \in Sessions \ {s} : spec'[r] = spec[r],
         op # "JSUBM", strayed = {} /\ op = "JDELE" => AtRest(j),
         UNCHANGED <<file, newer, stage, waits, triggers, online, mem, cur, blank,
                     response, tid, inbox, confirmed, strayed>>
  PROVE  Kept(s)
<1>1. strayed \subseteq strayed' /\ strayed' \subseteq Strays
  BY DEF Inv, Typed
<1>2. Typed /\ file[j].owner = s /\ (strayed = {} => CopiesOf(s))
  BY AtWork
<1>3. file[j].rev \in Nat /\ file[j].at # "unborn" /\ file \in [Jobs -> FileType]
  <2>1. file[j].at # "unborn"
    BY <1>2, NoneIsNobody DEF Inv, OwnedThere
  <2>2. file[j] \in FileType /\ file \in [Jobs -> FileType]
    BY <1>2, FileFacts DEF Typed
  <2> QED  BY <2>1, <2>2 DEF FileType
<1>4. newer' \in SUBSET (Sessions \X Jobs) /\ newer \subseteq newer'
  BY <1>2 DEF Typed
<1>5. strayed = {} /\ mem[s][j] # None => mem[s][j].rev >= file[j].rev
  BY <1>2 DEF CopiesOf, GoodCopy
<1>6. file[j].rev >= file[j].rev
  BY <1>3
<1> QED  BY <1>1, <1>2, <1>3, <1>4, <1>5, <1>6, AsksAndWaits

\* JSUSP, JKILL and JINTR ask for the job by its name,
LEMMA OperateOnJobStep ==
  ASSUME Inv, NEW s \in Sessions, Act(s), OperateOnJob(s, Top(s).job)
  PROVE  Kept(s)
<1>1. PICK j : j = Top(s).job
  OBVIOUS
<1>2. PICK op : op = Top(s).op
  OBVIOUS
<1>3. /\ Top(s).at = "checked" /\ op \in {"JSUSP", "JKILL"} /\ Ask(s, op, j) /\ GoTo(s, "asked")
      /\ UNCHANGED <<file, newer, stage, waits, triggers, online, mem, cur, blank,
                     response, tid, inbox, confirmed, strayed, locker, spec>>
  BY <1>1, <1>2 DEF Act, OperateOnJob, faxqVars
<1>4. Typed /\ j \in Jobs /\ op \in Ops
  BY <1>1, <1>3, AtWork DEF Ops
<1>5. /\ locker' \in [Jobs -> Sessions \cup {None}] /\ spec' \in [Sessions -> Jobs \cup {None}]
      /\ spec'[s] \in {spec[s], j} /\ \A r \in Sessions \ {s} : spec'[r] = spec[r]
  BY <1>3, <1>4 DEF Typed
<1> QED  BY <1>1, <1>2, <1>3, <1>4, <1>5, OnlyAsks

\* JWAIT asks for a trigger,
LEMMA NewTriggerStep ==
  ASSUME Inv, NEW s \in Sessions, Act(s), NewTrigger(s, Top(s).job)
  PROVE  Kept(s)
<1>1. PICK j : j = Top(s).job
  OBVIOUS
<1>2. PICK op : op = "JWAIT"
  OBVIOUS
<1>3. /\ Top(s).at = "checked" /\ op = Top(s).op /\ Ask(s, op, j) /\ GoTo(s, "asked")
      /\ spec' = [spec EXCEPT ![s] = j]
      /\ UNCHANGED <<file, newer, stage, waits, triggers, online, mem, cur, blank,
                     response, tid, inbox, confirmed, strayed, locker>>
  BY <1>1, <1>2 DEF Act, NewTrigger, faxqVars
<1>4. Typed /\ j \in Jobs /\ op \in Ops
  BY <1>1, <1>2, <1>3, AtWork DEF Ops
<1>5. /\ locker' \in [Jobs -> Sessions \cup {None}] /\ spec' \in [Sessions -> Jobs \cup {None}]
      /\ spec'[s] \in {spec[s], j} /\ \A r \in Sessions \ {s} : spec'[r] = spec[r]
  BY <1>3, <1>4 DEF Typed
<1> QED  BY <1>1, <1>2, <1>3, <1>4, <1>5, OnlyAsks

\* and JDELE removes a job, or asks faxq about its documents first.
LEMMA DeleteJobStep ==
  ASSUME Inv, NEW s \in Sessions, Act(s), DeleteJob(s, Top(s).job)
  PROVE  Kept(s)
<1>1. PICK j : j = Top(s).job
  OBVIOUS
<1>2. PICK op : op = "JDELE"
  OBVIOUS
<1>3. /\ Top(s).at = "checked" /\ op = Top(s).op
      /\ UNCHANGED <<stage, waits, triggers, online, blank, response, tid, inbox, strayed, spec>>
  BY <1>1, <1>2 DEF Act, DeleteJob, faxqVars
<1>4. /\ Typed /\ j \in Jobs /\ op \in Ops /\ AtEase(s) /\ mem[s][j] # None
      /\ strayed = {} => CopiesOf(s) /\ Handled(Top(s), j, mem[s][j])
  BY <1>1, <1>2, <1>3, AtWork DEF Ops
<1>5. CASE Locked(j) \/ file[j].at # mem[s][j].at
  <2>1. Pop(s) /\ UNCHANGED <<file, locker, copyVars, fifo, waitfifo, confirmed>>
    BY <1>1, <1>5 DEF DeleteJob
  <2>2. tid' \in [Sessions -> Tids]
    BY <1>3, <1>4 DEF Typed
  <2> QED  BY <1>3, <1>4, <2>1, <2>2, EndsOnly
<1>6. CASE /\ ~(Locked(j) \/ file[j].at # mem[s][j].at)
           /\ mem[s][j].state = "suspended" /\ mem[s][j].imaged
  <2>1. /\ locker' = [locker EXCEPT ![j] = s] /\ Ask(s, op, j) /\ GoTo(s, "asked")
        /\ UNCHANGED <<file, mem, newer, cur, confirmed>>
    BY <1>1, <1>2, <1>6 DEF DeleteJob, copyVars
  <2>2. /\ locker' \in [Jobs -> Sessions \cup {None}] /\ spec' \in [Sessions -> Jobs \cup {None}]
        /\ spec'[s] \in {spec[s], j} /\ \A r \in Sessions \ {s} : spec'[r] = spec[r]
    BY <1>3, <1>4, <2>1 DEF Typed
  <2>3. strayed = {} => AtRest(j)
    <3>1. strayed = {} => AtRest(j) \/ file[j].at = "doneq"
      BY <1>2, <1>3, <1>4 DEF Handled
    <3>2. strayed = {} => mem[s][j].at # "doneq"
      <4>1. strayed = {} => GoodCopy(j, mem[s][j])
        BY <1>4 DEF CopiesOf
      <4>2. mem[s][j].state \notin Ended
        BY <1>6 DEF Ended
      <4> QED  BY <4>1, <4>2 DEF GoodCopy
    <3> QED  BY <1>6, <3>1, <3>2
  <2>4. op # "JSUBM"
    BY <1>2
  <2> QED  BY <1>1, <1>3, <1>4, <2>1, <2>2, <2>3, <2>4, OnlyAsks
<1>7. CASE /\ ~(Locked(j) \/ file[j].at # mem[s][j].at)
           /\ ~(mem[s][j].state = "suspended" /\ mem[s][j].imaged)
  <2>1. Erase(s, j) /\ Pop(s) /\ UNCHANGED <<locker, fifo, waitfifo>>
    BY <1>1, <1>7 DEF DeleteJob
  <2>2. locker' \in [Jobs -> Sessions \cup {None}]
    BY <1>4, <2>1 DEF Typed
  <2> QED  BY <1>1, <1>3, <1>4, <2>1, <2>2, ErasesAndEnds
<1> QED  BY <1>5, <1>6, <1>7

\* The second half of a command.
LEMMA ActStep ==
  ASSUME Inv, NEW s \in Sessions, Act(s)
  PROVE  Kept(s)
<1>1. \/ SubmitJob(s, Top(s).job) \/ OperateOnJob(s, Top(s).job)
      \/ NewTrigger(s, Top(s).job) \/ DeleteJob(s, Top(s).job)
  BY DEF Act
<1> QED  BY <1>1, SubmitJobStep, OperateOnJobStep, NewTriggerStep, DeleteJobStep

-----------------------------------------------------------------------------
(* A handler that goes on when the answer has come *)

\* A handler that has its answer is on top.
LEMMA AnsweredHas ==
  ASSUME Typed, NEW s \in Sessions, Own(s), Top(s).at = "asked", ~waitfifo[s], Answered(s),
         Letter(Top(s).op) = "T"
  PROVE  response[s].tid \in Tids
<1>1. response[s] \in AnswerType
  BY DEF Typed, Own, FramesOf
<1>2. response[s].cmd = "T" /\ response[s].ok
  BY DEF Answered
<1> QED  BY <1>1, <1>2 DEF AnswerType, ReplyType

\* JSUBM: the client may be told that its job is submitted.
LEMMA SubmittedStep ==
  ASSUME Inv, NEW s \in Sessions, Top(s).at = "asked", ~waitfifo[s], Top(s).op = "JSUBM", Pop(s),
         NEW j \in Jobs, j = Top(s).job, Answered(s),
         confirmed' = [confirmed EXCEPT ![j] = mem[s][j].rev],
         blank' = [blank EXCEPT ![s] = Submitted(s, j)],
         UNCHANGED <<file, stage, waits, triggers, fifo, online, mem, newer, cur, waitfifo,
                     response, spec, inbox, strayed, locker, tid>>
  PROVE  Kept(s)
<1>1. /\ Typed /\ Own(s) /\ OwnedBy(s) /\ s \in online /\ file[j].owner = s
      /\ Len(task[s]) = 1 /\ DOMAIN task[s] = {1} /\ task[s][1] = Top(s)
      /\ strayed = {} => /\ Queue /\ Submissions /\ Sound(s) /\ RequestsOf(s)
                         /\ CopiesOf(s) /\ EventsOf(s) /\ Handled(Top(s), j, mem[s][j])
  BY AtWork
<1>2. mem[s][j] \in CopyType /\ mem[s][j].rev \in Nat
  <2>1. mem[s][j] \in CopyType
    BY <1>1 DEF Own, SubmittedBy
  <2> QED  BY <2>1 DEF CopyType
<1>3. /\ task' \in [Sessions -> Seq(FrameType)] /\ task'[s] = <<>>
      /\ \A r \in Sessions \ {s} : task'[r] = task[r]
  BY <1>1, BusyTop, PopFacts
<1>4. /\ confirmed' \in [Jobs -> Nat \cup {None}] /\ confirmed'[j] = mem[s][j].rev
      /\ \A k \in Jobs \ {j} : confirmed'[k] = confirmed[k]
  BY <1>1, <1>2 DEF Typed
<1>5. /\ blank' \in [Sessions -> SUBSET Jobs] /\ blank'[s] = blank[s] \ {j}
      /\ \A r \in Sessions \ {s} : blank'[r] = blank[r]
  BY <1>1 DEF Typed, Submitted
<1>6. Typed'
  BY <1>1, <1>3, <1>4, <1>5 DEF Typed
<1>7. StepOf(s)
  BY <1>1, <1>3, <1>5 DEF StepOf
<1>8. OwnedBy(s)'
  <2>1. DOMAIN task'[s] = {}
    BY <1>3
  <2> QED  BY <1>1, <1>5, <2>1 DEF OwnedBy
<1>10. AtEase(s)'
  BY DEF AtEase
<1>9. ASSUME strayed' = {} PROVE Queue' /\ Submissions' /\ Sound(s)'
  <2>1. /\ Queue /\ Submissions /\ Sound(s) /\ RequestsOf(s)
        /\ CopiesOf(s) /\ EventsOf(s) /\ Handled(Top(s), j, mem[s][j])
    BY <1>1, <1>9
  <2>2. Queue'
    BY <2>1 DEF Queue, Present
  <2>3. Submissions'
    <3>1. ASSUME NEW k \in Jobs, confirmed'[k] # None
          PROVE  /\ Accepted(k) /\ file[k].rev >= confirmed'[k]
                 /\ \A r \in Sessions : k \notin blank'[r]
      <4>1. CASE k = j
        <5>1. response[s].cmd = "S" /\ response[s].ok
          BY DEF Answered, Letter
        <5>2. s \in online /\ BelievedBy(s)
          BY <1>1, <2>1 DEF Sound
        <5>3. Accepted(j)
          BY <5>1, <5>2 DEF BelievedBy
        <5>4. file[j].rev >= confirmed'[j]
          BY <1>2, <1>4, <2>1 DEF Handled
        <5>5. \A r \in Sessions : j \notin blank'[r]
          <6>1. ASSUME NEW r \in Sessions \ {s} PROVE j \notin blank[r]
            BY <1>1, <6>1 DEF Inv, Own, OwnedBy
          <6> QED  BY <1>5, <6>1
        <5> QED  BY <4>1, <5>3, <5>4, <5>5
      <4>2. CASE k # j
        BY <1>4, <1>5, <2>1, <3>1, <4>2 DEF Submissions
      <4> QED  BY <4>1, <4>2
    <3> QED  BY <3>1 DEF Submissions, Accepted, Present
  <2>4. Quiet(s)' /\ RequestsOf(s)'
    BY <1>1, <2>1, StaysQuiet
  <2>5. HandlingOf(s)' /\ BelievedBy(s)'
    BY <1>3, <1>8, <1>10, <2>4, Idle
  <2>6. CopiesOf(s)'
    BY <2>1 DEF CopiesOf, GoodCopy, Current
  <2>7. EventsOf(s)'
    BY <1>1, <2>1, EventsAlone DEF Shorter
  <2> QED  BY <2>2, <2>3, <2>4, <2>5, <2>6, <2>7 DEF Sound
<1> QED  BY <1>3, <1>6, <1>7, <1>8, <1>9, <1>10, Idle DEF Kept

\* A step that changes nothing but the handlers of the session.
LEMMA TaskOnly ==
  ASSUME Inv, NEW s \in Sessions, s \in online, ~waitfifo[s], tid' \in [Sessions -> Tids],
         task' \in [Sessions -> Seq(FrameType)], \A r \in Sessions \ {s} : task'[r] = task[r],
         \A i \in DOMAIN task'[s] : file[task'[s][i].job].owner = s,
         UNCHANGED <<file, stage, waits, triggers, fifo, online, mem, newer, cur, blank, waitfifo,
                     response, spec, inbox, confirmed, strayed, locker>>
  PROVE  /\ Typed' /\ StepOf(s) /\ OwnedBy(s)'
         /\ strayed' = {} => /\ Queue' /\ Submissions' /\ RequestsOf(s)' /\ Quiet(s)'
                             /\ CopiesOf(s)' /\ EventsOf(s)'
<1>1. Typed /\ OwnedBy(s)
  BY DEF Inv, Own
<1>2. Typed'
  BY <1>1 DEF Typed
<1>3. StepOf(s)
  BY DEF StepOf
<1>4. OwnedBy(s)'
  BY <1>1 DEF OwnedBy
<1>5. ASSUME strayed' = {}
      PROVE  /\ Queue' /\ Submissions' /\ RequestsOf(s)' /\ Quiet(s)' /\ CopiesOf(s)' /\ EventsOf(s)'
  <2>1. Queue /\ Submissions /\ RequestsOf(s) /\ CopiesOf(s) /\ EventsOf(s)
    BY <1>5 DEF Inv, Sound
  <2>2. Queue' /\ Submissions'
    BY <2>1, FilesAlone
  <2>3. Quiet(s)' /\ RequestsOf(s)'
    BY <1>1, <2>1, StaysQuiet
  <2>4. CopiesOf(s)'
    BY <2>1 DEF CopiesOf, GoodCopy, Current
  <2>5. EventsOf(s)'
    BY <1>1, <2>1, EventsAlone DEF Shorter
  <2> QED  BY <2>2, <2>3, <2>4, <2>5
<1> QED  BY <1>2, <1>3, <1>4, <1>5

\* JWAIT has its trigger: the job is looked at first.
LEMMA WatchesStep ==
  ASSUME Inv, NEW s \in Sessions, Top(s).at = "asked", ~waitfifo[s], Top(s).op = "JWAIT",
         GoTo(s, "watch"), tid' \in [Sessions -> Tids],
         UNCHANGED <<file, stage, waits, triggers, fifo, online, mem, newer, cur, blank, waitfifo,
                     response, spec, inbox, confirmed, strayed, locker>>
  PROVE  Kept(s)
<1>1. /\ Typed /\ Own(s) /\ s \in online /\ Top(s) \in FrameType
      /\ Top(s).job \in Jobs /\ file[Top(s).job].owner = s
  BY AtWork
<1>2. PICK f \in FrameType :
        /\ f = [Top(s) EXCEPT !.at = "watch"]
        /\ task' \in [Sessions -> Seq(FrameType)] /\ Len(task'[s]) = 1 /\ task'[s][1] = f
        /\ \A r \in Sessions \ {s} : task'[r] = task[r]
  BY <1>1, BusyTop, GoToFacts
<1>3. f.at = "watch" /\ f.op = "JWAIT" /\ f.job = Top(s).job
  BY <1>1, <1>2 DEF FrameType
<1>4. Top(s)' = f /\ DOMAIN task'[s] = {1}
  BY <1>2, Single, Zenon
<1>5. \A i \in DOMAIN task'[s] : task'[s][i] = f
  BY <1>2, <1>4
<1>6. \A i \in DOMAIN task'[s] : file[task'[s][i].job].owner = s
  BY <1>1, <1>3, <1>5
<1>7. /\ Typed' /\ StepOf(s) /\ OwnedBy(s)'
      /\ strayed' = {} => /\ Queue' /\ Submissions' /\ RequestsOf(s)' /\ Quiet(s)'
                          /\ CopiesOf(s)' /\ EventsOf(s)'
  BY <1>1, <1>2, <1>6, TaskOnly
<1>8. Own(s)'
  BY <1>1, <1>2, <1>3, <1>7, SingleOwn
<1>9. ASSUME strayed' = {} PROVE HandlingOf(s)' /\ BelievedBy(s)'
  <2>1. HandlingOf(s)'
    BY <1>3, <1>5 DEF HandlingOf, Handled
  <2>2. BelievedBy(s)'
    BY <1>3, <1>4, <1>7, <1>9 DEF BelievedBy, Quiet, IsAnswer, Letters
  <2> QED  BY <2>1, <2>2
<1> QED  BY <1>7, <1>8, <1>9 DEF Kept, Sound

\* The answer to a hello: what lies below goes on.
LEMMA GreetedStep ==
  ASSUME Inv, NEW s \in Sessions, Top(s).at = "asked", ~waitfifo[s], Top(s).op = "HELLO",
         Pop(s), tid' \in [Sessions -> Tids],
         UNCHANGED <<file, stage, waits, triggers, fifo, online, mem, newer, cur, blank, waitfifo,
                     response, spec, inbox, confirmed, strayed, locker>>
  PROVE  Kept(s)
<1>1. Typed /\ Own(s) /\ OwnedBy(s) /\ FramesOf(s) /\ SubmittedBy(s) /\ task[s] \in Seq(FrameType)
  BY DEF Inv, Own, Typed
<1>2. task[s] # <<>> /\ s \in online /\ response[s] \in AnswerType
  <2>1. Top(s) # NoFrame
    BY BusyTop
  <2> QED  BY <1>1, <2>1, TopIs DEF FramesOf
<1>3. PICK q : q = Front(task[s])
  OBVIOUS
<1>4. PICK n \in Nat : n = Len(task[s]) - 1
  BY <1>1, <1>2, FrontFacts
<1>5. /\ q \in Seq(FrameType) /\ Len(q) = n /\ DOMAIN q = 1..n /\ DOMAIN task[s] = 1..(n + 1)
      /\ \A i \in 1..n : q[i] = task[s][i]
  <2>1. /\ Front(task[s]) \in Seq(FrameType) /\ Len(task[s]) \in Nat \ {0}
        /\ DOMAIN task[s] = 1..Len(task[s])
        /\ Len(Front(task[s])) = Len(task[s]) - 1 /\ DOMAIN Front(task[s]) = 1..(Len(task[s]) - 1)
        /\ \A i \in 1..(Len(task[s]) - 1) : Front(task[s])[i] = task[s][i]
    BY <1>1, <1>2, FrontFacts
  <2>2. Len(task[s]) = n + 1
    BY <1>4, <2>1
  <2> QED  BY <1>3, <1>4, <2>1, <2>2
<1>6. task' \in [Sessions -> Seq(FrameType)] /\ task'[s] = q
      /\ \A r \in Sessions \ {s} : task'[r] = task[r]
  BY <1>1, <1>3, <1>5 DEF Pop, Typed
<1>7. \A i \in DOMAIN task'[s] :
        /\ i \in DOMAIN task[s] /\ task'[s][i] = task[s][i]
        /\ task[s][i].at # "checked" /\ file[task[s][i].job].owner = s
  <2> SUFFICES ASSUME NEW i \in 1..n
               PROVE  /\ i \in DOMAIN task[s] /\ q[i] = task[s][i]
                      /\ task[s][i].at # "checked" /\ file[task[s][i].job].owner = s
    BY <1>5, <1>6
  <2>1. i \in DOMAIN task[s] /\ q[i] = task[s][i] /\ n >= 1
    BY <1>5
  <2>2. Len(task[s]) # 1
    <3>1. Len(task[s]) = n + 1
      BY <1>1, <1>2, <1>4, FrontFacts
    <3> QED  BY <2>1, <3>1
  <2> QED  BY <1>1, <2>1, <2>2 DEF FramesOf, OwnedBy
<1>8. /\ Typed' /\ StepOf(s) /\ OwnedBy(s)'
      /\ strayed' = {} => /\ Queue' /\ Submissions' /\ RequestsOf(s)' /\ Quiet(s)'
                          /\ CopiesOf(s)' /\ EventsOf(s)'
  BY <1>2, <1>6, <1>7, TaskOnly
<1>9. FramesOf(s)'
  BY <1>1, <1>2, <1>7 DEF FramesOf
<1>10. SubmittedBy(s)'
  BY <1>1, <1>7 DEF SubmittedBy
<1>11. ASSUME strayed' = {} PROVE HandlingOf(s)' /\ BelievedBy(s)'
  <2>1. HandlingOf(s) /\ response[s].cmd # "S"
    BY <1>2, <1>11 DEF Inv, Sound, BelievedBy
  <2>2. HandlingOf(s)'
    <3>1. \A f, j, c : Handled(f, j, c) => Handled(f, j, c)'
      BY DEF Handled, AtRest
    <3> QED  BY <1>7, <2>1, <3>1 DEF HandlingOf
  <2>3. BelievedBy(s)'
    BY <1>8, <1>11, <2>1 DEF BelievedBy, Quiet, IsAnswer, Letters
  <2> QED  BY <2>2, <2>3
<1> QED  BY <1>8, <1>9, <1>10, <1>11 DEF Kept, Own, Sound

\* A handler that has its answer ends, or asks again.
LEMMA ResumeStep ==
  ASSUME Inv, NEW s \in Sessions, Resume(s)
  PROVE  Kept(s)
<1>1. /\ Top(s).at = "asked" /\ ~waitfifo[s]
      /\ UNCHANGED <<stage, waits, triggers, fifo, online, waitfifo, response, inbox, strayed>>
  BY DEF Resume, faxqVars
<1>2. Typed /\ Own(s)
  BY DEF Inv
<1>3. PICK j : j = Top(s).job
  OBVIOUS
<1>4. ASSUME Top(s).op # "HELLO" PROVE j \in Jobs
  BY <1>1, <1>3, <1>4, AtWork
<1>5. tid \in [Sessions -> Tids]
  BY <1>2 DEF Typed
<1>6. ASSUME Top(s).op = "JSUBM", Pop(s),
             confirmed' = IF Answered(s) THEN [confirmed EXCEPT ![j] = mem[s][j].rev] ELSE confirmed,
             blank' = IF Answered(s) THEN [blank EXCEPT ![s] = Submitted(s, j)] ELSE blank,
             UNCHANGED <<file, locker, copyVars, spec, tid>>
      PROVE  Kept(s)
  <2>1. CASE Answered(s)
    BY <1>1, <1>3, <1>4, <1>6, <2>1, SubmittedStep DEF copyVars
  <2>2. CASE ~Answered(s)
    BY <1>1, <1>5, <1>6, <2>2, EndsOnly DEF AtEase
  <2> QED  BY <2>1, <2>2
<1>7. ASSUME Top(s).op \in {"JSUSP", "JKILL"}, Pop(s),
             UNCHANGED <<file, locker, copyVars, blank, spec, tid, confirmed>>
      PROVE  Kept(s)
  BY <1>1, <1>5, <1>7, EndsOnly DEF AtEase
<1>8. ASSUME Top(s).op = "JDELE", Pop(s), Erase(s, j), locker' = [locker EXCEPT ![j] = None],
             UNCHANGED <<blank, spec, tid>>
      PROVE  Kept(s)
  <2>1. locker' \in [Jobs -> Sessions \cup {None}]
    BY <1>2, <1>8 DEF Typed
  <2> QED  BY <1>1, <1>3, <1>4, <1>8, <2>1, ErasesAndEnds DEF AtEase
<1>9. ASSUME Top(s).op \in {"JWAIT", "HELLO"},
             tid' = IF Answered(s) THEN [tid EXCEPT ![s] = response[s].tid] ELSE tid,
             IF Top(s).op = "JWAIT" /\ Answered(s) THEN GoTo(s, FirstWait) ELSE Pop(s),
             UNCHANGED <<file, locker, copyVars, blank, spec, confirmed>>
      PROVE  Kept(s)
  <2>1. tid' \in [Sessions -> Tids]
    <3>1. Letter(Top(s).op) = "T"
      BY <1>9 DEF Letter
    <3>2. Answered(s) => response[s].tid \in Tids
      BY <1>1, <1>2, <3>1, AnsweredHas
    <3> QED  BY <1>5, <1>9, <3>2
  <2>2. CASE Top(s).op = "JWAIT" /\ Answered(s)
    BY <1>1, <1>9, <2>1, <2>2, WatchesStep DEF FirstWait, copyVars
  <2>3. CASE Top(s).op = "JWAIT" /\ ~Answered(s)
    BY <1>1, <1>9, <2>1, <2>3, EndsOnly DEF AtEase
  <2>4. CASE Top(s).op = "HELLO"
    BY <1>1, <1>9, <2>1, <2>4, GreetedStep DEF copyVars
  <2> QED  BY <1>9, <2>2, <2>3, <2>4
<1> QED  BY <1>3, <1>6, <1>7, <1>8, <1>9 DEF Resume

-----------------------------------------------------------------------------
(* Handlers that look at a job while they wait *)

\* An event changes one copy of the session that takes it.
LEMMA LookOnly ==
  ASSUME Inv, NEW s \in Sessions, s \in online, NEW j \in Jobs, file[j].owner = s,
         NEW job \in CopyType \cup {None}, NEW now \in Jobs \cup {None}, now \in {None, j, cur[s]},
         CopyStep(s, j, job, now),
         job # None /\ strayed = {} =>
           GoodCopy(j, job) /\ (<<s, j>> \notin newer' => Current(j, job)),
         task' \in [Sessions -> Seq(FrameType)], \A r \in Sessions \ {s} : task'[r] = task[r],
         \A i \in DOMAIN task'[s] : file[task'[s][i].job].owner = s,
         fifo' = fifo \/ \E t \in Tids : fifo' = Append(fifo, [cmd |-> "D", tid |-> t]),
         spec' \in [Sessions -> Jobs \cup {None}], spec'[s] \in {None, spec[s]},
         \A r \in Sessions \ {s} : spec'[r] = spec[r],
         inbox' \in [Sessions -> Seq(MessageType)], \A r \in Sessions \ {s} : inbox'[r] = inbox[r],
         Shorter(s),
         UNCHANGED <<file, stage, waits, triggers, online, blank, waitfifo, response, tid,
                     confirmed, locker>>,
         strayed \subseteq strayed', strayed' \subseteq Strays
  PROVE  /\ Typed' /\ StepOf(s) /\ OwnedBy(s)'
         /\ strayed' = {} => /\ Queue' /\ Submissions' /\ CopiesOf(s)' /\ EventsOf(s)'
                             /\ ~waitfifo[s] => RequestsOf(s)' /\ Quiet(s)'
<1>0. Typed
  BY DEF Inv
<1>1. /\ mem' \in [Sessions -> [Jobs -> CopyType \cup {None}]]
      /\ newer' \subseteq Sessions \X Jobs /\ cur' \in [Sessions -> Jobs \cup {None}]
      /\ \A r \in Sessions \ {s} :
           /\ mem'[r] = mem[r] /\ cur'[r] = cur[r]
           /\ \A k \in Jobs : <<r, k>> \in newer => <<r, k>> \in newer'
  BY <1>0, CopyStepFacts
<1>2. \A t \in Tids : [cmd |-> "D", tid |-> t] \in RequestType /\ [cmd |-> "D", tid |-> t].cmd = "D"
  BY DEF RequestType
<1>3. fifo' \in Seq(RequestType)
  <2>1. fifo \in Seq(RequestType)
    BY <1>0 DEF Typed
  <2>2. ASSUME NEW t \in Tids, fifo' = Append(fifo, [cmd |-> "D", tid |-> t])
        PROVE  fifo' \in Seq(RequestType)
    BY <1>2, <2>1, <2>2, AppendFacts
  <2> QED  BY <2>1, <2>2
<1>4. Typed'
  BY <1>0, <1>1, <1>3 DEF Typed
<1>5. StepOf(s)
  <2>1. \/ fifo' = fifo
        \/ \E m \in RequestType :
             fifo' = Append(fifo, m) /\ (m.cmd # "D" => m.from = s /\ file[m.job].owner = s)
    BY <1>2
  <2> QED  BY <1>1, <2>1 DEF StepOf
<1>6. OwnedBy(s)'
  BY LookOwned
<1>7. ASSUME strayed' = {}
      PROVE  /\ Queue' /\ Submissions' /\ CopiesOf(s)' /\ EventsOf(s)'
             /\ ~waitfifo[s] => RequestsOf(s)' /\ Quiet(s)'
  <2>0. strayed = {}
    BY <1>7
  <2>1. Queue /\ Submissions /\ RequestsOf(s) /\ CopiesOf(s) /\ EventsOf(s)
    BY <2>0 DEF Inv, Sound
  <2>2. Queue' /\ Submissions'
    BY <2>1, FilesAlone
  <2>3. CopiesOf(s)'
    BY <1>0, <2>0, <2>1, LookCopies
  <2>4. EventsOf(s)'
    BY <1>0, <2>1, EventsAlone
  <2>5. ~waitfifo[s] => RequestsOf(s)' /\ Quiet(s)'
    BY <1>0, <2>1, StaysQuiet DEF Shorter
  <2> QED  BY <2>2, <2>3, <2>4, <2>5
<1> QED  BY <1>4, <1>5, <1>6, <1>7

\* Cancelling a trigger.
LEMMA CancelTriggerIs ==
  ASSUME Typed, NEW s \in Sessions, CancelTrigger(s)
  PROVE  /\ \E t \in Tids : fifo' = Append(fifo, [cmd |-> "D", tid |-> t])
         /\ spec' \in [Sessions -> Jobs \cup {None}] /\ spec'[s] = None
         /\ \A r \in Sessions \ {s} : spec'[r] = spec[r]
<1>1. tid[s] \in Tids /\ spec \in [Sessions -> Jobs \cup {None}]
  BY DEF Typed
<1> QED  BY <1>1 DEF CancelTrigger

\* JWAIT looks at the job and sleeps, or ends.
LEMMA WatchStep ==
  ASSUME Inv, NEW s \in Sessions, Watch(s)
  PROVE  Kept(s)
<1>1. Top(s).at = "watch"
  BY DEF Watch
<1>2. /\ Typed /\ Own(s) /\ s \in online /\ Top(s) \in FrameType
      /\ Top(s).job \in Jobs /\ file[Top(s).job].owner = s /\ AtEase(s)
      /\ Top(s) # NoFrame /\ DOMAIN task[s] = {1} /\ task[s][1] = Top(s)
      /\ strayed = {} => Queue /\ Sound(s) /\ RequestsOf(s) /\ CopiesOf(s)
  BY <1>1, AtWork, BusyTop
<1>3. PICK j \in Jobs : j = Top(s).job
  BY <1>2
<1>4. PICK l : l = Looked(s, j)
  OBVIOUS
<1>5. l.job \in CopyType \cup {None} /\ l.newer \in BOOLEAN
  BY <1>2, <1>4, LookedFacts
<1>6. PICK now \in Jobs \cup {None} :
        /\ now \in {None, j, cur[s]} /\ CopyStep(s, j, l.job, now)
        /\ <<s, j>> \notin newer' => ~l.newer
  <2>1. Find(s, j)
    BY <1>3 DEF Watch
  <2> QED  BY <1>2, <1>4, <2>1, FindIs
<1>7. l.job # None /\ strayed = {} =>
        GoodCopy(j, l.job) /\ (<<s, j>> \notin newer' => Current(j, l.job))
  BY <1>2, <1>4, <1>6, LookedIsGood
<1>8. UNCHANGED <<file, stage, waits, triggers, online, blank, waitfifo, response, tid,
                  confirmed, strayed, locker, inbox>>
  BY DEF Watch, faxqVars
<1>9. /\ inbox' \in [Sessions -> Seq(MessageType)] /\ Shorter(s)
      /\ strayed \subseteq strayed' /\ strayed' \subseteq Strays
      /\ AtEase(s)' /\ (strayed' = {} => ~waitfifo[s])
  BY <1>2, <1>8 DEF Typed, Shorter, AtEase
<1>10. CASE CancelTrigger(s) /\ Pop(s)
  <2>1. /\ task' \in [Sessions -> Seq(FrameType)] /\ task'[s] = <<>>
        /\ \A r \in Sessions \ {s} : task'[r] = task[r]
    BY <1>1, <1>2, <1>10, PopFacts
  <2>2. \A i \in DOMAIN task'[s] : file[task'[s][i].job].owner = s
    <3>1. DOMAIN task'[s] = {}
      BY <2>1
    <3> QED  BY <3>1
  <2>3. /\ Typed' /\ StepOf(s) /\ OwnedBy(s)'
        /\ strayed' = {} => /\ Queue' /\ Submissions' /\ CopiesOf(s)' /\ EventsOf(s)'
                            /\ ~waitfifo[s] => RequestsOf(s)' /\ Quiet(s)'
    <3>1. /\ \E t \in Tids : fifo' = Append(fifo, [cmd |-> "D", tid |-> t])
          /\ spec' \in [Sessions -> Jobs \cup {None}] /\ spec'[s] \in {None, spec[s]}
          /\ \A r \in Sessions \ {s} : spec'[r] = spec[r]
      BY <1>2, <1>10, CancelTriggerIs
    <3> QED  BY <1>2, <1>3, <1>5, <1>6, <1>7, <1>8, <1>9, <2>1, <2>2, <3>1, LookOnly
  <2> QED  BY <1>2, <1>8, <1>9, <2>1, <2>3, Idle DEF Kept, Sound
<1>11. CASE GoTo(s, "sleep") /\ UNCHANGED <<fifo, spec>>
  <2>1. PICK f \in FrameType :
          /\ f = [Top(s) EXCEPT !.at = "sleep"]
          /\ task' \in [Sessions -> Seq(FrameType)] /\ Len(task'[s]) = 1 /\ task'[s][1] = f
          /\ \A r \in Sessions \ {s} : task'[r] = task[r]
    BY <1>1, <1>2, <1>11, GoToFacts
  <2>2. f.at = "sleep" /\ f.op = "JWAIT" /\ f.job = Top(s).job
    <3>1. f.at = "sleep" /\ f.op = Top(s).op /\ f.job = Top(s).job
      BY <1>2, <2>1 DEF FrameType
    <3>2. Top(s).op = "JWAIT"
      BY <1>1, <1>2 DEF Own, FramesOf
    <3> QED  BY <3>1, <3>2
  <2>3. Top(s)' = f /\ DOMAIN task'[s] = {1}
    BY <2>1, Single, Zenon
  <2>4. \A i \in DOMAIN task'[s] : task'[s][i] = f
    BY <2>1, <2>3
  <2>5. \A i \in DOMAIN task'[s] : file[task'[s][i].job].owner = s
    BY <1>2, <2>2, <2>4
  <2>6. spec' \in [Sessions -> Jobs \cup {None}] /\ spec'[s] \in {None, spec[s]}
        /\ \A r \in Sessions \ {s} : spec'[r] = spec[r]
    BY <1>2, <1>11 DEF Typed
  <2>7. /\ Typed' /\ StepOf(s) /\ OwnedBy(s)'
        /\ strayed' = {} => /\ Queue' /\ Submissions' /\ CopiesOf(s)' /\ EventsOf(s)'
                            /\ ~waitfifo[s] => RequestsOf(s)' /\ Quiet(s)'
    BY <1>2, <1>3, <1>5, <1>6, <1>7, <1>8, <1>9, <1>11, <2>1, <2>5, <2>6, LookOnly
  <2>8. Own(s)'
    BY <1>2, <1>8, <1>9, <2>1, <2>2, <2>7, SingleOwn DEF AtEase
  <2>9. ASSUME strayed' = {} PROVE HandlingOf(s)' /\ BelievedBy(s)'
    <3>1. HandlingOf(s)'
      BY <2>2, <2>4 DEF HandlingOf, Handled
    <3>2. BelievedBy(s)'
      BY <1>9, <2>2, <2>3, <2>7, <2>9 DEF BelievedBy, Quiet, IsAnswer, Letters
    <3> QED  BY <3>1, <3>2
  <2> QED  BY <1>9, <2>7, <2>8, <2>9 DEF Kept, Sound
<1> QED  BY <1>3, <1>4, <1>10, <1>11 DEF Watch

-----------------------------------------------------------------------------
(* Messages and urgent data, served while a handler waits *)

\* A message is taken, and no copy of a job is touched.
LEMMA TakeOnly ==
  ASSUME Inv, NEW s \in Sessions, s \in online, Shorter(s),
         inbox' \in [Sessions -> Seq(MessageType)], \A r \in Sessions \ {s} : inbox'[r] = inbox[r],
         task' \in [Sessions -> Seq(FrameType)], \A r \in Sessions \ {s} : task'[r] = task[r],
         \A i \in DOMAIN task'[s] : file[task'[s][i].job].owner = s,
         fifo' \in Seq(RequestType),
         \/ fifo' = fifo
         \/ \E m \in RequestType :
              fifo' = Append(fifo, m) /\ (m.cmd # "D" => m.from = s /\ file[m.job].owner = s),
         waitfifo' \in [Sessions -> BOOLEAN], \A r \in Sessions \ {s} : waitfifo'[r] = waitfifo[r],
         response' \in [Sessions -> AnswerType \cup {None}],
         \A r \in Sessions \ {s} : response'[r] = response[r],
         strayed' \subseteq Strays, strayed \subseteq strayed',
         UNCHANGED <<file, stage, waits, triggers, online, mem, newer, cur, blank, spec, tid,
                     confirmed, locker>>
  PROVE  /\ Typed' /\ StepOf(s) /\ OwnedBy(s)'
         /\ strayed' = {} => /\ Queue' /\ Submissions' /\ CopiesOf(s)' /\ EventsOf(s)'
<1>0. Typed
  BY DEF Inv
<1>1. Typed'
  BY <1>0 DEF Typed
<1>2. StepOf(s)
  BY DEF StepOf
<1>3. OwnedBy(s)'
  <2>1. OwnedBy(s)
    BY DEF Inv, Own
  <2>2. \A i \in DOMAIN inbox'[s] : inbox'[s][i].cmd = "event" => file[inbox'[s][i].job].owner = s
    <3>1. \A i \in DOMAIN inbox'[s] : \E k \in DOMAIN inbox[s] : inbox'[s][i] = inbox[s][k]
      BY <1>0, ShorterFacts
    <3> QED  BY <2>1, <3>1 DEF OwnedBy
  <2> QED  BY <2>1, <2>2 DEF OwnedBy
<1>4. ASSUME strayed' = {} PROVE Queue' /\ Submissions' /\ CopiesOf(s)' /\ EventsOf(s)'
  <2>0. strayed = {}
    BY <1>4
  <2>1. Queue /\ Submissions /\ CopiesOf(s) /\ EventsOf(s)
    BY <2>0 DEF Inv, Sound
  <2>2. Queue' /\ Submissions'
    BY <2>1, FilesAlone
  <2>3. CopiesOf(s)'
    BY <2>1 DEF CopiesOf, GoodCopy, Current
  <2>4. EventsOf(s)'
    BY <1>0, <2>1, EventsAlone
  <2> QED  BY <2>2, <2>3, <2>4
<1> QED  BY <1>1, <1>2, <1>3, <1>4

\* The handlers below are woken; none of them is about to act.
LEMMA AwakeHandlers ==
  ASSUME Inv, NEW s \in Sessions, InDispatch(s), NEW q, q = Awake(task[s])
  PROVE  /\ task[s] \in Seq(FrameType) /\ q \in Seq(FrameType) /\ Len(q) = Len(task[s])
         /\ DOMAIN q = DOMAIN task[s] /\ DOMAIN task[s] = 1..Len(task[s]) /\ Len(task[s]) \in Nat
         /\ \A i \in DOMAIN task[s] :
              /\ q[i].op = task[s][i].op /\ q[i].job = task[s][i].job
              /\ q[i].at = IF task[s][i].at = "sleep" THEN "watch" ELSE task[s][i].at
              /\ q[i].at # "checked" /\ q[i].job \in Jobs /\ file[q[i].job].owner = s
              /\ i > 1 => q[i].op = "HELLO"
              /\ q[i].op = "HELLO" => q[i].at = "asked"
              /\ q[i].at \in {"sleep", "watch"} => q[i].op = "JWAIT"
<1>1. task[s] \in Seq(FrameType) /\ FramesOf(s) /\ OwnedBy(s)
  BY DEF Inv, Typed, Own
<1>2. /\ q \in Seq(FrameType) /\ Len(q) = Len(task[s]) /\ Len(task[s]) \in Nat
      /\ DOMAIN q = 1..Len(task[s]) /\ DOMAIN task[s] = 1..Len(task[s])
      /\ \A i \in 1..Len(task[s]) :
           /\ q[i].op = task[s][i].op /\ q[i].job = task[s][i].job
           /\ q[i].at = IF task[s][i].at = "sleep" THEN "watch" ELSE task[s][i].at
  BY <1>1, AwakeFacts
<1>3. ASSUME NEW i \in DOMAIN task[s], task[s][i].at = "checked" PROVE FALSE
  <2>1. Len(task[s]) = 1 /\ i = 1
    BY <1>1, <1>2, <1>3 DEF FramesOf
  <2>2. task[s] # <<>>
    BY <1>1, <2>1, EmptySeq
  <2>3. Top(s) = task[s][i]
    BY <1>1, <2>1, <2>2, TopIs
  <2> QED  BY <1>3, <2>3 DEF InDispatch
<1>4. \A i \in DOMAIN task[s] : task[s][i].job \in Jobs /\ file[task[s][i].job].owner = s
  BY <1>1, ElementTypes DEF Inv, OwnedBy
<1>5. ASSUME NEW i \in DOMAIN task[s]
      PROVE  /\ q[i].at # "checked" /\ q[i].job \in Jobs /\ file[q[i].job].owner = s
             /\ i > 1 => q[i].op = "HELLO"
             /\ q[i].op = "HELLO" => q[i].at = "asked"
             /\ q[i].at \in {"sleep", "watch"} => q[i].op = "JWAIT"
  <2>1. /\ i > 1 => task[s][i].op = "HELLO"
        /\ task[s][i].op = "HELLO" => task[s][i].at = "asked"
        /\ task[s][i].at \in {"sleep", "watch"} => task[s][i].op = "JWAIT"
    BY <1>1 DEF FramesOf
  <2>2. task[s][i].at # "checked"
    BY <1>3
  <2> QED  BY <1>2, <1>4, <2>1, <2>2
<1> QED  BY <1>1, <1>2, <1>5

\* The innermost of them stays the innermost.
LEMMA AwakeTop ==
  ASSUME Inv, NEW s \in Sessions, InDispatch(s), task'[s] = Awake(task[s])
  PROVE  /\ Top(s)'.op = Top(s).op /\ Top(s)'.job = Top(s).job
         /\ Top(s)'.at = IF Top(s).at = "sleep" THEN "watch" ELSE Top(s).at
         /\ task'[s] = <<>> <=> task[s] = <<>>
<1>1. /\ task[s] \in Seq(FrameType) /\ task'[s] \in Seq(FrameType) /\ Len(task'[s]) = Len(task[s])
      /\ DOMAIN task'[s] = DOMAIN task[s] /\ DOMAIN task[s] = 1..Len(task[s]) /\ Len(task[s]) \in Nat
      /\ \A i \in DOMAIN task[s] :
           /\ task'[s][i].op = task[s][i].op /\ task'[s][i].job = task[s][i].job
           /\ task'[s][i].at = IF task[s][i].at = "sleep" THEN "watch" ELSE task[s][i].at
  BY AwakeHandlers
<1>2. task'[s] = <<>> <=> task[s] = <<>>
  BY <1>1, EmptySeq
<1>3. CASE task[s] = <<>>
  <2>1. Top(s) = NoFrame /\ Top(s)' = NoFrame
    BY <1>1, <1>2, <1>3, TopIs, TopIsNow
  <2> QED  BY <1>2, <2>1 DEF NoFrame
<1>4. CASE task[s] # <<>>
  <2>1. /\ Top(s) = task[s][Len(task[s])] /\ Top(s)' = task'[s][Len(task[s])]
        /\ Len(task[s]) \in DOMAIN task[s]
    BY <1>1, <1>2, <1>4, TopIs, TopIsNow
  <2> QED  BY <1>1, <1>2, <2>1
<1> QED  BY <1>3, <1>4

\* A session whose handlers were only woken keeps its order.
LEMMA AwakeOwn ==
  ASSUME Inv, NEW s \in Sessions, InDispatch(s), s \in online, task'[s] = Awake(task[s]),
         StepOf(s), OwnedBy(s)', UNCHANGED <<file, online>>, waitfifo'[s] => waitfifo[s],
         Top(s).at = "asked" => waitfifo'[s] \/ response'[s] \in AnswerType,
         \A i \in DOMAIN task[s] : task[s][i].op = "JSUBM" /\ task[s][i].at = "asked" =>
           mem'[s][task[s][i].job] \in CopyType
  PROVE  Own(s)'
<1>1. /\ DOMAIN task'[s] = DOMAIN task[s] /\ Len(task'[s]) = Len(task[s])
      /\ \A i \in DOMAIN task[s] :
           /\ task'[s][i].op = task[s][i].op /\ task'[s][i].job = task[s][i].job
           /\ task'[s][i].at = IF task[s][i].at = "sleep" THEN "watch" ELSE task[s][i].at
           /\ task'[s][i].at # "checked"
           /\ i > 1 => task'[s][i].op = "HELLO"
           /\ task'[s][i].op = "HELLO" => task'[s][i].at = "asked"
           /\ task'[s][i].at \in {"sleep", "watch"} => task'[s][i].op = "JWAIT"
  BY AwakeHandlers
<1>2. /\ Top(s)'.at = IF Top(s).at = "sleep" THEN "watch" ELSE Top(s).at
      /\ task'[s] = <<>> <=> task[s] = <<>>
  BY AwakeTop
<1>3. FramesOf(s) /\ SubmittedBy(s)
  BY DEF Inv, Own
<1>4. FramesOf(s)'
  <2>1. strayed' = {} /\ waitfifo'[s] => task'[s] # <<>> /\ Top(s)'.at = "asked"
    BY <1>2, <1>3 DEF FramesOf, StepOf
  <2>2. Top(s)'.at = "asked" => waitfifo'[s] \/ response'[s] \in AnswerType
    BY <1>2
  <2> QED  BY <1>1, <2>1, <2>2 DEF FramesOf
<1>5. SubmittedBy(s)'
  BY <1>1, <1>3 DEF SubmittedBy
<1> QED  BY <1>4, <1>5 DEF Own

\* Waking a session does not change what its handlers are about.
LEMMA AwakeHandling ==
  ASSUME Inv, strayed = {}, NEW s \in Sessions, InDispatch(s), task'[s] = Awake(task[s]), file' = file,
         \A i \in DOMAIN task[s] : task[s][i].op = "JSUBM" /\ task[s][i].at = "asked" =>
           mem'[s][task[s][i].job].rev = file[task[s][i].job].rev
  PROVE  HandlingOf(s)'
<1>1. /\ DOMAIN task'[s] = DOMAIN task[s]
      /\ \A i \in DOMAIN task[s] :
           /\ task'[s][i].op = task[s][i].op /\ task'[s][i].job = task[s][i].job
           /\ task'[s][i].at = IF task[s][i].at = "sleep" THEN "watch" ELSE task[s][i].at
           /\ task'[s][i].at # "checked"
  BY AwakeHandlers
<1>2. HandlingOf(s)
  BY DEF Inv, Sound
<1>3. ASSUME NEW i \in DOMAIN task[s], NEW f, f = task'[s][i], NEW j, j = task'[s][i].job,
             NEW copy, copy = mem'[s][j]
      PROVE  Handled(f, j, copy)'
  <2>1. f.at = "asked" => task[s][i].at = "asked"
    BY <1>1, <1>3
  <2>2. f.at = "asked" /\ f.op = "JDELE" => AtRest(j)
    BY <1>1, <1>2, <1>3, <2>1 DEF HandlingOf, Handled
  <2>3. f.at = "asked" /\ f.op = "JSUBM" => copy.rev = file[j].rev
    BY <1>1, <1>3, <2>1
  <2> QED  BY <1>1, <1>3, <2>2, <2>3 DEF Handled, AtRest
<1> QED  BY <1>1, <1>3 DEF HandlingOf

\* An event is taken: what is under way with faxq is not touched.
LEMMA EventTaken ==
  ASSUME Inv, strayed = {}, NEW s \in Sessions, s \in online, InDispatch(s), task'[s] = Awake(task[s]),
         inbox[s] # <<>>, inbox'[s] = Tail(inbox[s]), ~IsAnswer(Head(inbox[s])),
         UNCHANGED <<file, stage, waits, fifo, waitfifo, response>>
  PROVE  RequestsOf(s)' /\ BelievedBy(s)'
<1>1. RequestsOf(s) /\ BelievedBy(s) /\ inbox[s] \in Seq(MessageType)
  BY DEF Inv, Sound, Typed
<1>2. /\ Top(s)'.op = Top(s).op /\ Top(s)'.job = Top(s).job
      /\ Top(s)'.at = IF Top(s).at = "sleep" THEN "watch" ELSE Top(s).at
  BY AwakeTop
<1>3. /\ Head(inbox[s]) = inbox[s][1] /\ Len(inbox[s]) \in Nat \ {0}
      /\ DOMAIN inbox[s] = 1..Len(inbox[s]) /\ DOMAIN inbox'[s] = 1..(Len(inbox[s]) - 1)
      /\ \A i \in 1..(Len(inbox[s]) - 1) : inbox'[s][i] = inbox[s][i + 1]
  BY <1>1, TailFacts
<1>4. \A n \in Nat \ {0} : \A i \in 1..(n - 1) : i + 1 \in 1..n /\ i \in Int
  OBVIOUS
<1>5. \A i \in DOMAIN inbox'[s] :
        i + 1 \in DOMAIN inbox[s] /\ i \in Int /\ inbox'[s][i] = inbox[s][i + 1]
  BY <1>3, <1>4
<1>6. \A c, j : Requested(s, c, j) => Requested(s, c, j)'
  BY <1>2 DEF Requested
<1>7. RequestsOf(s)'
  <2>1. ASSUME NEW i \in DOMAIN fifo, By(fifo[i], s)
        PROVE  /\ Requested(s, fifo[i].cmd, fifo[i].job)'
               /\ \A k \in DOMAIN fifo : By(fifo[k], s) => k = i
               /\ \A k \in DOMAIN waits : waits[k].from # s
               /\ \A k \in DOMAIN inbox'[s] : ~IsAnswer(inbox'[s][k])
    BY <1>1, <1>5, <1>6, <2>1 DEF RequestsOf
  <2>2. ASSUME NEW i \in DOMAIN waits, waits[i].from = s
        PROVE  /\ Requested(s, waits[i].cmd, waits[i].job)'
               /\ \A k \in DOMAIN waits : waits[k].from = s => k = i
               /\ \A k \in DOMAIN inbox'[s] : ~IsAnswer(inbox'[s][k])
    BY <1>1, <1>5, <1>6, <2>2 DEF RequestsOf
  <2>3. ASSUME NEW i \in DOMAIN inbox'[s], IsAnswer(inbox'[s][i])
        PROVE  /\ waitfifo'[s] /\ inbox'[s][i].cmd = Letter(Top(s)'.op)
               /\ \A k \in DOMAIN inbox'[s] : IsAnswer(inbox'[s][k]) => k = i
    <3>1. i + 1 \in DOMAIN inbox[s] /\ inbox'[s][i] = inbox[s][i + 1] /\ i \in Int
      BY <1>5, <2>3
    <3>2. Requested(s, inbox[s][i + 1].cmd, Top(s).job)
      BY <1>1, <2>3, <3>1 DEF RequestsOf
    <3>3. waitfifo'[s] /\ inbox'[s][i].cmd = Letter(Top(s)'.op)
      BY <1>2, <3>1, <3>2 DEF Requested
    <3>4. ASSUME NEW k \in DOMAIN inbox'[s], IsAnswer(inbox'[s][k]) PROVE k = i
      <4>1. k + 1 \in DOMAIN inbox[s] /\ inbox'[s][k] = inbox[s][k + 1] /\ k \in Int
        BY <1>5, <3>4
      <4>2. k + 1 = i + 1
        BY <1>1, <2>3, <3>1, <3>4, <4>1 DEF RequestsOf
      <4> QED  BY <3>1, <4>1, <4>2
    <3> QED  BY <3>3, <3>4
  <2> QED  BY <2>1, <2>2, <2>3 DEF RequestsOf, Requested
<1>8. BelievedBy(s)'
  <2>1. \A j : Accepted(j) => Accepted(j)'
    BY DEF Accepted, Present
  <2>2. \A i \in DOMAIN inbox'[s] : inbox'[s][i].cmd = "S" /\ inbox'[s][i].ok => Accepted(Top(s).job)
    BY <1>1, <1>5 DEF BelievedBy
  <2>3. Top(s)'.at = "asked" /\ ~waitfifo'[s] =>
          /\ Top(s)'.op = "HELLO" => response'[s].cmd # "S"
          /\ Top(s)'.op = "JSUBM" /\ response'[s].cmd = "S" /\ response'[s].ok => Accepted(Top(s).job)
    BY <1>1, <1>2 DEF BelievedBy
  <2> QED  BY <1>2, <2>1, <2>2, <2>3 DEF BelievedBy
<1> QED  BY <1>7, <1>8

\* What a message says of itself.
LEMMA MessageKinds ==
  ASSUME NEW m \in MessageType
  PROVE  /\ m.cmd = "event" => m.job \in Jobs /\ m.state \in JobStates /\ ~IsAnswer(m)
         /\ m.cmd # "event" => m \in AnswerType
         /\ m.cmd # "event" /\ ~IsAnswer(m) => m.cmd = "H"
         /\ m.cmd = "H" => ~IsAnswer(m)
BY DEF MessageType, AnswerType, ReplyType, IsAnswer, Letters

TakesEvent(s, m, l) ==
  /\ m = Head(inbox[s]) /\ m.cmd = "event" /\ l = Looked(s, m.job)
  /\ task' = [task EXCEPT ![s] = Awake(@)]
  /\ Remember(s, m.job, IF l.job = None THEN None ELSE [l.job EXCEPT !.state = m.state],
              l.newer, l.kept)
  /\ UNCHANGED <<fifo, waitfifo, response, strayed>>

\* A session takes an event of a job,
LEMMA ReceiveEventStep ==
  ASSUME Inv, NEW s \in Sessions, Receive(s), NEW m, NEW l, TakesEvent(s, m, l)
  PROVE  Kept(s)
<1>0. /\ m = Head(inbox[s]) /\ m.cmd = "event" /\ l = Looked(s, m.job)
      /\ task' = [task EXCEPT ![s] = Awake(task[s])]
      /\ UNCHANGED <<fifo, waitfifo, response, strayed>>
  BY DEF TakesEvent
<1>1. /\ Typed /\ Own(s) /\ OwnedBy(s) /\ FramesOf(s) /\ SubmittedBy(s)
      /\ s \in online /\ inbox[s] # <<>> /\ InDispatch(s)
      /\ inbox' = [inbox EXCEPT ![s] = Tail(inbox[s])]
      /\ UNCHANGED <<file, locker, stage, waits, triggers, online, blank, spec, tid, confirmed>>
  BY DEF Inv, Own, Receive, faxqVars
<1>2. inbox \in [Sessions -> Seq(MessageType)] /\ task \in [Sessions -> Seq(FrameType)]
  BY <1>1 DEF Typed
<1>3. /\ Tail(inbox[s]) \in Seq(MessageType) /\ m = inbox[s][1] /\ m \in MessageType
      /\ 1 \in DOMAIN inbox[s]
  <2>1. inbox[s] \in Seq(MessageType)
    BY <1>2
  <2> QED  BY <1>0, <1>1, <2>1, TailFacts
<1>4. m.job \in Jobs /\ m.state \in JobStates /\ ~IsAnswer(m)
  BY <1>0, <1>3, MessageKinds
<1>5. PICK j \in Jobs : j = m.job
  BY <1>4
<1>6. file[j].owner = s
  BY <1>0, <1>1, <1>3, <1>5 DEF OwnedBy
<1>7. /\ l.job \in CopyType \cup {None}
      /\ \/ l.job = None /\ file[j].at \notin {"sendq", "doneq"}
         \/ l.job = Copy(file[j]) /\ file[j].at \in {"sendq", "doneq"}
         \/ /\ l.job = mem[s][j] /\ mem[s][j] # None /\ mem[s][j].at = file[j].at
            /\ file[j].at \in {"sendq", "doneq"}
  <2>1. l = Looked(s, j) /\ Typed
    BY <1>0, <1>1, <1>5
  <2>2. /\ l.job \in CopyType \cup {None}
        /\ \/ l.job = None /\ ~l.kept /\ file[j].at \notin {"sendq", "doneq"}
           \/ l.job = Copy(file[j]) /\ file[j].at \in {"sendq", "doneq"}
           \/ /\ l.job = mem[s][j] /\ mem[s][j] # None /\ mem[s][j].at = file[j].at
              /\ file[j].at \in {"sendq", "doneq"}
              /\ (l.newer <=> <<s, j>> \in newer)
              /\ (l.newer => Locked(j))
    BY <2>1, LookedFacts, ZenonT(60)
  <2> QED  BY <2>2, Zenon
<1>8. PICK job : job = IF l.job = None THEN None ELSE [l.job EXCEPT !.state = m.state]
  OBVIOUS
<1>9. /\ job \in CopyType \cup {None}
      /\ l.job = None => job = None
      /\ l.job \in CopyType => job \in CopyType /\ job.at = l.job.at /\ job.rev = l.job.rev
      /\ l.job # None => job.state = m.state
  <2>1. CASE l.job = None
    BY <1>8, <2>1
  <2>2. CASE l.job # None
    <3>1. l.job \in CopyType /\ job = [l.job EXCEPT !.state = m.state]
      BY <1>7, <1>8, <2>2
    <3>2. job \in CopyType /\ job.at = l.job.at /\ job.rev = l.job.rev /\ job.state = m.state
      BY <1>4, <3>1 DEF CopyType
    <3> QED  BY <2>2, <3>2
  <2> QED  BY <2>1, <2>2
<1>10. PICK now \in Jobs \cup {None} : now \in {None, j, cur[s]} /\ CopyStep(s, j, job, now)
  <2>1. PICK now : now = IF cur[s] = j /\ ~l.kept THEN None ELSE cur[s]
    OBVIOUS
  <2>2. now \in Jobs \cup {None} /\ now \in {None, j, cur[s]}
    BY <1>1, <2>1 DEF Typed
  <2>3. CopyStep(s, j, job, now)
    BY <1>5, <1>8, <2>1 DEF TakesEvent, Remember, CopyStep
  <2> QED  BY <2>2, <2>3
<1>11. ASSUME job # None, strayed = {} PROVE GoodCopy(j, job) /\ Current(j, job)
  <2>1. l.job \in CopyType /\ job.at = l.job.at /\ job.rev = l.job.rev /\ job.state = m.state
    BY <1>7, <1>9, <1>11
  <2>2. Queue /\ CopiesOf(s) /\ EventsOf(s)
    BY <1>1, <1>11 DEF Inv, Sound
  <2>3. file[j].at = "gone" \/ (file[j].at = "doneq" /\ m.state \in Ended)
    BY <1>0, <1>3, <1>5, <2>2 DEF EventsOf
  <2>4. file[j].at \in {"sendq", "doneq"} /\ l.job.at = file[j].at
    <3>1. l.job # None
      BY <1>9, <1>11
    <3> QED  BY <1>1, <1>7, <3>1, FileFacts
  <2>5. l.job.rev >= file[j].rev
    <3>1. l.job # None
      BY <1>9, <1>11
    <3>2. GoodCopy(j, l.job)
      BY <1>0, <1>1, <1>5, <2>2, <3>1, LookedIsGood
    <3> QED  BY <3>2 DEF GoodCopy
  <2> QED  BY <2>1, <2>3, <2>4, <2>5 DEF GoodCopy, Current
<1>12. /\ task' \in [Sessions -> Seq(FrameType)] /\ task'[s] = Awake(task[s])
       /\ \A r \in Sessions \ {s} : task'[r] = task[r]
       /\ \A i \in DOMAIN task'[s] : file[task'[s][i].job].owner = s
  BY <1>0, <1>1, <1>2, AwakeHandlers
<1>13. /\ inbox' \in [Sessions -> Seq(MessageType)] /\ \A r \in Sessions \ {s} : inbox'[r] = inbox[r]
       /\ inbox'[s] = Tail(inbox[s]) /\ Shorter(s)
  BY <1>1, <1>2, <1>3 DEF Shorter
<1>14. /\ Typed' /\ StepOf(s) /\ OwnedBy(s)'
       /\ strayed' = {} => Queue' /\ Submissions' /\ CopiesOf(s)' /\ EventsOf(s)'
  <2>1. spec' \in [Sessions -> Jobs \cup {None}] /\ spec'[s] \in {None, spec[s]}
        /\ \A r \in Sessions \ {s} : spec'[r] = spec[r]
    BY <1>1 DEF Typed
  <2>2. job # None /\ strayed = {} =>
          GoodCopy(j, job) /\ (<<s, j>> \notin newer' => Current(j, job))
    BY <1>11
  <2>3. s \in online /\ fifo' = fifo /\ job \in CopyType \cup {None}
    BY <1>0, <1>1, <1>9
  <2>4. UNCHANGED <<file, stage, waits, triggers, online, blank, waitfifo, response, tid,
                    confirmed, locker>>
    BY <1>0, <1>1
  <2>5. strayed \subseteq strayed' /\ strayed' \subseteq Strays
    BY <1>0, <1>1 DEF Typed
  <2> QED  BY <1>6, <1>10, <1>12, <1>13, <2>1, <2>2, <2>3, <2>4, <2>5, LookOnly
<1>15. ASSUME NEW i \in DOMAIN task[s], task[s][i].op = "JSUBM", task[s][i].at = "asked"
       PROVE  /\ mem'[s][task[s][i].job] \in CopyType
              /\ strayed = {} => mem'[s][task[s][i].job].rev = file[task[s][i].job].rev
  <2>1. PICK k \in Jobs : k = task[s][i].job
    BY <1>1, ElementTypes
  <2>2. mem[s][k] \in CopyType /\ file[k].at \in {"sendq", "doneq"}
    BY <1>1, <1>15, <2>1 DEF SubmittedBy
  <2>3. strayed = {} => mem[s][k].rev = file[k].rev
    BY <1>15, <2>1 DEF Inv, Sound, HandlingOf, Handled
  <2>4. /\ mem'[s][j] = job /\ \A n \in Jobs \ {j} : mem'[s][n] = mem[s][n]
    BY <1>1, <1>9, <1>10, CopyStepFacts
  <2>5. CASE k # j
    BY <2>1, <2>2, <2>3, <2>4, <2>5
  <2>6. CASE k = j
    <3>1. l.job = Copy(file[j]) \/ l.job = mem[s][j]
      BY <1>7, <2>2, <2>6
    <3>2. l.job \in CopyType /\ (strayed = {} => l.job.rev = file[j].rev)
      BY <1>1, <2>2, <2>3, <2>6, <3>1, FileFacts
    <3> QED  BY <1>9, <2>1, <2>4, <2>6, <3>2
  <2> QED  BY <2>5, <2>6
<1>16. Own(s)'
  <2>1. Top(s).at = "asked" => waitfifo'[s] \/ response'[s] \in AnswerType
    BY <1>0, <1>1 DEF FramesOf
  <2> QED  BY <1>0, <1>1, <1>12, <1>14, <1>15, <2>1, AwakeOwn
<1>17. ASSUME strayed' = {} PROVE Sound(s)'
  <2>1. HandlingOf(s)'
    BY <1>0, <1>1, <1>12, <1>15, <1>17, AwakeHandling
  <2>2. RequestsOf(s)' /\ BelievedBy(s)'
    BY <1>0, <1>1, <1>4, <1>12, <1>13, <1>17, EventTaken
  <2> QED  BY <1>14, <1>17, <2>1, <2>2 DEF Sound
<1>18. StepOf(s) /\ Typed' /\ (strayed' = {} => Queue' /\ Submissions')
  BY <1>14
<1> QED  BY <1>16, <1>17, <1>18, Zenon DEF Kept

\* or the answer it waits for,
LEMMA ReceiveAnswerStep ==
  ASSUME Inv, NEW s \in Sessions, Receive(s), NEW m, m = Head(inbox[s]), m.cmd # "event",
         waitfifo[s], task' = [task EXCEPT ![s] = Awake(@)],
         response' = [response EXCEPT ![s] = m], waitfifo' = [waitfifo EXCEPT ![s] = FALSE],
         Stray("calledOff", m.cmd = "H"), UNCHANGED <<fifo, copyVars>>
  PROVE  Kept(s)
<1>1. /\ Typed /\ Own(s) /\ OwnedBy(s) /\ FramesOf(s) /\ SubmittedBy(s)
      /\ s \in online /\ inbox[s] # <<>> /\ InDispatch(s)
      /\ inbox' = [inbox EXCEPT ![s] = Tail(inbox[s])]
      /\ UNCHANGED <<file, locker, stage, waits, triggers, online, blank, spec, tid, confirmed,
                     mem, newer, cur>>
  BY DEF Inv, Own, Receive, faxqVars, copyVars
<1>2. inbox \in [Sessions -> Seq(MessageType)] /\ task \in [Sessions -> Seq(FrameType)]
  BY <1>1 DEF Typed
<1>3. /\ Tail(inbox[s]) \in Seq(MessageType) /\ m = inbox[s][1] /\ m \in MessageType
      /\ 1 \in DOMAIN inbox[s] /\ Len(inbox[s]) \in Nat \ {0}
      /\ DOMAIN inbox[s] = 1..Len(inbox[s]) /\ DOMAIN Tail(inbox[s]) = 1..(Len(inbox[s]) - 1)
      /\ \A i \in 1..(Len(inbox[s]) - 1) : Tail(inbox[s])[i] = inbox[s][i + 1]
  <2>1. inbox[s] \in Seq(MessageType)
    BY <1>2
  <2> QED  BY <1>1, <2>1, TailFacts
<1>4. m \in AnswerType
  BY <1>3, MessageKinds
<1>5. /\ response' \in [Sessions -> AnswerType \cup {None}] /\ response'[s] = m
      /\ \A r \in Sessions \ {s} : response'[r] = response[r]
      /\ waitfifo' \in [Sessions -> BOOLEAN] /\ ~waitfifo'[s]
      /\ \A r \in Sessions \ {s} : waitfifo'[r] = waitfifo[r]
  BY <1>1, <1>4 DEF Typed
<1>6. strayed' \subseteq Strays /\ (strayed \subseteq strayed') /\ (m.cmd = "H" => strayed' # {})
  BY <1>1 DEF Typed, Stray, Strays
<1>7. /\ task' \in [Sessions -> Seq(FrameType)] /\ task'[s] = Awake(task[s])
      /\ \A r \in Sessions \ {s} : task'[r] = task[r]
      /\ \A i \in DOMAIN task'[s] : file[task'[s][i].job].owner = s
  <2>1. task' = [task EXCEPT ![s] = Awake(task[s])]
    OBVIOUS
  <2>2. PICK q : q = Awake(task[s])
    OBVIOUS
  <2>3. /\ q \in Seq(FrameType) /\ DOMAIN q = DOMAIN task[s]
        /\ \A i \in DOMAIN task[s] : file[q[i].job].owner = s
    BY <1>1, <2>2, AwakeHandlers
  <2>4. /\ task' \in [Sessions -> Seq(FrameType)] /\ task'[s] = q
        /\ \A r \in Sessions \ {s} : task'[r] = task[r]
    BY <1>2, <2>1, <2>2, <2>3
  <2> QED  BY <2>2, <2>3, <2>4
<1>8. /\ inbox' \in [Sessions -> Seq(MessageType)] /\ \A r \in Sessions \ {s} : inbox'[r] = inbox[r]
      /\ inbox'[s] = Tail(inbox[s]) /\ Shorter(s)
  <2>1. PICK q : q = Tail(inbox[s])
    OBVIOUS
  <2>2. q \in Seq(MessageType) /\ inbox' = [inbox EXCEPT ![s] = q]
    BY <1>1, <1>3, <2>1
  <2>3. /\ inbox' \in [Sessions -> Seq(MessageType)] /\ inbox'[s] = q
        /\ \A r \in Sessions \ {s} : inbox'[r] = inbox[r]
    BY <1>2, <2>2
  <2> QED  BY <1>1, <2>1, <2>3, Zenon DEF Shorter
<1>9. /\ Typed' /\ StepOf(s) /\ OwnedBy(s)'
      /\ strayed' = {} => Queue' /\ Submissions' /\ CopiesOf(s)' /\ EventsOf(s)'
  <2>1. fifo' \in Seq(RequestType) /\ fifo' = fifo
    BY <1>1 DEF Typed
  <2> QED  BY <1>1, <1>5, <1>6, <1>7, <1>8, <2>1, TakeOnly
<1>10. response'[s] \in AnswerType
  BY <1>4, <1>5
<1>11. Own(s)'
  <2>1. \A i \in DOMAIN task[s] : task[s][i].op = "JSUBM" /\ task[s][i].at = "asked" =>
           mem'[s][task[s][i].job] \in CopyType
    BY <1>1 DEF SubmittedBy
  <2> QED  BY <1>1, <1>5, <1>7, <1>9, <1>10, <2>1, AwakeOwn
<1>12. ASSUME strayed' = {} PROVE Sound(s)'
  <2>1. /\ strayed = {} /\ RequestsOf(s) /\ BelievedBy(s) /\ m.cmd # "H"
        /\ Top(s).at = "asked"
    BY <1>1, <1>6, <1>12 DEF Inv, Sound, FramesOf
  <2>2. HandlingOf(s)'
    <3>1. \A i \in DOMAIN task[s] : task[s][i].op = "JSUBM" /\ task[s][i].at = "asked" =>
             mem'[s][task[s][i].job].rev = file[task[s][i].job].rev
      BY <1>1, <2>1 DEF Inv, Sound, HandlingOf, Handled
    <3> QED  BY <1>1, <1>7, <2>1, <3>1, AwakeHandling
  <2>3. Top(s)'.op = Top(s).op /\ Top(s)'.job = Top(s).job
    BY <1>1, <1>7, AwakeTop
  <2>4. IsAnswer(m)
    BY <1>3, <2>1, MessageKinds
  <2>5. m.cmd = Letter(Top(s).op)
    BY <1>3, <2>1, <2>4 DEF RequestsOf, Requested
  <2>6. \A k \in DOMAIN inbox[s] : IsAnswer(inbox[s][k]) => k = 1
    BY <1>3, <2>1, <2>4 DEF RequestsOf
  <2>7. /\ \A i \in DOMAIN fifo : ~By(fifo[i], s)
        /\ \A i \in DOMAIN waits : waits[i].from # s
    BY <1>3, <2>1, <2>4 DEF RequestsOf
  <2>8. ASSUME NEW i \in DOMAIN inbox'[s] PROVE ~IsAnswer(inbox'[s][i])
    <3>1. i + 1 \in DOMAIN inbox[s] /\ inbox'[s][i] = inbox[s][i + 1] /\ i + 1 # 1
      BY <1>3, <1>8, <2>8
    <3> QED  BY <2>6, <3>1
  <2>9. RequestsOf(s)'
    <3>1. fifo' = fifo /\ waits' = waits
      BY <1>1
    <3> QED  BY <2>7, <2>8, <3>1 DEF RequestsOf
  <2>10. BelievedBy(s)'
    <3>1. \A j : Accepted(j) => Accepted(j)'
      BY <1>1 DEF Accepted, Present
    <3>2. \A i \in DOMAIN inbox'[s] : inbox'[s][i].cmd # "S"
      BY <2>8 DEF IsAnswer, Letters
    <3>3. Top(s)'.op = "HELLO" => response'[s].cmd # "S"
      BY <1>5, <2>3, <2>5 DEF Letter
    <3>4. m.cmd = "S" /\ m.ok => Accepted(Top(s).job)
      BY <1>3, <2>1 DEF BelievedBy
    <3> QED  BY <1>5, <2>3, <3>1, <3>2, <3>3, <3>4 DEF BelievedBy
  <2> QED  BY <1>9, <1>12, <2>2, <2>9, <2>10 DEF Sound
<1> QED  BY <1>6, <1>9, <1>11, <1>12 DEF Kept

\* A message that nobody waits for only wakes the handlers.
LEMMA ReceiveStrayStep ==
  ASSUME Inv, NEW s \in Sessions, Receive(s), ~waitfifo[s],
         task' = [task EXCEPT ![s] = Awake(@)],
         UNCHANGED <<fifo, waitfifo, response, copyVars, strayed>>
  PROVE  Kept(s)
<1>1. /\ Typed /\ Own(s) /\ OwnedBy(s) /\ FramesOf(s) /\ SubmittedBy(s)
      /\ s \in online /\ inbox[s] # <<>> /\ InDispatch(s)
      /\ inbox' = [inbox EXCEPT ![s] = Tail(inbox[s])]
      /\ UNCHANGED <<file, locker, stage, waits, triggers, online, blank, spec, tid, confirmed,
                     mem, newer, cur>>
  BY DEF Inv, Own, Receive, faxqVars, copyVars
<1>2. inbox \in [Sessions -> Seq(MessageType)] /\ task \in [Sessions -> Seq(FrameType)]
  BY <1>1 DEF Typed
<1>3. Tail(inbox[s]) \in Seq(MessageType)
  <2>1. inbox[s] \in Seq(MessageType)
    BY <1>2
  <2> QED  BY <1>1, <2>1, TailFacts
<1>4. /\ task' \in [Sessions -> Seq(FrameType)] /\ task'[s] = Awake(task[s])
      /\ \A r \in Sessions \ {s} : task'[r] = task[r]
      /\ \A i \in DOMAIN task'[s] : file[task'[s][i].job].owner = s
  BY <1>1, <1>2, AwakeHandlers
<1>5. /\ inbox' \in [Sessions -> Seq(MessageType)] /\ \A r \in Sessions \ {s} : inbox'[r] = inbox[r]
      /\ inbox'[s] = Tail(inbox[s]) /\ Shorter(s)
  BY <1>1, <1>2, <1>3 DEF Shorter
<1>6. /\ Typed' /\ StepOf(s) /\ OwnedBy(s)'
      /\ strayed' = {} => Queue' /\ Submissions' /\ CopiesOf(s)' /\ EventsOf(s)'
  <2>1. /\ fifo' \in Seq(RequestType) /\ fifo' = fifo
        /\ waitfifo' \in [Sessions -> BOOLEAN] /\ response' \in [Sessions -> AnswerType \cup {None}]
        /\ strayed' \subseteq Strays
    BY <1>1 DEF Typed
  <2> QED  BY <1>1, <1>4, <1>5, <2>1, TakeOnly
<1>7. Own(s)'
  <2>1. \A i \in DOMAIN task[s] : task[s][i].op = "JSUBM" /\ task[s][i].at = "asked" =>
           mem'[s][task[s][i].job] \in CopyType
    BY <1>1 DEF SubmittedBy
  <2>2. Top(s).at = "asked" => response'[s] \in AnswerType
    BY <1>1 DEF FramesOf
  <2> QED  BY <1>1, <1>4, <1>6, <2>1, <2>2, AwakeOwn
<1>8. ASSUME strayed' = {} PROVE Sound(s)'
  <2>1. strayed = {} /\ RequestsOf(s) /\ BelievedBy(s)
    BY <1>1, <1>8 DEF Inv, Sound
  <2>2. HandlingOf(s)'
    <3>1. \A i \in DOMAIN task[s] : task[s][i].op = "JSUBM" /\ task[s][i].at = "asked" =>
             mem'[s][task[s][i].job].rev = file[task[s][i].job].rev
      BY <1>1, <2>1 DEF Inv, Sound, HandlingOf, Handled
    <3> QED  BY <1>1, <1>4, <2>1, <3>1, AwakeHandling
  <2>3. Quiet(s)' /\ RequestsOf(s)'
    BY <1>1, <1>5, <2>1, StaysQuiet DEF Shorter
  <2>4. BelievedBy(s)'
    <3>1. \A j : Accepted(j) => Accepted(j)'
      BY <1>1 DEF Accepted, Present
    <3>2. /\ Top(s)'.op = Top(s).op /\ Top(s)'.job = Top(s).job
          /\ Top(s)'.at = "asked" => Top(s).at = "asked"
      BY <1>1, <1>4, AwakeTop
    <3>3. \A i \in DOMAIN inbox'[s] : inbox'[s][i].cmd # "S"
      BY <2>3 DEF Quiet, IsAnswer, Letters
    <3> QED  BY <2>1, <3>1, <3>2, <3>3 DEF BelievedBy
  <2> QED  BY <1>6, <1>8, <2>2, <2>3, <2>4 DEF Sound
<1> QED  BY <1>6, <1>7, <1>8 DEF Kept

\* A restarted faxq is told again of the job the client waits for.
LEMMA ReceiveHelloStep ==
  ASSUME Inv, NEW s \in Sessions, Receive(s), ~waitfifo[s], spec[s] # None,
         Push(s, "HELLO", spec[s], "asked"), Ask(s, "HELLO", spec[s]),
         UNCHANGED <<response, copyVars, strayed>>
  PROVE  Kept(s)
<1>1. /\ Typed /\ Own(s) /\ OwnedBy(s) /\ FramesOf(s) /\ SubmittedBy(s)
      /\ s \in online /\ inbox[s] # <<>> /\ InDispatch(s)
      /\ inbox' = [inbox EXCEPT ![s] = Tail(inbox[s])]
      /\ UNCHANGED <<file, locker, stage, waits, triggers, online, blank, spec, tid, confirmed,
                     mem, newer, cur>>
  BY DEF Inv, Own, Receive, faxqVars, copyVars
<1>2. inbox \in [Sessions -> Seq(MessageType)] /\ task \in [Sessions -> Seq(FrameType)]
  BY <1>1 DEF Typed
<1>3. Tail(inbox[s]) \in Seq(MessageType)
  <2>1. inbox[s] \in Seq(MessageType)
    BY <1>2
  <2> QED  BY <1>1, <2>1, TailFacts
<1>4. PICK j \in Jobs : j = spec[s] /\ file[j].owner = s
  <2>1. spec[s] \in Jobs
    BY <1>1 DEF Typed
  <2> QED  BY <1>1, <2>1 DEF OwnedBy
<1>5. PICK f \in FrameType : f = [op |-> "HELLO", job |-> j, at |-> "asked"]
  BY DEF FrameType, Ops
<1>6. PICK q : q = Awake(task[s])
  OBVIOUS
<1>7. /\ q \in Seq(FrameType) /\ Len(q) = Len(task[s]) /\ Len(task[s]) \in Nat
      /\ DOMAIN q = DOMAIN task[s] /\ DOMAIN task[s] = 1..Len(task[s])
      /\ \A i \in DOMAIN task[s] :
           /\ q[i].op = task[s][i].op /\ q[i].job = task[s][i].job
           /\ q[i].at = IF task[s][i].at = "sleep" THEN "watch" ELSE task[s][i].at
           /\ q[i].at # "checked" /\ file[q[i].job].owner = s
           /\ i > 1 => q[i].op = "HELLO"
           /\ q[i].op = "HELLO" => q[i].at = "asked"
           /\ q[i].at \in {"sleep", "watch"} => q[i].op = "JWAIT"
  BY <1>1, <1>6, AwakeHandlers
<1>8. task' = [task EXCEPT ![s] = Append(q, f)]
  BY <1>4, <1>5, <1>6 DEF Push
<1>9. /\ task'[s] = Append(q, f) /\ task'[s] \in Seq(FrameType) /\ task'[s] # <<>>
      /\ DOMAIN task'[s] = 1..(Len(task[s]) + 1) /\ Len(task'[s]) = Len(task[s]) + 1
      /\ task'[s][Len(task[s]) + 1] = f /\ \A i \in 1..Len(task[s]) : task'[s][i] = q[i]
      /\ task' \in [Sessions -> Seq(FrameType)] /\ \A r \in Sessions \ {s} : task'[r] = task[r]
  <2>1. /\ Append(q, f) \in Seq(FrameType) /\ Append(q, f) # <<>>
        /\ DOMAIN Append(q, f) = 1..(Len(task[s]) + 1) /\ Len(Append(q, f)) = Len(task[s]) + 1
        /\ Append(q, f)[Len(task[s]) + 1] = f /\ \A i \in 1..Len(task[s]) : Append(q, f)[i] = q[i]
    BY <1>7, AppendFacts
  <2> QED  BY <1>2, <1>8, <2>1
<1>10. \A n \in Nat : \A i \in 1..(n + 1) : i \in 1..n \/ i = n + 1
  OBVIOUS
<1>11. \A i \in DOMAIN task'[s] :
         \/ i \in DOMAIN task[s] /\ task'[s][i] = q[i]
         \/ task'[s][i] = f
  BY <1>7, <1>9, <1>10
<1>12. Top(s)' = f
  BY <1>9, TopIsNow
<1>13. \A i \in DOMAIN task'[s] : file[task'[s][i].job].owner = s
  BY <1>4, <1>5, <1>7, <1>11
<1>14. /\ inbox' \in [Sessions -> Seq(MessageType)] /\ \A r \in Sessions \ {s} : inbox'[r] = inbox[r]
       /\ inbox'[s] = Tail(inbox[s]) /\ Shorter(s)
  BY <1>1, <1>2, <1>3 DEF Shorter
<1>15. /\ waitfifo' \in [Sessions -> BOOLEAN] /\ waitfifo'[s]
       /\ \A r \in Sessions \ {s} : waitfifo'[r] = waitfifo[r]
  BY <1>1 DEF Ask, Typed
<1>16. PICK m \in RequestType : fifo' = Append(fifo, m) /\ m.from = s /\ file[m.job].owner = s
  <2>1. fifo' = Append(fifo, [cmd |-> "T", job |-> j, from |-> s])
    BY <1>4 DEF Ask, Letter
  <2>2. [cmd |-> "T", job |-> j, from |-> s] \in RequestType
    BY DEF RequestType, Letters
  <2> QED  BY <1>4, <2>1, <2>2
<1>17. /\ Typed' /\ StepOf(s) /\ OwnedBy(s)'
       /\ strayed' = {} => Queue' /\ Submissions' /\ CopiesOf(s)' /\ EventsOf(s)'
  <2>1. /\ fifo' \in Seq(RequestType) /\ response' \in [Sessions -> AnswerType \cup {None}]
        /\ strayed' \subseteq Strays
    BY <1>1, <1>16, AppendFacts DEF Typed
  <2> QED  BY <1>1, <1>9, <1>13, <1>14, <1>15, <1>16, <2>1, TakeOnly
<1>18. FramesOf(s)'
  <2>1. Top(s)'.at = "asked"
    BY <1>5, <1>12
  <2>2. ASSUME NEW i \in DOMAIN task'[s]
        PROVE  /\ i > 1 => task'[s][i].op = "HELLO"
               /\ task'[s][i].op = "HELLO" => task'[s][i].at = "asked"
               /\ task'[s][i].at # "checked"
               /\ task'[s][i].at \in {"sleep", "watch"} => task'[s][i].op = "JWAIT"
    BY <1>5, <1>7, <1>11, <2>2
  <2> QED  BY <1>1, <1>9, <1>15, <2>1, <2>2 DEF FramesOf
<1>19. SubmittedBy(s)'
  <2>1. ASSUME NEW i \in DOMAIN task'[s], task'[s][i].op = "JSUBM", task'[s][i].at = "asked"
        PROVE  mem[s][task'[s][i].job] \in CopyType /\ file[task'[s][i].job].at \in {"sendq", "doneq"}
    <3>1. i \in DOMAIN task[s] /\ task'[s][i] = q[i]
      BY <1>5, <1>11, <2>1
    <3> QED  BY <1>1, <1>7, <2>1, <3>1 DEF SubmittedBy
  <2> QED  BY <1>1, <2>1 DEF SubmittedBy
<1>20. ASSUME strayed' = {} PROVE Sound(s)'
  <2>1. strayed = {} /\ RequestsOf(s) /\ HandlingOf(s)
    BY <1>1, <1>20 DEF Inv, Sound
  <2>2. RequestsOf(s)' /\ \A i \in DOMAIN inbox'[s] : ~IsAnswer(inbox'[s][i])
    <3>1. Ask(s, "HELLO", j) /\ "HELLO" \in Ops
      BY <1>4 DEF Ops
    <3>2. Top(s)'.op = "HELLO" /\ Top(s)'.job = j
      BY <1>5, <1>12
    <3> QED  BY <1>1, <1>14, <2>1, <3>1, <3>2, Asks
  <2>3. BelievedBy(s)'
    BY <1>15, <2>2 DEF BelievedBy, IsAnswer, Letters
  <2>4. HandlingOf(s)'
    <3>1. ASSUME NEW i \in DOMAIN task'[s], NEW g, g = task'[s][i], NEW k, k = task'[s][i].job,
                 NEW copy, copy = mem[s][k]
          PROVE  Handled(g, k, copy)'
      <4>1. CASE g = f
        BY <1>5, <4>1 DEF Handled
      <4>2. CASE i \in DOMAIN task[s] /\ task'[s][i] = q[i]
        <5>1. Handled(task[s][i], k, copy)
          BY <1>7, <2>1, <3>1, <4>2 DEF HandlingOf
        <5> QED  BY <1>1, <1>7, <3>1, <4>2, <5>1 DEF Handled, AtRest
      <4> QED  BY <1>11, <3>1, <4>1, <4>2
    <3> QED  BY <1>1, <3>1 DEF HandlingOf
  <2> QED  BY <1>17, <1>20, <2>2, <2>3, <2>4 DEF Sound
<1> QED  BY <1>17, <1>18, <1>19, <1>20 DEF Kept, Own

\* or an answer nobody waits for.
LEMMA ReceiveStep ==
  ASSUME Inv, NEW s \in Sessions, Receive(s)
  PROVE  Kept(s)
<1>1. PICK m : m = Head(inbox[s])
  OBVIOUS
<1>2. CASE /\ m.cmd = "event" /\ task' = [task EXCEPT ![s] = Awake(@)]
           /\ LET l == Looked(s, m.job) IN
                Remember(s, m.job, IF l.job = None THEN None ELSE [l.job EXCEPT !.state = m.state],
                         l.newer, l.kept)
           /\ UNCHANGED <<fifo, waitfifo, response, strayed>>
  <2>1. PICK l : l = Looked(s, m.job)
    OBVIOUS
  <2>2. Remember(s, m.job, IF l.job = None THEN None ELSE [l.job EXCEPT !.state = m.state],
                 l.newer, l.kept)
    BY <1>2, <2>1
  <2>3. TakesEvent(s, m, l)
    BY <1>1, <1>2, <2>1, <2>2 DEF TakesEvent
  <2> QED  BY <2>3, ReceiveEventStep
<1>3. CASE /\ m.cmd # "event" /\ waitfifo[s] /\ task' = [task EXCEPT ![s] = Awake(@)]
           /\ response' = [response EXCEPT ![s] = m] /\ waitfifo' = [waitfifo EXCEPT ![s] = FALSE]
           /\ Stray("calledOff", m.cmd = "H") /\ UNCHANGED <<fifo, copyVars>>
  BY <1>1, <1>3, ReceiveAnswerStep
<1>4. CASE /\ m.cmd # "event" /\ ~waitfifo[s]
           /\ IF m.cmd = "H" /\ spec[s] # None
              THEN Push(s, "HELLO", spec[s], "asked") /\ Ask(s, "HELLO", spec[s])
              ELSE task' = [task EXCEPT ![s] = Awake(@)] /\ UNCHANGED <<fifo, waitfifo>>
           /\ UNCHANGED <<response, copyVars, strayed>>
  BY <1>4, ReceiveHelloStep, ReceiveStrayStep
<1> QED  BY <1>1, <1>2, <1>3, <1>4 DEF Receive

\* Urgent data calls a command off that waits for its answer,
LEMMA CallOffAnswerStep ==
  ASSUME Inv, NEW s \in Sessions, HandleUrgentData(s), waitfifo[s],
         waitfifo' = [waitfifo EXCEPT ![s] = FALSE],
         response' = [response EXCEPT ![s] = [cmd |-> "abort", ok |-> FALSE]],
         Stray("calledOff", TRUE), UNCHANGED <<task, fifo, spec>>
  PROVE  Kept(s)
<1>1. /\ Typed /\ Own(s) /\ OwnedBy(s) /\ FramesOf(s) /\ SubmittedBy(s) /\ s \in online
      /\ UNCHANGED <<file, locker, stage, waits, triggers, online, mem, newer, cur, blank, tid,
                     inbox, confirmed>>
  BY DEF Inv, Own, HandleUrgentData, faxqVars, copyVars
<1>2. [cmd |-> "abort", ok |-> FALSE] \in AnswerType
  BY DEF AnswerType
<1>3. /\ response' \in [Sessions -> AnswerType \cup {None}] /\ response'[s] \in AnswerType
      /\ \A r \in Sessions \ {s} : response'[r] = response[r]
      /\ waitfifo' \in [Sessions -> BOOLEAN] /\ ~waitfifo'[s]
      /\ \A r \in Sessions \ {s} : waitfifo'[r] = waitfifo[r]
  BY <1>1, <1>2 DEF Typed
<1>4. Typed' /\ strayed \subseteq strayed' /\ strayed' # {}
  BY <1>1, <1>3 DEF Typed, Stray, Strays
<1>5. StepOf(s)
  BY <1>1, <1>3, <1>4 DEF StepOf
<1>6. Top(s)' = Top(s)
  BY DEF Top
<1>7. Own(s)'
  <2>1. OwnedBy(s)'
    BY <1>1 DEF OwnedBy
  <2>2. FramesOf(s)'
    BY <1>1, <1>3, <1>4, <1>6 DEF FramesOf
  <2>3. SubmittedBy(s)'
    BY <1>1 DEF SubmittedBy
  <2> QED  BY <2>1, <2>2, <2>3 DEF Own
<1> QED  BY <1>4, <1>5, <1>7 DEF Kept

\* or one that waits for a job.
LEMMA CallOffWaitStep ==
  ASSUME Inv, NEW s \in Sessions, HandleUrgentData(s), task[s] # <<>>, CancelTrigger(s),
         task' = [task EXCEPT ![s] = <<>>], Stray("calledOff", Top(s).at = "asked"),
         UNCHANGED <<waitfifo, response>>
  PROVE  Kept(s)
<1>1. /\ UNCHANGED <<file, locker, stage, waits, triggers, online, mem, newer, cur, blank, tid,
                     inbox, confirmed>>
      /\ s \in online
  BY DEF HandleUrgentData, faxqVars, copyVars
<1>2. /\ Typed /\ Own(s) /\ OwnedBy(s) /\ FramesOf(s) /\ (strayed = {} => CopiesOf(s))
  BY DEF Inv, Own, Sound
<1>3. PICK j \in Jobs : file[j].owner = s
  <2>1. 1 \in DOMAIN task[s]
    <3>1. task[s] \in Seq(FrameType)
      BY <1>2, ElementTypes
    <3>2. Len(task[s]) \in Nat \ {0} /\ DOMAIN task[s] = 1..Len(task[s])
      BY <3>1, TopIs
    <3>3. \A n \in Nat \ {0} : 1 \in 1..n
      OBVIOUS
    <3> QED  BY <3>2, <3>3
  <2>2. task[s][1].job \in Jobs
    BY <1>2, <2>1, ElementTypes
  <2> QED  BY <1>2, <2>1, <2>2 DEF OwnedBy
<1>4. PICK job : job = mem[s][j]
  OBVIOUS
<1>5. job \in CopyType \cup {None} /\ cur[s] \in Jobs \cup {None}
  BY <1>2, <1>4 DEF Typed
<1>6. CopyStep(s, j, job, cur[s])
  <2>1. mem' = [mem EXCEPT ![s][j] = job] /\ cur' = [cur EXCEPT ![s] = cur[s]]
    BY <1>1, <1>2, <1>4 DEF Typed
  <2>2. newer' \in {newer \cup {<<s, j>>}, newer \ {<<s, j>>}}
    BY <1>1
  <2> QED  BY <2>1, <2>2 DEF CopyStep
<1>7. job # None /\ strayed = {} => GoodCopy(j, job) /\ (<<s, j>> \notin newer' => Current(j, job))
  BY <1>1, <1>2, <1>4 DEF CopiesOf
<1>8. /\ task' \in [Sessions -> Seq(FrameType)] /\ task'[s] = <<>>
      /\ \A r \in Sessions \ {s} : task'[r] = task[r]
  BY <1>2, EmptySeq DEF Typed
<1>9. \A i \in DOMAIN task'[s] : file[task'[s][i].job].owner = s
  <2>1. DOMAIN task'[s] = {}
    BY <1>8
  <2> QED  BY <2>1
<1>10. inbox' \in [Sessions -> Seq(MessageType)] /\ Shorter(s)
  BY <1>1, <1>2 DEF Typed, Shorter
<1>11. /\ strayed \subseteq strayed' /\ strayed' \subseteq Strays
       /\ strayed' = {} => strayed = {} /\ Top(s).at # "asked"
  BY <1>2 DEF Stray, Strays, Typed
<1>12. /\ Typed' /\ StepOf(s) /\ OwnedBy(s)'
       /\ strayed' = {} => /\ Queue' /\ Submissions' /\ CopiesOf(s)' /\ EventsOf(s)'
                           /\ ~waitfifo[s] => RequestsOf(s)' /\ Quiet(s)'
  <2>1. /\ \E t \in Tids : fifo' = Append(fifo, [cmd |-> "D", tid |-> t])
        /\ spec' \in [Sessions -> Jobs \cup {None}] /\ spec'[s] \in {None, spec[s]}
        /\ \A r \in Sessions \ {s} : spec'[r] = spec[r]
    BY <1>2, CancelTriggerIs
  <2> QED  BY <1>1, <1>3, <1>5, <1>6, <1>7, <1>8, <1>9, <1>10, <1>11, <2>1, LookOnly
<1>13. strayed' = {} => ~waitfifo[s]
  BY <1>2, <1>11 DEF FramesOf
<1>14. AtEase(s)'
  BY <1>13 DEF AtEase
<1> QED  BY <1>8, <1>12, <1>13, <1>14, Idle DEF Kept, Sound

\* A session that logs out removes the jobs it never submitted.
LEMMA DoLogoutStep ==
  ASSUME Inv, NEW s \in Sessions, DoLogout(s)
  PROVE  Kept(s)
<1>1. /\ Typed /\ Own(s) /\ OwnedBy(s) /\ s \in online /\ online' = online \ {s}
      /\ inbox' = [inbox EXCEPT ![s] = <<>>] /\ task' = [task EXCEPT ![s] = <<>>]
      /\ waitfifo' = [waitfifo EXCEPT ![s] = FALSE]
      /\ locker' = [j \in Jobs |-> IF locker[j] = s THEN None ELSE locker[j]]
      /\ UNCHANGED <<stage, waits, triggers, mem, newer, cur, blank, response, tid, confirmed, strayed>>
  BY DEF Inv, Own, DoLogout, faxqVars, copyVars
<1>2. /\ inbox' \in [Sessions -> Seq(MessageType)] /\ inbox'[s] = <<>>
      /\ task' \in [Sessions -> Seq(FrameType)] /\ task'[s] = <<>>
      /\ waitfifo' \in [Sessions -> BOOLEAN] /\ ~waitfifo'[s] /\ AtEase(s)'
      /\ \A r \in Sessions \ {s} :
           inbox'[r] = inbox[r] /\ task'[r] = task[r] /\ waitfifo'[r] = waitfifo[r]
      /\ locker' \in [Jobs -> Sessions \cup {None}]
  <2>1. <<>> \in Seq(MessageType) /\ <<>> \in Seq(FrameType)
    BY EmptySeq
  <2> QED  BY <1>1, <2>1 DEF Typed, AtEase
<1>3. /\ spec' \in [Sessions -> Jobs \cup {None}] /\ spec'[s] \in {None, spec[s]}
      /\ \A r \in Sessions \ {s} : spec'[r] = spec[r]
      /\ fifo' = fifo \/ \E t \in Tids : fifo' = Append(fifo, [cmd |-> "D", tid |-> t])
  <2>1. CASE CancelTrigger(s)
    BY <1>1, <2>1, CancelTriggerIs
  <2>2. CASE UNCHANGED <<fifo, spec>>
    BY <1>1, <2>2 DEF Typed
  <2> QED  BY <2>1, <2>2 DEF DoLogout
<1>4. \A t \in Tids : [cmd |-> "D", tid |-> t] \in RequestType /\ [cmd |-> "D", tid |-> t].cmd = "D"
  BY DEF RequestType
<1>5. fifo' \in Seq(RequestType)
  <2>1. fifo \in Seq(RequestType)
    BY <1>1 DEF Typed
  <2>2. ASSUME NEW t \in Tids, fifo' = Append(fifo, [cmd |-> "D", tid |-> t])
        PROVE  fifo' \in Seq(RequestType)
    BY <1>4, <2>1, <2>2, AppendFacts
  <2> QED  BY <1>3, <2>1, <2>2
<1>6. ASSUME NEW j \in Jobs
      PROVE  /\ file'[j] \in FileType /\ file'[j].owner = file[j].owner /\ file'[j].rev = file[j].rev
             /\ \/ file'[j] = file[j]
                \/ /\ j \in blank[s] /\ file[j].at = "sendq" /\ file'[j].at = "gone"
                   /\ file[j].owner = s
  <2> DEFINE g == [file[j] EXCEPT !.at = "gone"]
  <2>1. /\ file[j] \in FileType /\ g \in FileType /\ g.at = "gone"
        /\ g.owner = file[j].owner /\ g.rev = file[j].rev
    BY <1>1, FileFacts DEF FileType
  <2>2. file'[j] = IF j \in blank[s] /\ file[j].at = "sendq" THEN g ELSE file[j]
    BY DEF DoLogout
  <2> HIDE DEF g
  <2>3. j \in blank[s] => file[j].owner = s
    BY <1>1 DEF OwnedBy
  <2> QED  BY <2>1, <2>2, <2>3
<1>7. file' \in [Jobs -> FileType]
  <2>1. file' = [j \in Jobs |-> file'[j]]
    BY DEF DoLogout
  <2> QED  BY <1>6, <2>1
<1>8. Typed'
  BY <1>1, <1>2, <1>3, <1>5, <1>7 DEF Typed
<1>9. StepOf(s)
  <2>1. \/ fifo' = fifo
        \/ \E m \in RequestType :
             fifo' = Append(fifo, m) /\ (m.cmd # "D" => m.from = s /\ file[m.job].owner = s)
    BY <1>3, <1>4
  <2>2. \A j \in Jobs :
          \/ file'[j] = file[j]
          \/ file'[j].owner = s /\ file[j].owner \in {s, None} /\ file'[j].at # "unborn"
    BY <1>6
  <2> QED  BY <1>1, <1>2, <1>3, <2>1, <2>2 DEF StepOf
<1>10. OwnedBy(s)'
  <2>1. DOMAIN task'[s] = {} /\ DOMAIN inbox'[s] = {}
    BY <1>2
  <2>2. \A j \in Jobs : mem'[s][j] # None => file'[j].owner = s
    BY <1>1, <1>6 DEF OwnedBy
  <2>3. \A j \in Jobs : cur'[s] = j \/ spec'[s] = j \/ j \in blank'[s] => file'[j].owner = s
    BY <1>1, <1>3, <1>6, NoneIsNobody DEF OwnedBy
  <2> QED  BY <2>1, <2>2, <2>3 DEF OwnedBy
<1>11. ASSUME strayed' = {} PROVE Queue' /\ Submissions' /\ Sound(s)'
  <2>1. Queue /\ Submissions /\ CopiesOf(s)
    BY <1>1, <1>11 DEF Inv, Sound
  <2>2. Queue'
    <3>1. ASSUME NEW k \in Jobs
          PROVE  /\ file'[k].at = "sendq" => file'[k].state = StateIn[stage[k]]
                 /\ stage[k] # "unknown" => file'[k].at \in {"sendq", "gone"}
                 /\ file'[k].at = "doneq" => file'[k].state \in Ended
      BY <1>6, <2>1 DEF Queue, Present
    <3> QED  BY <1>1, <3>1 DEF Queue, Present
  <2>3. Submissions'
    <3>1. ASSUME NEW k \in Jobs, confirmed[k] # None
          PROVE  /\ (file'[k].at = "sendq" /\ stage[k] # "unknown") \/ file'[k].at = "doneq"
                 /\ file'[k].rev >= confirmed[k] /\ \A r \in Sessions : k \notin blank[r]
      BY <1>6, <2>1, <3>1 DEF Submissions, Accepted, Present
    <3> QED  BY <1>1, <3>1 DEF Submissions, Accepted, Present
  <2>4. EventsOf(s)'
    <3>1. DOMAIN inbox'[s] = {}
      BY <1>2
    <3> QED  BY <3>1 DEF EventsOf
  <2>5. CopiesOf(s)'
    <3>1. ASSUME NEW k \in Jobs, NEW copy, copy = mem[s][k], copy # None
          PROVE  GoodCopy(k, copy)' /\ (<<s, k>> \notin newer => Current(k, copy)')
      BY <1>6, <2>1, <3>1 DEF CopiesOf, GoodCopy, Current
    <3> QED  BY <1>1, <3>1 DEF CopiesOf
  <2>6. HandlingOf(s)'
    BY <1>2, <1>10, Idle
  <2> QED  BY <1>1, <2>2, <2>3, <2>4, <2>5, <2>6 DEF Sound
<1> QED  BY <1>1, <1>2, <1>8, <1>9, <1>10, <1>11, Idle DEF Kept

\* Every step of a session keeps what is known of it.
LEMMA SessionStep ==
  ASSUME Inv, NEW s \in Sessions, Session(s)
  PROVE  Kept(s)
<1>1. CASE HandleUrgentData(s)
  BY <1>1, CallOffAnswerStep, CallOffWaitStep DEF HandleUrgentData
<1>2. ASSUME NEW j \in Jobs, NEW op \in {"JSUBM", "JSUSP", "JKILL", "JDELE", "JWAIT"}, Begin(s, op, j)
      PROVE  Kept(s)
  BY <1>2, BeginStep
<1> QED  BY <1>1, <1>2, ActStep, ResumeStep, WatchStep, ReceiveStep, DoLogoutStep, NewJobStep,
            SetCurrentJobStep, SetJobParameterStep, ResetJobStep DEF Session

-----------------------------------------------------------------------------
(* What a step of faxq has to keep *)

\* faxq writes the file of a job in the queue.  As long as nothing has strayed,
\* every session finds it newer than its copy, or has a copy that says the same.
FilesStep ==
  /\ stage' \in [Jobs -> Stages] /\ file' \in [Jobs -> FileType]
  /\ newer' \subseteq Sessions \X Jobs /\ newer \subseteq newer'
  /\ strayed \subseteq strayed' /\ strayed' \subseteq Strays
  /\ \A j \in Jobs :
       \/ file'[j] = file[j]
       \/ /\ Present(j) /\ file'[j].owner = file[j].owner /\ file'[j].rev = file[j].rev
          /\ file'[j].at \in {"sendq", "doneq"}
          /\ Seen(j)

\* What faxq does not touch.
FaxqAlone ==
  UNCHANGED <<locker, online, mem, cur, blank, task, waitfifo, response, spec, tid, confirmed>>

\* A job that stays no longer at rest was given to faxq by its owner.
Demanded(j) ==
  \E s \in Sessions, cmd \in {"S", "X", "K"} :
    file[j].owner = s /\ (s \in online => Requested(s, cmd, j))

JobsStep ==
  /\ Queue' /\ \A j \in Jobs : Accepted(j) => Accepted(j)'
  /\ \A j \in Jobs : AtRest(j) => AtRest(j)' \/ Demanded(j)

\* What comes to a session: the end of its job, and an answer.
Mail(s, to, answer, j, state) ==
  \A i \in DOMAIN inbox'[s] :
    \/ i \in DOMAIN inbox[s] /\ inbox'[s][i] = inbox[s][i]
    \/ /\ state # None /\ j \in Jobs /\ file[j].owner = s
       /\ inbox'[s][i] = [cmd |-> "event", job |-> j, state |-> state]
    \/ s = to /\ inbox'[s][i] = answer /\ i = Len(inbox'[s])

\* A session whose job is demanded is not about to act on it.
LEMMA NotDemanded ==
  ASSUME Inv, strayed = {}, NEW s \in Sessions, s \in online, NEW i \in DOMAIN task[s],
         \/ task[s][i].at = "checked" /\ task[s][i].op \in {"JSUBM", "JDELE"}
         \/ task[s][i].at = "asked" /\ task[s][i].op = "JDELE"
  PROVE  ~Demanded(task[s][i].job)
<1>1. /\ task[s] \in Seq(FrameType) /\ FramesOf(s) /\ file[task[s][i].job].owner = s
  BY DEF Inv, Typed, Own, OwnedBy
<1>2. /\ task[s] # <<>> /\ Len(task[s]) \in Nat \ {0} /\ DOMAIN task[s] = 1..Len(task[s])
      /\ Top(s) = task[s][Len(task[s])]
  <2>1. task[s] # <<>>
    BY <1>1, EmptySeq, LenProperties
  <2> QED  BY <1>1, <2>1, TopIs
<1>3. ASSUME NEW cmd \in {"S", "X", "K"}, NEW j, Requested(s, cmd, j) PROVE FALSE
  <2>1. Top(s).op \in {"JSUBM", "JSUSP", "JKILL", "JDELE", "JWAIT", "HELLO"} /\ Top(s).at = "asked"
    <3>1. Top(s) \in FrameType
      BY <1>1, <1>2, TopIs
    <3> QED  BY <1>1, <1>3, <3>1 DEF FrameType, Ops, Requested, FramesOf
  <2>2. Top(s).op \in {"JSUBM", "JSUSP", "JKILL"}
    BY <1>3, <2>1 DEF Requested, Letter
  <2>3. CASE Len(task[s]) = 1
    <3>1. i = 1
      BY <1>2, <2>3
    <3> QED  BY <1>2, <2>1, <2>2, <2>3, <3>1
  <2>4. CASE Len(task[s]) # 1
    <3>1. Len(task[s]) \in DOMAIN task[s] /\ Len(task[s]) > 1
      <4>1. \A n \in Nat \ {0} : n \in 1..n /\ (n # 1 => n > 1)
        OBVIOUS
      <4> QED  BY <1>2, <2>4, <4>1
    <3>2. Top(s).op = "HELLO"
      BY <1>1, <1>2, <3>1 DEF FramesOf
    <3> QED  BY <2>2, <3>2
  <2> QED  BY <2>3, <2>4
<1>4. ASSUME Demanded(task[s][i].job) PROVE FALSE
  <2>1. PICK r \in Sessions, cmd \in {"S", "X", "K"} :
          file[task[s][i].job].owner = r /\ (r \in online => Requested(r, cmd, task[s][i].job))
    BY <1>4 DEF Demanded
  <2> QED  BY <1>1, <1>3, <2>1
<1> QED  BY <1>4

\* The files are changed as the invariant allows.
LEMMA FilesKeep ==
  ASSUME Inv, FilesStep, FaxqAlone, NEW s \in Sessions
  PROVE  /\ \A j \in Jobs : file[j].owner = s => file'[j].owner = s
         /\ \A i \in DOMAIN task[s] : file'[task[s][i].job].owner = s
         /\ FramesOf(s)' /\ SubmittedBy(s)'
         /\ strayed' = {} => CopiesOf(s)'
         /\ strayed' = {} /\ JobsStep => HandlingOf(s)'
<1>1. /\ Typed /\ OwnedBy(s) /\ FramesOf(s) /\ SubmittedBy(s)
      /\ strayed = {} => CopiesOf(s) /\ HandlingOf(s)
  BY DEF Inv, Own, Sound
<1>2. \A j \in Jobs : file[j].owner = s => file'[j].owner = s
  BY DEF FilesStep
<1>3. \A i \in DOMAIN task[s] : task[s][i].job \in Jobs /\ file[task[s][i].job].owner = s
  BY <1>1, ElementTypes DEF OwnedBy
<1>4. Top(s)' = Top(s)
  BY DEF FaxqAlone, Top
<1>5. FramesOf(s)'
  BY <1>1, <1>4 DEF FaxqAlone, FilesStep, FramesOf
<1>6. SubmittedBy(s)'
  <2>1. \A j \in Jobs : file[j].at \in {"sendq", "doneq"} => file'[j].at \in {"sendq", "doneq"}
    BY DEF FilesStep
  <2> QED  BY <1>1, <1>3, <2>1 DEF FaxqAlone, SubmittedBy
<1>7. ASSUME strayed' = {} PROVE CopiesOf(s)'
  <2>0. strayed = {}
    BY <1>7 DEF FilesStep
  <2>1. ASSUME NEW j \in Jobs, NEW copy, copy = mem[s][j], copy # None
        PROVE  GoodCopy(j, copy)' /\ (<<s, j>> \notin newer' => Current(j, copy)')
    <3>1. GoodCopy(j, copy) /\ (<<s, j>> \notin newer => Current(j, copy))
      BY <1>1, <2>0, <2>1 DEF CopiesOf
    <3>2. file'[j].rev = file[j].rev /\ (<<s, j>> \notin newer' => <<s, j>> \notin newer)
      BY DEF FilesStep
    <3>3. CASE file'[j] = file[j]
      BY <3>1, <3>2, <3>3 DEF GoodCopy, Current
    <3>4. CASE Seen(j)
      <4>1. ~Unaware(copy, file'[j], <<s, j>> \in newer')
        BY <1>7, <2>1, <3>4 DEF Seen
      <4>2. copy.at = file'[j].at /\ <<s, j>> \notin newer' => copy.state = file'[j].state
        BY <2>1, <4>1 DEF Unaware
      <4> QED  BY <3>1, <3>2, <4>2 DEF GoodCopy, Current
    <3> QED  BY <3>3, <3>4 DEF FilesStep
  <2> QED  BY <2>1 DEF CopiesOf, FaxqAlone
<1>8. ASSUME strayed' = {}, JobsStep PROVE HandlingOf(s)'
  <2>0. strayed = {}
    BY <1>8 DEF FilesStep
  <2>1. ASSUME NEW i \in DOMAIN task[s], NEW f, f = task[s][i], NEW j, j = task[s][i].job,
               NEW copy, copy = mem[s][j]
        PROVE  Handled(f, j, copy)'
    <3>1. Handled(f, j, copy) /\ j \in Jobs
      BY <1>1, <1>3, <2>0, <2>1 DEF HandlingOf
    <3>2. s \in online
      <4>1. DOMAIN task[s] # {}
        BY <2>1
      <4> QED  BY <1>1, <4>1 DEF FramesOf
    <3>3. \/ f.at = "checked" /\ f.op \in {"JSUBM", "JDELE"}
          \/ f.at = "asked" /\ f.op = "JDELE"
          => (AtRest(j) => AtRest(j)')
      <4>1. \/ f.at = "checked" /\ f.op \in {"JSUBM", "JDELE"}
            \/ f.at = "asked" /\ f.op = "JDELE"
            => ~Demanded(j)
        BY <2>0, <2>1, <3>2, NotDemanded
      <4>2. AtRest(j) => AtRest(j)' \/ Demanded(j)
        BY <1>8, <3>1 DEF JobsStep
      <4> QED  BY <4>1, <4>2
    <3>4. file'[j].rev = file[j].rev /\ (file[j].at = "doneq" => file'[j].at = "doneq")
      BY <3>1 DEF FilesStep, Present
    <3> QED  BY <3>1, <3>3, <3>4 DEF Handled
  <2> QED  BY <2>1 DEF HandlingOf, FaxqAlone
<1> QED  BY <1>2, <1>3, <1>5, <1>6, <1>7, <1>8

\* What is said of the messages of a session after a step of faxq.
MailOwned(s) ==
  \A i \in DOMAIN inbox'[s] : inbox'[s][i].cmd = "event" => file'[inbox'[s][i].job].owner = s
MailBelieved(s) ==
  \A i \in DOMAIN inbox'[s] : inbox'[s][i].cmd = "S" /\ inbox'[s][i].ok => Accepted(Top(s).job)'

\* A step of faxq keeps the invariant once it keeps its parts.
LEMMA FaxqKeeps ==
  ASSUME Inv, FilesStep, FaxqAlone, Typed',
         \A i \in DOMAIN fifo' : \E k \in DOMAIN fifo : fifo'[i] = fifo[k],
         \A i \in DOMAIN waits' : file[waits'[i].job].owner = waits'[i].from,
         \A t \in Tids, s \in Sessions, j \in Jobs :
           triggers'[t] = [by |-> s, job |-> j] => file[j].owner = s,
         \A s \in Sessions : MailOwned(s),
         strayed = {} =>
           JobsStep /\ \A s \in Sessions : EventsOf(s)' /\ (s \in online => RequestsOf(s)' /\ MailBelieved(s))
  PROVE  Inv'
<1>1. Typed /\ OwnedThere
  BY DEF Inv
<1>2. OwnedThere'
  <2>1. \A j \in Jobs : file'[j].at = "unborn" => file'[j].owner = None
    BY <1>1 DEF FilesStep, OwnedThere, Present
  <2>2. \A i \in DOMAIN fifo' : fifo'[i].cmd # "D" => file'[fifo'[i].job].owner = fifo'[i].from
    <3>1. \A k \in DOMAIN fifo : fifo[k].cmd # "D" =>
             fifo[k].job \in Jobs /\ fifo[k].from \in Sessions /\ file[fifo[k].job].owner = fifo[k].from
      <4>1. \A k \in DOMAIN fifo : fifo[k] \in RequestType
        BY <1>1, LenProperties, ElementOfSeq DEF Typed
      <4> QED  BY <1>1, <4>1 DEF OwnedThere, RequestType
    <3> QED  BY <3>1, FilesKeep
  <2>3. \A i \in DOMAIN waits' : file'[waits'[i].job].owner = waits'[i].from
    <3>1. \A i \in DOMAIN waits' : waits'[i].job \in Jobs /\ waits'[i].from \in Sessions
      <4>1. waits' \in Seq(WaitType)
        BY DEF Typed
      <4>2. \A i \in DOMAIN waits' : waits'[i] \in WaitType
        BY <4>1, LenProperties, ElementOfSeq
      <4> QED  BY <4>2 DEF WaitType
    <3> QED  BY <3>1, FilesKeep
  <2>4. \A t \in Tids, s \in Sessions, j \in Jobs :
          triggers'[t] = [by |-> s, job |-> j] => file'[j].owner = s
    BY FilesKeep
  <2> QED  BY <2>1, <2>2, <2>3, <2>4 DEF OwnedThere
<1>3. ASSUME NEW s \in Sessions PROVE Own(s)'
  <2>1. OwnedBy(s)
    BY DEF Inv, Own
  <2>2. \A j \in Jobs : file[j].owner = s => file'[j].owner = s
    BY FilesKeep
  <2>3. OwnedBy(s)'
    <3>1. \A j \in Jobs : mem'[s][j] # None => file'[j].owner = s
      BY <2>1, <2>2 DEF OwnedBy, FaxqAlone
    <3>2. \A j \in Jobs : cur'[s] = j \/ spec'[s] = j \/ j \in blank'[s] => file'[j].owner = s
      BY <2>1, <2>2 DEF OwnedBy, FaxqAlone
    <3>3. \A i \in DOMAIN task'[s] : file'[task'[s][i].job].owner = s
      BY FilesKeep DEF FaxqAlone
    <3> QED  BY <3>1, <3>2, <3>3 DEF OwnedBy, MailOwned
  <2> QED  BY <2>3, FilesKeep DEF Own
<1>4. ASSUME strayed' = {} PROVE Queue' /\ Submissions'
  <2>0. strayed = {}
    BY <1>4 DEF FilesStep
  <2>1. Queue' /\ \A j \in Jobs : Accepted(j) => Accepted(j)'
    BY <2>0 DEF JobsStep
  <2>2. Submissions'
    <3>1. Submissions
      BY <2>0 DEF Inv
    <3>2. \A j \in Jobs : file'[j].rev = file[j].rev
      BY DEF FilesStep
    <3> QED  BY <2>1, <3>1, <3>2 DEF Submissions, FaxqAlone
  <2> QED  BY <2>1, <2>2
<1>5. ASSUME strayed' = {}, NEW s \in Sessions PROVE Sound(s)'
  <2>0. strayed = {}
    BY <1>5 DEF FilesStep
  <2>1. CopiesOf(s)' /\ HandlingOf(s)' /\ EventsOf(s)'
    BY <1>5, <2>0, FilesKeep
  <2>2. ASSUME s \in online PROVE BelievedBy(s)'
    <3>1. BelievedBy(s) /\ MailBelieved(s) /\ FramesOf(s) /\ task[s] \in Seq(FrameType)
      BY <1>1, <1>5, <2>0, <2>2 DEF Inv, Sound, Own, Typed
    <3>2. Top(s)' = Top(s)
      BY DEF FaxqAlone, Top
    <3>3. Top(s).at = "asked" => Top(s).job \in Jobs
      <4>0. task[s] = <<>> => Top(s) = NoFrame
        BY <3>1, TopIs
      <4>1. task[s] = <<>> => Top(s).at = "idle"
        BY <4>0 DEF NoFrame
      <4>2. task[s] # <<>> => Top(s) \in FrameType
        BY <3>1, TopIs
      <4> QED  BY <4>1, <4>2 DEF FrameType
    <3>4. Top(s).at = "asked" => (Accepted(Top(s).job) => Accepted(Top(s).job)')
      BY <2>0, <3>2, <3>3 DEF JobsStep
    <3> QED  BY <3>1, <3>2, <3>4 DEF BelievedBy, MailBelieved, FaxqAlone
  <2>3. s \in online => RequestsOf(s)'
    BY <2>0
  <2> QED  BY <2>1, <2>2, <2>3 DEF Sound, FaxqAlone
<1> QED  BY <1>2, <1>3, <1>4, <1>5 DEF Inv, FaxqAlone

\* The messages that have come say what is true.
LEMMA MailKeeps ==
  ASSUME Inv, FilesStep, FaxqAlone, NEW s \in Sessions, NEW to, NEW answer, NEW j, NEW state,
         Mail(s, to, answer, j, state), s = to => answer.cmd # "event",
         strayed = {} /\ JobsStep /\ state # None =>
           file'[j].at = "gone" \/ (file'[j].at = "doneq" /\ state \in Ended),
         strayed = {} /\ JobsStep /\ s \in online /\ s = to /\ answer.cmd = "S" /\ answer.ok =>
           Accepted(Top(s).job)'
  PROVE  /\ MailOwned(s)
         /\ strayed = {} /\ JobsStep => EventsOf(s)' /\ (s \in online => MailBelieved(s))
<1>1. Typed /\ OwnedBy(s)
  BY DEF Inv, Own
<1>2. \A k \in Jobs : file[k].owner = s => file'[k].owner = s
  BY FilesKeep
<1>3. \A i \in DOMAIN inbox[s] : inbox[s][i].cmd = "event" => inbox[s][i].job \in Jobs
  BY <1>1, ElementTypes
<1>4. MailOwned(s)
  <2>1. ASSUME NEW i \in DOMAIN inbox'[s], inbox'[s][i].cmd = "event"
        PROVE  file'[inbox'[s][i].job].owner = s
    <3>1. CASE i \in DOMAIN inbox[s] /\ inbox'[s][i] = inbox[s][i]
      BY <1>1, <1>2, <1>3, <2>1, <3>1 DEF OwnedBy
    <3>2. CASE /\ state # None /\ j \in Jobs /\ file[j].owner = s
               /\ inbox'[s][i] = [cmd |-> "event", job |-> j, state |-> state]
      <4>1. inbox'[s][i].job = j
        BY <3>2
      <4> QED  BY <1>2, <3>2, <4>1
    <3> QED  BY <2>1, <3>1, <3>2 DEF Mail
  <2> QED  BY <2>1 DEF MailOwned
<1>5. ASSUME strayed = {}, JobsStep PROVE EventsOf(s)'
  <2>1. EventsOf(s)
    BY <1>5 DEF Inv, Sound
  <2>2. \A k \in Jobs : file[k].at \in {"gone", "doneq"} => file'[k] = file[k]
    BY DEF FilesStep, Present
  <2>3. ASSUME NEW i \in DOMAIN inbox'[s], inbox'[s][i].cmd = "event", NEW k, k = inbox'[s][i].job
        PROVE  file'[k].at = "gone" \/ (file'[k].at = "doneq" /\ inbox'[s][i].state \in Ended)
    <3>1. CASE i \in DOMAIN inbox[s] /\ inbox'[s][i] = inbox[s][i]
      <4>1. k \in Jobs /\ (file[k].at = "gone" \/ (file[k].at = "doneq" /\ inbox[s][i].state \in Ended))
        BY <1>3, <2>1, <2>3, <3>1 DEF EventsOf
      <4> QED  BY <2>2, <3>1, <4>1
    <3>2. CASE /\ state # None /\ j \in Jobs /\ file[j].owner = s
               /\ inbox'[s][i] = [cmd |-> "event", job |-> j, state |-> state]
      <4>1. k = j /\ inbox'[s][i].state = state
        BY <2>3, <3>2
      <4>2. file'[j].at = "gone" \/ (file'[j].at = "doneq" /\ state \in Ended)
        BY <1>5, <3>2
      <4> QED  BY <4>1, <4>2
    <3> QED  BY <2>3, <3>1, <3>2 DEF Mail
  <2> QED  BY <2>3 DEF EventsOf
<1>6. ASSUME strayed = {}, JobsStep, s \in online PROVE MailBelieved(s)
  <2>1. BelievedBy(s) /\ RequestsOf(s) /\ task[s] \in Seq(FrameType) /\ FramesOf(s)
    BY <1>1, <1>6 DEF Inv, Sound, Typed, Own
  <2>2. Top(s)' = Top(s)
    BY DEF FaxqAlone, Top
  <2>3. ASSUME NEW i \in DOMAIN inbox'[s], inbox'[s][i].cmd = "S", inbox'[s][i].ok
        PROVE  Accepted(Top(s).job)'
    <3>1. CASE i \in DOMAIN inbox[s] /\ inbox'[s][i] = inbox[s][i]
      <4>1. Accepted(Top(s).job)
        BY <2>1, <2>3, <3>1 DEF BelievedBy
      <4>2. Top(s).job \in Jobs
        <5>1. waitfifo[s]
          BY <2>1, <2>3, <3>1 DEF RequestsOf, Requested, IsAnswer, Letters
        <5>2. task[s] # <<>>
          BY <1>6, <2>1, <5>1 DEF FramesOf
        <5> QED  BY <2>1, <5>2, TopIs DEF FrameType
      <4> QED  BY <1>6, <2>2, <4>1, <4>2 DEF JobsStep
    <3>2. CASE inbox'[s][i] = [cmd |-> "event", job |-> j, state |-> state]
      BY <2>3, <3>2
    <3>3. CASE s = to /\ inbox'[s][i] = answer
      BY <1>6, <2>3, <3>3
    <3> QED  BY <2>3, <3>1, <3>2, <3>3 DEF Mail
  <2> QED  BY <2>3 DEF MailBelieved
<1> QED  BY <1>4, <1>5, <1>6

-----------------------------------------------------------------------------
(* Requests on their way through faxq *)

\* Nothing of a session moves, though other messages may.
LEMMA RequestsStay ==
  ASSUME NEW s \in Sessions, RequestsOf(s), FaxqAlone,
         NEW d \in {0, 1}, DOMAIN fifo \subseteq Nat,
         \A i \in DOMAIN fifo' : i \in Nat /\ i + d \in DOMAIN fifo /\ fifo'[i] = fifo[i + d],
         \A i \in DOMAIN waits' : waits'[i].from = s =>
           i \in DOMAIN waits /\ waits[i].from = s /\ waits'[i].cmd = waits[i].cmd
           /\ waits'[i].job = waits[i].job,
         \A i \in DOMAIN inbox'[s] : IsAnswer(inbox'[s][i]) =>
           i \in DOMAIN inbox[s] /\ inbox'[s][i] = inbox[s][i]
  PROVE  RequestsOf(s)'
<1>1. \A c, j : Requested(s, c, j) => Requested(s, c, j)'
  BY DEF FaxqAlone, Requested, Top
<1>2. ASSUME NEW i \in DOMAIN fifo', By(fifo'[i], s)
      PROVE  /\ Requested(s, fifo[i + d].cmd, fifo[i + d].job) /\ fifo'[i] = fifo[i + d]
             /\ \A k \in DOMAIN fifo' : By(fifo'[k], s) => k = i
             /\ \A k \in DOMAIN waits' : waits'[k].from # s
             /\ \A k \in DOMAIN inbox'[s] : ~IsAnswer(inbox'[s][k])
  <2>1. i + d \in DOMAIN fifo /\ fifo'[i] = fifo[i + d]
    BY <1>2
  <2>2. ASSUME NEW k \in DOMAIN fifo', By(fifo'[k], s) PROVE k = i
    <3>1. k + d = i + d
      BY <1>2, <2>1, <2>2 DEF RequestsOf
    <3>2. k \in Nat /\ i \in Nat /\ d \in Nat
      BY <1>2, <2>2
    <3> QED  BY <3>1, <3>2
  <2> QED  BY <1>2, <2>1, <2>2 DEF RequestsOf
<1>3. ASSUME NEW i \in DOMAIN waits', waits'[i].from = s
      PROVE  /\ Requested(s, waits[i].cmd, waits[i].job)
             /\ waits'[i].cmd = waits[i].cmd /\ waits'[i].job = waits[i].job
             /\ \A k \in DOMAIN waits' : waits'[k].from = s => k = i
             /\ \A k \in DOMAIN inbox'[s] : ~IsAnswer(inbox'[s][k])
  BY <1>3 DEF RequestsOf
<1>4. ASSUME NEW i \in DOMAIN inbox'[s], IsAnswer(inbox'[s][i])
      PROVE  /\ Requested(s, inbox[s][i].cmd, Top(s).job) /\ inbox'[s][i] = inbox[s][i]
             /\ \A k \in DOMAIN inbox'[s] : IsAnswer(inbox'[s][k]) => k = i
  BY <1>4 DEF RequestsOf
<1>5. waitfifo' = waitfifo /\ Top(s)' = Top(s)
  BY DEF FaxqAlone, Top
<1> QED  BY <1>2, <1>3, <1>4, <1>5 DEF RequestsOf, Requested

\* The only request of a session is now answered.
LEMMA RequestIsAnswered ==
  ASSUME NEW s \in Sessions, FaxqAlone, NEW cmd, NEW j, Requested(s, cmd, j),
         \A i \in DOMAIN fifo' : ~By(fifo'[i], s), \A i \in DOMAIN waits' : waits'[i].from # s,
         NEW n, \A i \in DOMAIN inbox'[s] : IsAnswer(inbox'[s][i]) => i = n /\ inbox'[s][i].cmd = cmd
  PROVE  RequestsOf(s)'
<1>1. Top(s)' = Top(s) /\ waitfifo' = waitfifo
  BY DEF FaxqAlone, Top
<1>2. waitfifo'[s] /\ cmd = Letter(Top(s)'.op) /\ j = Top(s)'.job
  BY <1>1 DEF Requested
<1> QED  BY <1>2 DEF RequestsOf, Requested

\* It is in the hands of suspendJob.
LEMMA RequestIsHeld ==
  ASSUME NEW s \in Sessions, FaxqAlone, NEW cmd, NEW j, Requested(s, cmd, j),
         \A i \in DOMAIN fifo' : ~By(fifo'[i], s),
         \A i \in DOMAIN waits' : waits'[i].from = s => waits'[i].cmd = cmd /\ waits'[i].job = j,
         \A i, k \in DOMAIN waits' : waits'[i].from = s /\ waits'[k].from = s => k = i,
         \A i \in DOMAIN inbox'[s] : ~IsAnswer(inbox'[s][i])
  PROVE  RequestsOf(s)'
<1>1. Top(s)' = Top(s) /\ waitfifo' = waitfifo
  BY DEF FaxqAlone, Top
<1>2. waitfifo'[s] /\ cmd = Letter(Top(s)'.op) /\ j = Top(s)'.job
  BY <1>1 DEF Requested
<1> QED  BY <1>2 DEF RequestsOf, Requested

\* faxq takes the next request.
LEMMA NextRequest ==
  ASSUME Inv, fifo # <<>>, fifo' = Tail(fifo), NEW m, m = Head(fifo)
  PROVE  /\ m = fifo[1] /\ m \in RequestType /\ 1 \in DOMAIN fifo /\ fifo' \in Seq(RequestType)
         /\ DOMAIN fifo \subseteq Nat
         /\ \A i \in DOMAIN fifo' : i \in Nat /\ i + 1 \in DOMAIN fifo /\ fifo'[i] = fifo[i + 1]
         /\ \A i \in DOMAIN fifo' : \E k \in DOMAIN fifo : fifo'[i] = fifo[k]
         /\ m.cmd # "D" => /\ m.cmd \in Letters /\ m.job \in Jobs /\ m.from \in Sessions
                           /\ file[m.job].owner = m.from
         /\ m.cmd = "D" => m.tid \in Tids
<1>1. fifo \in Seq(RequestType)
  BY DEF Inv, Typed
<1>2. /\ Tail(fifo) \in Seq(RequestType) /\ Head(fifo) = fifo[1] /\ fifo[1] \in RequestType
      /\ Len(fifo) \in Nat \ {0} /\ DOMAIN fifo = 1..Len(fifo)
      /\ DOMAIN Tail(fifo) = 1..(Len(fifo) - 1)
      /\ \A i \in 1..(Len(fifo) - 1) : Tail(fifo)[i] = fifo[i + 1]
  BY <1>1, TailFacts
<1>3. \A n \in Nat \ {0} : 1 \in 1..n /\ 1..n \subseteq Nat /\ \A i \in 1..(n - 1) : i \in Nat /\ i + 1 \in 1..n
  OBVIOUS
<1>4. \A i \in DOMAIN fifo' : i \in Nat /\ i + 1 \in DOMAIN fifo /\ fifo'[i] = fifo[i + 1]
  BY <1>2, <1>3
<1>5. m.cmd # "D" => m.cmd \in Letters /\ m.job \in Jobs /\ m.from \in Sessions
  BY <1>2 DEF RequestType
<1>6. m.cmd # "D" => file[m.job].owner = m.from
  BY <1>2, <1>3 DEF Inv, OwnedThere
<1>7. m.cmd = "D" => m.tid \in Tids
  BY <1>2 DEF RequestType, Letters
<1> QED  BY <1>2, <1>3, <1>4, <1>5, <1>6, <1>7

\* The request of the session that faxq hears is the only one.
LEMMA HeardRequest ==
  ASSUME Inv, strayed = {}, fifo # <<>>, fifo' = Tail(fifo), NEW m, m = Head(fifo), m.cmd # "D",
         m.from \in online
  PROVE  /\ Requested(m.from, m.cmd, m.job)
         /\ \A i \in DOMAIN fifo' : ~By(fifo'[i], m.from)
         /\ \A i \in DOMAIN waits : waits[i].from # m.from
         /\ \A i \in DOMAIN inbox[m.from] : ~IsAnswer(inbox[m.from][i])
<1>1. PICK s \in Sessions : s = m.from
  BY NextRequest
<1>2. RequestsOf(s)
  BY <1>1 DEF Inv, Sound
<1>3. /\ m = fifo[1] /\ 1 \in DOMAIN fifo /\ By(fifo[1], s)
      /\ \A i \in DOMAIN fifo' : i \in Nat /\ i + 1 \in DOMAIN fifo /\ fifo'[i] = fifo[i + 1]
  BY <1>1, NextRequest DEF By
<1>4. ASSUME NEW i \in DOMAIN fifo', By(fifo'[i], s) PROVE FALSE
  <2>1. i + 1 = 1 /\ i \in Nat /\ i + 1 \in DOMAIN fifo
    BY <1>2, <1>3, <1>4 DEF RequestsOf
  <2>2. i = 0
    BY <2>1
  <2>3. DOMAIN fifo' \subseteq Nat \ {0}
    <3>1. fifo' \in Seq(RequestType)
      BY NextRequest
    <3>2. DOMAIN fifo' = 1..Len(fifo') /\ Len(fifo') \in Nat
      BY <3>1, LenProperties
    <3> QED  BY <3>2
  <2> QED  BY <1>4, <2>2, <2>3
<1> QED  BY <1>1, <1>2, <1>3, <1>4 DEF RequestsOf

\* At most one element is added.
LEMMA AddFacts ==
  ASSUME NEW S, NEW q \in Seq(S), NEW e \in Seq(S), Len(e) \in {0, 1}, NEW r, r = q \o e
  PROVE  /\ r \in Seq(S)
         /\ \A i \in DOMAIN r :
              \/ i \in DOMAIN q /\ r[i] = q[i]
              \/ Len(e) = 1 /\ r[i] = e[1] /\ i = Len(r)
<1>1. CASE Len(e) = 0
  <2>1. r = q
    BY <1>1, EmptySeq, ConcatEmptySeq
  <2> QED  BY <2>1
<1>2. CASE Len(e) = 1
  <2>1. e \in Seq(S) /\ Len(e) = 1
    BY <1>2
  <2>2. /\ r \in Seq(S) /\ Len(r) = Len(q) + Len(e)
        /\ \A i \in 1..(Len(q) + Len(e)) : r[i] = IF i <= Len(q) THEN q[i] ELSE e[i - Len(q)]
    BY <2>1, ConcatProperties
  <2>3. Len(q) \in Nat /\ DOMAIN q = 1..Len(q) /\ DOMAIN r = 1..Len(r)
    BY <2>2, LenProperties
  <2>4. ASSUME NEW n \in Nat, NEW i \in 1..(n + 1), ~(i <= n)
        PROVE  i = n + 1 /\ i - n = 1
    BY <2>4
  <2>5. Len(r) = Len(q) + 1 /\ DOMAIN r = 1..(Len(q) + 1)
    BY <2>1, <2>2, <2>3
  <2>6. ASSUME NEW i \in DOMAIN r
        PROVE  (i \in DOMAIN q /\ r[i] = q[i]) \/ (r[i] = e[1] /\ i = Len(r))
    <3>1. i \in 1..(Len(q) + 1)
      BY <2>5, <2>6
    <3>2. r[i] = IF i <= Len(q) THEN q[i] ELSE e[i - Len(q)]
      BY <2>1, <2>2, <3>1
    <3>3. CASE i <= Len(q)
      <4>1. i \in 1..Len(q)
        BY <2>3, <3>1, <3>3
      <4> QED  BY <2>3, <3>2, <3>3, <4>1
    <3>4. CASE ~(i <= Len(q))
      <4>1. i = Len(q) + 1 /\ i - Len(q) = 1
        BY <2>3, <2>4, <3>1, <3>4
      <4>2. r[i] = e[1]
        BY <3>2, <3>4, <4>1, Zenon
      <4> QED  BY <2>5, <4>1, <4>2
    <3> QED  BY <3>3, <3>4
  <2> QED  BY <2>1, <2>2, <2>6
<1> QED  BY <1>1, <1>2

\* A sequence of one message, and of none.
LEMMA OneFacts ==
  ASSUME NEW S, NEW m \in S
  PROVE  <<m>> \in Seq(S) /\ Len(<<m>>) = 1 /\ <<m>>[1] = m
OBVIOUS

LEMMA NoneFacts ==
  ASSUME NEW S
  PROVE  <<>> \in Seq(S) /\ Len(<<>>) = 0
OBVIOUS

\* What a handler of faxq sends is well formed and reaches its own.
LEMMA AnswersFacts ==
  ASSUME Typed, OwnedThere, NEW to, NEW answer, to \in Sessions => answer \in ReplyType,
         NEW j, NEW state, state # None => j \in Jobs /\ state \in JobStates,
         Answers(to, answer, j, state)
  PROVE  /\ inbox' \in [Sessions -> Seq(MessageType)]
         /\ triggers' \in [Tids -> TriggerType \cup {None}]
         /\ \A s \in Sessions : Mail(s, to, answer, j, state)
         /\ \A t \in Tids, s \in Sessions, k \in Jobs :
              triggers'[t] = [by |-> s, job |-> k] => file[k].owner = s
<1>1. triggers \in [Tids -> TriggerType \cup {None}] /\ inbox \in [Sessions -> Seq(MessageType)]
  BY DEF Typed
<1>2. ASSUME NEW s \in Sessions
      PROVE  inbox'[s] \in Seq(MessageType) /\ Mail(s, to, answer, j, state)
  <2>1. CASE s \notin online
    <3>1. inbox'[s] = <<>>
      BY <2>1 DEF Answers
    <3>2. DOMAIN inbox'[s] = {} /\ inbox'[s] \in Seq(MessageType)
      BY <3>1
    <3> QED  BY <3>2 DEF Mail
  <2>2. CASE s \in online
    <3> DEFINE ev == IF state # None /\ \E t \in Tids : triggers[t] = [by |-> s, job |-> j]
                     THEN <<[cmd |-> "event", job |-> j, state |-> state]>> ELSE <<>>
               an == IF s = to THEN <<answer>> ELSE <<>>
    <3>1. inbox'[s] = (inbox[s] \o ev) \o an
      BY <2>2 DEF Answers
    <3>2. ev \in Seq(MessageType) /\ Len(ev) \in {0, 1}
      <4>1. CASE state # None /\ \E t \in Tids : triggers[t] = [by |-> s, job |-> j]
        <5> DEFINE m == [cmd |-> "event", job |-> j, state |-> state]
        <5>1. m \in MessageType /\ ev = <<m>>
          BY <4>1 DEF MessageType
        <5> HIDE DEF m, ev
        <5> QED  BY <5>1, OneFacts
      <4>2. CASE ~(state # None /\ \E t \in Tids : triggers[t] = [by |-> s, job |-> j])
        <5>1. ev = <<>>
          BY <4>2
        <5> QED  BY <5>1, NoneFacts
      <4> QED  BY <4>1, <4>2
    <3>3. an \in Seq(MessageType) /\ Len(an) \in {0, 1}
      <4>1. CASE s = to
        <5>1. answer \in MessageType /\ an = <<answer>>
          BY <4>1 DEF MessageType
        <5> HIDE DEF an
        <5> QED  BY <5>1, OneFacts
      <4>2. CASE s # to
        <5>1. an = <<>>
          BY <4>2
        <5> QED  BY <5>1, NoneFacts
      <4> QED  BY <4>1, <4>2
    <3>4. Len(ev) = 1 => state # None /\ j \in Jobs /\ file[j].owner = s
                       /\ ev[1] = [cmd |-> "event", job |-> j, state |-> state]
      BY DEF OwnedThere
    <3>5. Len(an) = 1 => s = to /\ an[1] = answer
      OBVIOUS
    <3> HIDE DEF ev, an
    <3>6. PICK q : q = inbox[s] \o ev
      OBVIOUS
    <3>7. /\ q \in Seq(MessageType)
          /\ \A i \in DOMAIN q :
               \/ i \in DOMAIN inbox[s] /\ q[i] = inbox[s][i]
               \/ Len(ev) = 1 /\ q[i] = ev[1]
      <4>1. inbox[s] \in Seq(MessageType)
        BY <1>1
      <4>2. PICK old, e : old = inbox[s] /\ e = ev
        OBVIOUS
      <4>3. old \in Seq(MessageType) /\ e \in Seq(MessageType) /\ Len(e) \in {0, 1} /\ q = old \o e
        BY <3>2, <3>6, <4>1, <4>2
      <4>4. /\ q \in Seq(MessageType)
            /\ \A i \in DOMAIN q :
                 \/ i \in DOMAIN old /\ q[i] = old[i]
                 \/ Len(e) = 1 /\ q[i] = e[1] /\ i = Len(q)
        BY <4>3, AddFacts
      <4> QED  BY <4>2, <4>4
    <3>8. /\ inbox'[s] \in Seq(MessageType)
          /\ \A i \in DOMAIN inbox'[s] :
               \/ i \in DOMAIN q /\ inbox'[s][i] = q[i]
               \/ Len(an) = 1 /\ inbox'[s][i] = an[1] /\ i = Len(inbox'[s])
      <4>1. PICK now : now = inbox'[s] /\ now = q \o an
        BY <3>1, <3>6
      <4>2. /\ now \in Seq(MessageType)
            /\ \A i \in DOMAIN now :
                 \/ i \in DOMAIN q /\ now[i] = q[i]
                 \/ Len(an) = 1 /\ now[i] = an[1] /\ i = Len(now)
        BY <3>3, <3>7, <4>1, AddFacts
      <4> QED  BY <4>1, <4>2
    <3>9. Mail(s, to, answer, j, state)
      BY <3>4, <3>5, <3>7, <3>8 DEF Mail
    <3> QED  BY <3>8, <3>9
  <2> QED  BY <2>1, <2>2
<1>3. inbox' \in [Sessions -> Seq(MessageType)]
  <2>1. inbox' = [s \in Sessions |-> inbox'[s]]
    BY DEF Answers
  <2> QED  BY <1>2, <2>1
<1>4. ASSUME NEW t \in Tids
      PROVE  /\ triggers'[t] \in TriggerType \cup {None}
             /\ \A s \in Sessions, k \in Jobs :
                  triggers'[t] = [by |-> s, job |-> k] => triggers[t] = [by |-> s, job |-> k]
  <2>1. \/ triggers'[t] = triggers[t]
        \/ triggers[t] # None /\ triggers'[t] = [triggers[t] EXCEPT !.job = None]
    BY DEF Answers
  <2>2. CASE triggers'[t] = triggers[t]
    BY <1>1, <2>2
  <2>3. CASE triggers[t] # None /\ triggers'[t] = [triggers[t] EXCEPT !.job = None]
    <3>1. triggers[t] \in TriggerType
      BY <1>1, <2>3
    <3>2. triggers'[t] \in TriggerType /\ triggers'[t].job = None
      BY <2>3, <3>1 DEF TriggerType
    <3>3. \A s \in Sessions, k \in Jobs : triggers'[t] = [by |-> s, job |-> k] => k = None
      BY <3>2
    <3> QED  BY <3>2, <3>3, NoneIsNobody
  <2> QED  BY <2>1, <2>2, <2>3
<1>5. triggers' \in [Tids -> TriggerType \cup {None}]
  <2>1. triggers' = [t \in Tids |-> triggers'[t]]
    BY DEF Answers
  <2> QED  BY <1>4, <2>1
<1> QED  BY <1>2, <1>3, <1>4, <1>5 DEF OwnedThere

\* A request is answered.
LEMMA RequestAnswered ==
  ASSUME Inv, strayed = {}, FaxqAlone, fifo # <<>>, fifo' = Tail(fifo), NEW m, m = Head(fifo),
         m.cmd # "D", waits' = waits, NEW answer, answer.cmd = m.cmd, NEW j, NEW state,
         NEW s \in Sessions, s \in online, Mail(s, m.from, answer, j, state)
  PROVE  RequestsOf(s)'
<1>1. RequestsOf(s) /\ ~IsAnswer([cmd |-> "event", job |-> j, state |-> state])
  BY DEF Inv, Sound, IsAnswer, Letters
<1>2. CASE s = m.from
  <2>1. /\ Requested(s, m.cmd, m.job) /\ \A i \in DOMAIN fifo' : ~By(fifo'[i], s)
        /\ \A i \in DOMAIN waits : waits[i].from # s
        /\ \A i \in DOMAIN inbox[s] : ~IsAnswer(inbox[s][i])
    BY <1>2, HeardRequest
  <2>2. PICK n : n = Len(inbox'[s])
    OBVIOUS
  <2>3. \A i \in DOMAIN inbox'[s] : IsAnswer(inbox'[s][i]) => i = n /\ inbox'[s][i].cmd = m.cmd
    BY <1>1, <2>1, <2>2 DEF Mail
  <2>4. \A i \in DOMAIN waits' : waits'[i].from # s
    BY <2>1
  <2>5. Top(s)' = Top(s) /\ waitfifo' = waitfifo
    BY DEF FaxqAlone, Top
  <2>6. waitfifo'[s] /\ m.cmd = Letter(Top(s)'.op)
    BY <2>1, <2>5 DEF Requested
  <2>7. ASSUME NEW i \in DOMAIN inbox'[s], IsAnswer(inbox'[s][i])
        PROVE  /\ Requested(s, inbox[s][i].cmd, Top(s).job)'
               /\ \A k \in DOMAIN inbox'[s] : IsAnswer(inbox'[s][k]) => k = i
    BY <2>3, <2>6, <2>7 DEF Requested
  <2> QED  BY <2>1, <2>4, <2>7, Zenon DEF RequestsOf
<1>3. CASE s # m.from
  <2>1. \A i \in DOMAIN inbox'[s] : IsAnswer(inbox'[s][i]) =>
           i \in DOMAIN inbox[s] /\ inbox'[s][i] = inbox[s][i]
    BY <1>1, <1>3 DEF Mail
  <2>2. /\ DOMAIN fifo \subseteq Nat
        /\ \A i \in DOMAIN fifo' : i \in Nat /\ i + 1 \in DOMAIN fifo /\ fifo'[i] = fifo[i + 1]
    BY NextRequest
  <2> QED  BY <1>1, <2>1, <2>2, RequestsStay
<1> QED  BY <1>2, <1>3

\* The innermost wait of suspendJob.
LEMMA LastWait ==
  ASSUME Inv, waits # <<>>, waits' = Front(waits), NEW w, w = Last(waits)
  PROVE  /\ w \in WaitType /\ w.job \in Jobs /\ w.from \in Sessions /\ w.cmd \in {"X", "K"}
         /\ file[w.job].owner = w.from /\ waits' \in Seq(WaitType)
         /\ Len(waits) \in DOMAIN waits /\ waits[Len(waits)] = w
         /\ \A i \in DOMAIN waits' : i \in DOMAIN waits /\ waits'[i] = waits[i] /\ i # Len(waits)
<1>1. waits \in Seq(WaitType)
  BY DEF Inv, Typed
<1>2. /\ Front(waits) \in Seq(WaitType) /\ w = waits[Len(waits)] /\ w \in WaitType
      /\ Len(waits) \in Nat \ {0} /\ DOMAIN waits = 1..Len(waits)
      /\ DOMAIN Front(waits) = 1..(Len(waits) - 1)
      /\ \A i \in 1..(Len(waits) - 1) : Front(waits)[i] = waits[i]
  BY <1>1, FrontFacts
<1>3. \A n \in Nat \ {0} : n \in 1..n /\ \A i \in 1..(n - 1) : i \in 1..n /\ i # n
  OBVIOUS
<1>4. Len(waits) \in DOMAIN waits
      /\ \A i \in DOMAIN waits' : i \in DOMAIN waits /\ waits'[i] = waits[i] /\ i # Len(waits)
  BY <1>2, <1>3
<1>5. file[w.job].owner = w.from
  BY <1>2, <1>4 DEF Inv, OwnedThere
<1> QED  BY <1>2, <1>4, <1>5 DEF WaitType

\* The command that waited in suspendJob is answered.
LEMMA WaitAnswered ==
  ASSUME Inv, strayed = {}, FaxqAlone, fifo' = fifo, waits # <<>>, waits' = Front(waits),
         NEW w, w = Last(waits), NEW answer, answer.cmd = w.cmd, NEW j, NEW state,
         NEW s \in Sessions, s \in online, Mail(s, w.from, answer, j, state)
  PROVE  RequestsOf(s)'
<1>1. RequestsOf(s) /\ ~IsAnswer([cmd |-> "event", job |-> j, state |-> state])
  BY DEF Inv, Sound, IsAnswer, Letters
<1>2. /\ Len(waits) \in DOMAIN waits /\ waits[Len(waits)] = w
      /\ \A i \in DOMAIN waits' : i \in DOMAIN waits /\ waits'[i] = waits[i] /\ i # Len(waits)
  BY LastWait
<1>3. CASE s = w.from
  <2>1. /\ Requested(s, w.cmd, w.job)
        /\ \A k \in DOMAIN waits : waits[k].from = s => k = Len(waits)
        /\ \A k \in DOMAIN inbox[s] : ~IsAnswer(inbox[s][k])
    BY <1>1, <1>2, <1>3 DEF RequestsOf
  <2>2. \A i \in DOMAIN fifo' : ~By(fifo'[i], s)
    BY <1>1, <1>2, <1>3 DEF RequestsOf
  <2>3. \A i \in DOMAIN waits' : waits'[i].from # s
    BY <1>2, <2>1
  <2>4. PICK n, cmd : n = Len(inbox'[s]) /\ cmd = w.cmd
    OBVIOUS
  <2>5. \A i \in DOMAIN inbox'[s] : IsAnswer(inbox'[s][i]) => i = n /\ inbox'[s][i].cmd = cmd
    BY <1>1, <2>1, <2>4 DEF Mail
  <2>6. Requested(s, cmd, w.job)
    BY <2>1, <2>4
  <2> QED  BY <2>2, <2>3, <2>5, <2>6, RequestIsAnswered, SMTT(90)
<1>4. CASE s # w.from
  <2>1. \A i \in DOMAIN inbox'[s] : IsAnswer(inbox'[s][i]) =>
           i \in DOMAIN inbox[s] /\ inbox'[s][i] = inbox[s][i]
    BY <1>1, <1>4 DEF Mail
  <2>2. DOMAIN fifo \subseteq Nat /\ \A i \in DOMAIN fifo' : i \in Nat /\ i + 0 \in DOMAIN fifo /\ fifo'[i] = fifo[i + 0]
    <3>1. fifo \in Seq(RequestType)
      BY DEF Inv, Typed
    <3>2. DOMAIN fifo = 1..Len(fifo) /\ Len(fifo) \in Nat
      BY <3>1, LenProperties
    <3>3. \A i \in Nat : i + 0 = i
      OBVIOUS
    <3> QED  BY <3>2, <3>3
  <2> QED  BY <1>1, <1>2, <2>1, <2>2, RequestsStay
<1> QED  BY <1>3, <1>4

\* No request of a session is touched.
LEMMA NoneAnswered ==
  ASSUME Inv, strayed = {}, FaxqAlone,
         \/ fifo' = fifo
         \/ fifo # <<>> /\ fifo' = Tail(fifo) /\ Head(fifo).cmd = "D",
         \A i \in DOMAIN waits' :
           /\ i \in DOMAIN waits /\ waits'[i].from = waits[i].from
           /\ waits'[i].cmd = waits[i].cmd /\ waits'[i].job = waits[i].job,
         NEW s \in Sessions, s \in online,
         \A i \in DOMAIN inbox'[s] : IsAnswer(inbox'[s][i]) =>
           i \in DOMAIN inbox[s] /\ inbox'[s][i] = inbox[s][i]
  PROVE  RequestsOf(s)'
<1>1. RequestsOf(s)
  BY DEF Inv, Sound
<1>2. CASE fifo' = fifo
  <2>1. DOMAIN fifo \subseteq Nat /\ \A i \in DOMAIN fifo' : i \in Nat /\ i + 0 \in DOMAIN fifo /\ fifo'[i] = fifo[i + 0]
    <3>1. fifo \in Seq(RequestType)
      BY DEF Inv, Typed
    <3>2. DOMAIN fifo = 1..Len(fifo) /\ Len(fifo) \in Nat
      BY <3>1, LenProperties
    <3>3. \A i \in Nat : i + 0 = i
      OBVIOUS
    <3> QED  BY <1>2, <3>2, <3>3
  <2> QED  BY <1>1, <2>1, RequestsStay
<1>3. CASE fifo # <<>> /\ fifo' = Tail(fifo)
  <2>1. /\ DOMAIN fifo \subseteq Nat
        /\ \A i \in DOMAIN fifo' : i \in Nat /\ i + 1 \in DOMAIN fifo /\ fifo'[i] = fifo[i + 1]
    BY <1>3, NextRequest
  <2> QED  BY <1>1, <2>1, RequestsStay
<1> QED  BY <1>2, <1>3

-----------------------------------------------------------------------------
(* What faxq does to a job *)

\* Only what is done to the one job matters.
LEMMA OneJob ==
  ASSUME Inv, strayed = {}, FilesStep, NEW j \in Jobs,
         \A k \in Jobs \ {j} : stage'[k] = stage[k] /\ file'[k] = file[k],
         file'[j].at = "sendq" => file'[j].state = StateIn[stage'[j]],
         stage'[j] # "unknown" => file'[j].at \in {"sendq", "gone"},
         file'[j].at = "doneq" => file'[j].state \in Ended,
         Accepted(j) => Accepted(j)', AtRest(j) => AtRest(j)' \/ Demanded(j)
  PROVE  JobsStep
<1>1. Queue
  BY DEF Inv
<1>2. ASSUME NEW k \in Jobs
      PROVE  /\ file'[k].at = "sendq" => file'[k].state = StateIn[stage'[k]]
             /\ stage'[k] # "unknown" => file'[k].at \in {"sendq", "gone"}
             /\ file'[k].at = "doneq" => file'[k].state \in Ended
             /\ Accepted(k) => Accepted(k)'
             /\ AtRest(k) => AtRest(k)' \/ Demanded(k)
  <2>1. CASE k = j
    BY <2>1
  <2>2. CASE k # j
    BY <1>1, <2>2 DEF Queue, Accepted, AtRest, Present
  <2> QED  BY <2>1, <2>2
<1>3. Queue'
  BY <1>2 DEF Queue, Present
<1> QED  BY <1>2, <1>3 DEF JobsStep

\* A step that changes no file finishes no job.
LEMMA NothingDone ==
  ASSUME Inv, UNCHANGED <<stage, file, newer, strayed>>
  PROVE  FilesStep /\ (strayed = {} => JobsStep)
<1>1. FilesStep
  BY DEF Inv, Typed, FilesStep
<1>2. strayed = {} => JobsStep
  BY DEF Inv, JobsStep, Queue, Present, Accepted, AtRest
<1> QED  BY <1>1, <1>2

\* faxq writes the state of a job in its queue.
LEMMA JobWritten ==
  ASSUME Inv, NEW j \in Jobs, NEW st \in {"queued", "suspended", "held"}, NEW state,
         state = StateIn[st], WriteState(j, state), stage' = [stage EXCEPT ![j] = st],
         strayed = {} => file[j].at \in {"sendq", "gone"},
         strayed = {} /\ AtRest(j) => st = "suspended" \/ Demanded(j)
  PROVE  /\ FilesStep
         /\ strayed = {} => JobsStep /\ (Present(j) => Accepted(j)')
<1>1. Typed /\ file[j] \in FileType
  BY FileFacts DEF Inv
<1>2. state \in JobStates /\ (st = "suspended" => state = "suspended")
  BY DEF StateIn, JobStates, Ended
<1>3. stage' \in [Jobs -> Stages] /\ stage'[j] = st /\ \A k \in Jobs \ {j} : stage'[k] = stage[k]
  BY <1>1 DEF Typed, Stages
<1>4. /\ FilesStep /\ \A k \in Jobs \ {j} : file'[k] = file[k]
      /\ file'[j].at = file[j].at /\ (Present(j) => file'[j].state = state)
  <2>1. CASE ~Present(j)
    <3>1. file' = file /\ newer' = newer /\ strayed' = strayed
      BY <2>1 DEF WriteState
    <3> QED  BY <1>1, <1>3, <2>1, <3>1 DEF FilesStep, Typed
  <2>2. CASE Present(j)
    <3> DEFINE g == [file[j] EXCEPT !.state = state]
    <3>1. /\ g \in FileType /\ g.state = state /\ g.at = file[j].at /\ g.rev = file[j].rev
          /\ g.owner = file[j].owner
      BY <1>1, <1>2 DEF FileType
    <3>2. file' = [file EXCEPT ![j] = g] /\ Noticed(j)
      BY <2>2 DEF WriteState
    <3> HIDE DEF g
    <3>3. file' \in [Jobs -> FileType] /\ file'[j] = g /\ \A k \in Jobs \ {j} : file'[k] = file[k]
      BY <1>1, <3>1, <3>2 DEF Typed
    <3>4. /\ newer' \subseteq Sessions \X Jobs /\ newer \subseteq newer'
          /\ strayed \subseteq strayed' /\ strayed' \subseteq Strays /\ Seen(j)
      BY <1>1, <3>2, NoticedFacts
    <3>5. FilesStep
      <4>1. ASSUME NEW k \in Jobs
            PROVE  \/ file'[k] = file[k]
                   \/ /\ Present(k) /\ file'[k].owner = file[k].owner /\ file'[k].rev = file[k].rev
                      /\ file'[k].at \in {"sendq", "doneq"}
                      /\ Seen(k)
        <5>1. CASE k = j
          BY <2>2, <3>1, <3>3, <3>4, <5>1 DEF Present
        <5>2. CASE k # j
          BY <3>3, <5>2
        <5> QED  BY <5>1, <5>2
      <4> QED  BY <1>3, <3>3, <3>4, <4>1 DEF FilesStep
    <3> QED  BY <3>1, <3>3, <3>5
  <2> QED  BY <2>1, <2>2
<1>5. ASSUME strayed = {} PROVE JobsStep /\ (Present(j) => Accepted(j)')
  <2>1. st # "unknown" /\ file[j].at \in {"sendq", "gone"}
    BY <1>5
  <2>2. Accepted(j) => Accepted(j)'
    BY <1>3, <1>4, <2>1 DEF Accepted, Present
  <2>3. AtRest(j) => AtRest(j)' \/ Demanded(j)
    BY <1>2, <1>4, <1>5 DEF AtRest, Present
  <2>4. file'[j].at = "sendq" => file'[j].state = StateIn[stage'[j]]
    BY <1>3, <1>4 DEF Present
  <2>5. JobsStep
    BY <1>3, <1>4, <1>5, <2>1, <2>2, <2>3, <2>4, OneJob
  <2>6. Present(j) => Accepted(j)'
    BY <1>3, <1>4, <2>1 DEF Accepted, Present
  <2> QED  BY <2>5, <2>6
<1> QED  BY <1>4, <1>5

\* faxq is done with a job.
LEMMA JobBuried ==
  ASSUME Inv, NEW j \in Jobs, NEW state \in JobStates, BuryJob(j, state),
         Present(j) => state \in Ended, strayed = {} /\ AtRest(j) => Demanded(j)
  PROVE  /\ FilesStep
         /\ strayed = {} => /\ JobsStep /\ (Present(j) => Accepted(j)')
                            /\ Present(j) \/ stage[j] # "unknown" =>
                                 file'[j].at = "gone" \/ (file'[j].at = "doneq" /\ state \in Ended)
<1>1. Typed /\ file[j] \in FileType
  BY FileFacts DEF Inv
<1>2. stage' \in [Jobs -> Stages] /\ stage'[j] = "unknown" /\ \A k \in Jobs \ {j} : stage'[k] = stage[k]
  BY <1>1 DEF Typed, Stages, BuryJob
<1>3. /\ FilesStep /\ \A k \in Jobs \ {j} : file'[k] = file[k]
      /\ Present(j) => file'[j].at = "doneq" /\ file'[j].state = state
      /\ ~Present(j) => file'[j] = file[j]
  <2>1. CASE ~Present(j)
    <3>1. file' = file /\ newer' = newer /\ strayed' = strayed
      BY <2>1 DEF BuryJob
    <3> QED  BY <1>1, <1>2, <2>1, <3>1 DEF FilesStep, Typed
  <2>2. CASE Present(j)
    <3> DEFINE g == [file[j] EXCEPT !.at = "doneq", !.state = state]
    <3>1. /\ g \in FileType /\ g.state = state /\ g.at = "doneq" /\ g.rev = file[j].rev
          /\ g.owner = file[j].owner
      BY <1>1 DEF FileType
    <3>2. file' = [file EXCEPT ![j] = g] /\ Noticed(j)
      BY <2>2 DEF BuryJob
    <3> HIDE DEF g
    <3>3. file' \in [Jobs -> FileType] /\ file'[j] = g /\ \A k \in Jobs \ {j} : file'[k] = file[k]
      BY <1>1, <3>1, <3>2 DEF Typed
    <3>4. /\ newer' \subseteq Sessions \X Jobs /\ newer \subseteq newer'
          /\ strayed \subseteq strayed' /\ strayed' \subseteq Strays /\ Seen(j)
      BY <1>1, <3>2, NoticedFacts
    <3>5. FilesStep
      <4>1. ASSUME NEW k \in Jobs
            PROVE  \/ file'[k] = file[k]
                   \/ /\ Present(k) /\ file'[k].owner = file[k].owner /\ file'[k].rev = file[k].rev
                      /\ file'[k].at \in {"sendq", "doneq"}
                      /\ Seen(k)
        <5>1. CASE k = j
          BY <2>2, <3>1, <3>3, <3>4, <5>1 DEF Present
        <5>2. CASE k # j
          BY <3>3, <5>2
        <5> QED  BY <5>1, <5>2
      <4> QED  BY <1>2, <3>3, <3>4, <4>1 DEF FilesStep
    <3> QED  BY <2>2, <3>1, <3>3, <3>5
  <2> QED  BY <2>1, <2>2
<1>4. ASSUME strayed = {}
      PROVE  /\ JobsStep /\ (Present(j) => Accepted(j)')
             /\ Present(j) \/ stage[j] # "unknown" =>
                  file'[j].at = "gone" \/ (file'[j].at = "doneq" /\ state \in Ended)
  <2>1. Queue
    BY <1>4 DEF Inv
  <2>2. (Present(j) => Accepted(j)') /\ (Accepted(j) => Accepted(j)')
    BY <1>3 DEF Accepted, Present
  <2>3. file'[j].at # "sendq" /\ (file'[j].at = "doneq" => file'[j].state \in Ended)
    BY <1>3, <2>1 DEF Queue, Present
  <2>4. JobsStep
    BY <1>2, <1>3, <1>4, <2>2, <2>3, OneJob
  <2>5. Present(j) \/ stage[j] # "unknown" =>
          file'[j].at = "gone" \/ (file'[j].at = "doneq" /\ state \in Ended)
    BY <1>3, <2>1 DEF Queue, Present
  <2> QED  BY <2>2, <2>4, <2>5
<1> QED  BY <1>3, <1>4

-----------------------------------------------------------------------------
(* The steps of faxq *)

\* The types of what faxq changes.
LEMMA FaxqTyped ==
  ASSUME Typed, FilesStep, FaxqAlone, fifo' \in Seq(RequestType), waits' \in Seq(WaitType),
         inbox' \in [Sessions -> Seq(MessageType)], triggers' \in [Tids -> TriggerType \cup {None}]
  PROVE  Typed'
<1>1. /\ file' \in [Jobs -> FileType] /\ stage' \in [Jobs -> Stages] /\ newer' \subseteq Sessions \X Jobs
  BY DEF FilesStep
<1>2. /\ locker' \in [Jobs -> Sessions \cup {None}] /\ online' \subseteq Sessions
      /\ mem' \in [Sessions -> [Jobs -> CopyType \cup {None}]]
      /\ cur' \in [Sessions -> Jobs \cup {None}] /\ spec' \in [Sessions -> Jobs \cup {None}]
      /\ blank' \in [Sessions -> SUBSET Jobs] /\ task' \in [Sessions -> Seq(FrameType)]
  BY DEF FaxqAlone, Typed
<1>3. /\ waitfifo' \in [Sessions -> BOOLEAN]
      /\ response' \in [Sessions -> AnswerType \cup {None}] /\ tid' \in [Sessions -> Tids]
      /\ confirmed' \in [Jobs -> Nat \cup {None}] /\ strayed' \subseteq Strays
  BY DEF FaxqAlone, FilesStep, Typed
<1> QED  BY <1>1, <1>2, <1>3 DEF Typed

\* A handler of faxq that has an answer for one session at most.
LEMMA FaxqStep ==
  ASSUME Inv, FilesStep, FaxqAlone, strayed = {} => JobsStep,
         fifo' \in Seq(RequestType), waits' \in Seq(WaitType),
         inbox' \in [Sessions -> Seq(MessageType)], triggers' \in [Tids -> TriggerType \cup {None}],
         \A i \in DOMAIN fifo' : \E k \in DOMAIN fifo : fifo'[i] = fifo[k],
         \A i \in DOMAIN waits' : file[waits'[i].job].owner = waits'[i].from,
         \A t \in Tids, s \in Sessions, k \in Jobs :
           triggers'[t] = [by |-> s, job |-> k] => file[k].owner = s,
         NEW to, NEW answer, NEW j, NEW state,
         \A s \in Sessions : Mail(s, to, answer, j, state),
         to \in Sessions => answer.cmd # "event",
         strayed = {} /\ state # None =>
           file'[j].at = "gone" \/ (file'[j].at = "doneq" /\ state \in Ended),
         strayed = {} /\ to \in online /\ answer.cmd = "S" /\ answer.ok => Accepted(Top(to).job)',
         strayed = {} => \A s \in Sessions : s \in online => RequestsOf(s)'
  PROVE  Inv'
<1>1. Typed'
  BY FaxqTyped DEF Inv
<1>2. ASSUME NEW s \in Sessions
      PROVE  MailOwned(s) /\ (strayed = {} => EventsOf(s)' /\ (s \in online => MailBelieved(s)))
  <2>1. Mail(s, to, answer, j, state) /\ (s = to => answer.cmd # "event")
    OBVIOUS
  <2>2. strayed = {} /\ JobsStep /\ s \in online /\ s = to /\ answer.cmd = "S" /\ answer.ok =>
          Accepted(Top(s).job)'
    OBVIOUS
  <2>3. MailOwned(s) /\ (strayed = {} /\ JobsStep => EventsOf(s)' /\ (s \in online => MailBelieved(s)))
    BY <2>1, <2>2, MailKeeps
  <2> QED  BY <2>3
<1> QED  BY <1>1, <1>2, FaxqKeeps

\* faxq answers the request it has taken from the FIFO.
LEMMA AnswerStep ==
  ASSUME Inv, FilesStep, FaxqAlone, strayed = {} => JobsStep,
         fifo # <<>>, fifo' = Tail(fifo), waits' = waits, NEW m, m = Head(fifo), m.cmd # "D",
         NEW answer \in ReplyType, answer.cmd = m.cmd,
         inbox' \in [Sessions -> Seq(MessageType)], triggers' \in [Tids -> TriggerType \cup {None}],
         \A t \in Tids, s \in Sessions, k \in Jobs :
           triggers'[t] = [by |-> s, job |-> k] => file[k].owner = s,
         NEW j, NEW state, \A s \in Sessions : Mail(s, m.from, answer, j, state),
         strayed = {} /\ state # None =>
           file'[j].at = "gone" \/ (file'[j].at = "doneq" /\ state \in Ended),
         strayed = {} /\ m.from \in online /\ m.cmd = "S" /\ answer.ok => Accepted(m.job)'
  PROVE  Inv'
<1>1. /\ fifo' \in Seq(RequestType) /\ m.from \in Sessions
      /\ \A i \in DOMAIN fifo' : \E k \in DOMAIN fifo : fifo'[i] = fifo[k]
  BY NextRequest
<1>2. /\ waits' \in Seq(WaitType)
      /\ \A i \in DOMAIN waits' : file[waits'[i].job].owner = waits'[i].from
  BY DEF Inv, Typed, OwnedThere
<1>3. answer.cmd # "event"
  BY DEF ReplyType
<1>4. strayed = {} /\ m.from \in online /\ answer.cmd = "S" /\ answer.ok => Accepted(Top(m.from).job)'
  <2>1. strayed = {} /\ m.from \in online => Top(m.from).job = m.job
    BY HeardRequest DEF Requested
  <2>2. Top(m.from)' = Top(m.from)
    BY DEF FaxqAlone, Top
  <2> QED  BY <2>1, <2>2
<1>5. strayed = {} => \A s \in Sessions : s \in online => RequestsOf(s)'
  BY RequestAnswered
<1>6. PICK to : to = m.from
  OBVIOUS
<1>7. /\ to \in Sessions => answer.cmd # "event"
      /\ strayed = {} /\ to \in online /\ answer.cmd = "S" /\ answer.ok => Accepted(Top(to).job)'
      /\ \A s \in Sessions : Mail(s, to, answer, j, state)
  BY <1>3, <1>4, <1>6
<1> QED  BY <1>1, <1>2, <1>5, <1>7, FaxqStep

\* A request that hfaxd sent shows what the client wants.
LEMMA HeardDemand ==
  ASSUME Inv, strayed = {}, fifo # <<>>, fifo' = Tail(fifo), NEW m, m = Head(fifo), m.cmd \in {"S", "X", "K"}
  PROVE  Demanded(m.job)
<1>1. m.from \in Sessions /\ file[m.job].owner = m.from
  BY NextRequest
<1>2. m.from \in online => Requested(m.from, m.cmd, m.job)
  BY HeardRequest
<1> QED  BY <1>1, <1>2 DEF Demanded

\* The hypotheses under which a handler of faxq runs.
Hears(m) ==
  /\ fifo # <<>> /\ fifo' = Tail(fifo) /\ m = Head(fifo) /\ FaxqAlone

\* A request is answered with the words of Answers.
LEMMA AnswersStep ==
  ASSUME Inv, NEW m, Hears(m), FilesStep, strayed = {} => JobsStep, waits' = waits,
         m.cmd # "D", NEW answer \in ReplyType, answer.cmd = m.cmd,
         NEW j, NEW state, state # None => j \in Jobs /\ state \in JobStates,
         Answers(m.from, answer, j, state),
         strayed = {} /\ state # None =>
           file'[j].at = "gone" \/ (file'[j].at = "doneq" /\ state \in Ended),
         strayed = {} /\ m.from \in online /\ m.cmd = "S" /\ answer.ok => Accepted(m.job)'
  PROVE  Inv'
<1>1. PICK to : to = m.from
  OBVIOUS
<1>2. Typed /\ OwnedThere /\ Answers(to, answer, j, state)
  BY <1>1 DEF Inv
<1>3. /\ inbox' \in [Sessions -> Seq(MessageType)] /\ triggers' \in [Tids -> TriggerType \cup {None}]
      /\ \A s \in Sessions : Mail(s, to, answer, j, state)
      /\ \A t \in Tids, s \in Sessions, k \in Jobs :
           triggers'[t] = [by |-> s, job |-> k] => file[k].owner = s
  BY <1>2, AnswersFacts
<1>4. \A s \in Sessions : Mail(s, m.from, answer, j, state)
  BY <1>1, <1>3
<1>5. fifo # <<>> /\ fifo' = Tail(fifo) /\ m = Head(fifo) /\ FaxqAlone
  BY DEF Hears
<1> QED  BY <1>3, <1>4, <1>5, AnswerStep

\* An acknowledgement is an answer to what was asked.
LEMMA AckIsReply ==
  ASSUME NEW cmd \in {"S", "X", "K", "U"}, NEW ok \in BOOLEAN
  PROVE  Ack(cmd, ok) \in ReplyType /\ Ack(cmd, ok).cmd = cmd /\ Ack(cmd, ok).ok = ok
BY DEF Ack, ReplyType

\* What is asked of faxq is refused.
LEMMA RefuseStep ==
  ASSUME Inv, NEW m, Hears(m), m.cmd \in {"X", "K"}, Refuse(m.cmd, m.from), waits' = waits
  PROVE  Inv'
<1>1. FilesStep /\ (strayed = {} => JobsStep)
  BY NothingDone DEF Refuse
<1>2. Ack(m.cmd, FALSE) \in ReplyType /\ Ack(m.cmd, FALSE).cmd = m.cmd
  BY AckIsReply
<1>3. PICK answer : answer = Ack(m.cmd, FALSE)
  OBVIOUS
<1>4. /\ answer \in ReplyType /\ answer.cmd = m.cmd /\ m.cmd # "D" /\ m.cmd # "S"
      /\ Answers(m.from, answer, None, None)
  BY <1>2, <1>3 DEF Refuse
<1> QED  BY <1>1, <1>4, AnswersStep

\* A job that is submitted has a file.
LEMMA SubmittedHasFile ==
  ASSUME Inv, strayed = {}, NEW s \in Sessions, NEW j, Requested(s, "S", j)
  PROVE  file[j].at \in {"sendq", "doneq"}
<1>1. /\ task[s] \in Seq(FrameType) /\ FramesOf(s) /\ SubmittedBy(s)
  BY DEF Inv, Typed, Own
<1>2. waitfifo[s] /\ Letter(Top(s).op) = "S" /\ Top(s).job = j
  BY DEF Requested
<1>3. task[s] # <<>> /\ Top(s).at = "asked"
  BY <1>1, <1>2 DEF FramesOf
<1>4. /\ Len(task[s]) \in DOMAIN task[s] /\ Top(s) = task[s][Len(task[s])] /\ Top(s) \in FrameType
  BY <1>1, <1>3, TopIs
<1>5. Top(s).op = "JSUBM"
  BY <1>2, <1>4 DEF FrameType, Ops, Letter
<1> QED  BY <1>1, <1>2, <1>3, <1>4, <1>5 DEF SubmittedBy

\* faxq takes a job it is asked to take,
LEMMA SubmitStep ==
  ASSUME Inv, NEW m, Hears(m), Submit(m)
  PROVE  Inv'
<1>1. /\ fifo # <<>> /\ fifo' = Tail(fifo) /\ m = Head(fifo) /\ FaxqAlone
      /\ m.cmd = "S" /\ waits' = waits
  BY DEF Hears, Submit
<1>2. m.job \in Jobs /\ m.from \in Sessions
  BY <1>1, NextRequest
<1>3. PICK j : j = m.job
  OBVIOUS
<1>4. PICK yes, no : yes = Ack("S", TRUE) /\ no = Ack("S", FALSE)
  OBVIOUS
<1>5. /\ yes \in ReplyType /\ yes.cmd = m.cmd /\ yes.ok
      /\ no \in ReplyType /\ no.cmd = m.cmd /\ ~no.ok
  BY <1>1, <1>4, AckIsReply
<1>6. strayed = {} => Demanded(j)
  BY <1>1, <1>3, HeardDemand
<1>7. CASE /\ stage[j] \in {"queued", "active", "held"}
           /\ Answers(m.from, yes, j, None) /\ UNCHANGED <<stage, file, newer, strayed>>
  <2>1. FilesStep /\ (strayed = {} => JobsStep)
    BY <1>7, NothingDone
  <2>2. strayed = {} /\ m.from \in online => Accepted(m.job)'
    <3>1. strayed = {} /\ m.from \in online => file[j].at \in {"sendq", "doneq"}
      BY <1>1, <1>2, <1>3, HeardRequest, SubmittedHasFile
    <3> QED  BY <1>3, <1>7, <3>1 DEF Accepted, Present
  <2> QED  BY <1>1, <1>5, <1>7, <2>1, <2>2, AnswersStep
<1>8. CASE /\ Present(j) /\ stage[j] \in {"suspended", "unknown"}
           /\ stage' = [stage EXCEPT ![j] = "queued"] /\ WriteState(j, "ready")
           /\ Answers(m.from, yes, j, None)
  <2>1. FilesStep /\ (strayed = {} => JobsStep /\ (Present(j) => Accepted(j)'))
    <3>1. "queued" \in {"queued", "suspended", "held"} /\ "ready" = StateIn["queued"]
      BY DEF StateIn
    <3>2. file[j].at \in {"sendq", "gone"}
      BY <1>8 DEF Present
    <3> QED  BY <1>2, <1>3, <1>6, <1>8, <3>1, <3>2, JobWritten
  <2>2. strayed = {} /\ m.from \in online => Accepted(m.job)'
    BY <1>3, <1>8, <2>1
  <2> QED  BY <1>1, <1>5, <1>8, <2>1, <2>2, AnswersStep
<1>9. CASE /\ Present(j) /\ BuryJob(j, "failed") /\ Answers(m.from, no, j, "failed")
  <2>1. "failed" \in JobStates /\ "failed" \in Ended
    BY DEF JobStates, Ended
  <2>2. /\ FilesStep
        /\ strayed = {} => /\ JobsStep
                           /\ Present(j) \/ stage[j] # "unknown" =>
                                file'[j].at = "gone" \/ (file'[j].at = "doneq" /\ "failed" \in Ended)
    BY <1>2, <1>3, <1>6, <1>9, <2>1, JobBuried
  <2> QED  BY <1>1, <1>2, <1>3, <1>5, <1>9, <2>1, <2>2, AnswersStep
<1>10. CASE /\ stage[j] = "suspended" /\ ~Present(j)
            /\ BuryJob(j, "suspended") /\ Answers(m.from, no, j, "suspended")
  <2>1. "suspended" \in JobStates /\ "suspended" \notin Ended
    BY DEF JobStates, Ended
  <2>2. /\ FilesStep
        /\ strayed = {} => /\ JobsStep
                           /\ Present(j) \/ stage[j] # "unknown" =>
                                file'[j].at = "gone" \/ (file'[j].at = "doneq" /\ "suspended" \in Ended)
    BY <1>2, <1>3, <1>6, <1>10, <2>1, JobBuried
  <2> QED  BY <1>1, <1>2, <1>3, <1>5, <1>10, <2>1, <2>2, AnswersStep
<1>11. CASE Answers(m.from, no, j, None) /\ UNCHANGED <<stage, file, newer, strayed>>
  <2>1. FilesStep /\ (strayed = {} => JobsStep)
    BY <1>11, NothingDone
  <2> QED  BY <1>1, <1>5, <1>11, <2>1, AnswersStep
<1> QED  BY <1>3, <1>4, <1>7, <1>8, <1>9, <1>10, <1>11 DEF Submit

\* suspendJob and terminateJob do to the job what its owner has asked for.
LEMMA FinishFacts ==
  ASSUME Inv, NEW cmd \in {"X", "K"}, NEW j \in Jobs, NEW to, Finish(cmd, j, to),
         strayed = {} => stage[j] # "unknown" /\ Demanded(j)
  PROVE  /\ FilesStep /\ (strayed = {} => JobsStep)
         /\ \E state \in JobStates \cup {None} :
              /\ Answers(to, Ack(cmd, TRUE), j, state)
              /\ strayed = {} /\ state # None =>
                   file'[j].at = "gone" \/ (file'[j].at = "doneq" /\ state \in Ended)
<1>1. CASE /\ cmd = "X" /\ stage' = [stage EXCEPT ![j] = "suspended"] /\ WriteState(j, "suspended")
           /\ Answers(to, Ack(cmd, TRUE), j, None)
  <2>1. "suspended" \in {"queued", "suspended", "held"} /\ "suspended" = StateIn["suspended"]
    BY DEF StateIn
  <2>2. strayed = {} => file[j].at \in {"sendq", "gone"}
    BY DEF Inv, Queue
  <2>3. FilesStep /\ (strayed = {} => JobsStep)
    BY <1>1, <2>1, <2>2, JobWritten
  <2> QED  BY <1>1, <2>3
<1>2. CASE cmd = "K" /\ BuryJob(j, "failed") /\ Answers(to, Ack(cmd, TRUE), j, "failed")
  <2>1. "failed" \in JobStates /\ "failed" \in Ended
    BY DEF JobStates, Ended
  <2>2. /\ FilesStep
        /\ strayed = {} => /\ JobsStep
                           /\ Present(j) \/ stage[j] # "unknown" =>
                                file'[j].at = "gone" \/ (file'[j].at = "doneq" /\ "failed" \in Ended)
    BY <1>2, <2>1, JobBuried
  <2> QED  BY <1>2, <2>1, <2>2
<1> QED  BY <1>1, <1>2 DEF Finish

\* takes a job back,
LEMMA SuspendStep ==
  ASSUME Inv, NEW m, Hears(m), Suspend(m)
  PROVE  Inv'
<1>1. /\ fifo # <<>> /\ fifo' = Tail(fifo) /\ m = Head(fifo) /\ FaxqAlone
      /\ m.cmd \in {"X", "K"}
  BY DEF Hears, Suspend
<1>2. m.job \in Jobs /\ m.from \in Sessions /\ file[m.job].owner = m.from
  BY <1>1, NextRequest
<1>3. CASE Refuse(m.cmd, m.from) /\ waits' = waits
  BY <1>1, <1>3, RefuseStep
<1>4. CASE /\ stage[m.job] \in {"queued", "held", "suspended"} /\ Finish(m.cmd, m.job, m.from)
           /\ waits' = waits
  <2>1. PICK j, to, cmd : j = m.job /\ to = m.from /\ cmd = m.cmd
    OBVIOUS
  <2>2. j \in Jobs /\ cmd \in {"X", "K"} /\ Finish(cmd, j, to) /\ (strayed = {} => stage[j] # "unknown" /\ Demanded(j))
    BY <1>1, <1>2, <1>4, <2>1, HeardDemand
  <2>3. /\ FilesStep /\ (strayed = {} => JobsStep)
        /\ \E state \in JobStates \cup {None} :
             /\ Answers(to, Ack(cmd, TRUE), j, state)
             /\ strayed = {} /\ state # None =>
                  file'[j].at = "gone" \/ (file'[j].at = "doneq" /\ state \in Ended)
    BY <2>2, FinishFacts
  <2>4. PICK state \in JobStates \cup {None} :
          /\ Answers(to, Ack(cmd, TRUE), j, state)
          /\ strayed = {} /\ state # None =>
               file'[j].at = "gone" \/ (file'[j].at = "doneq" /\ state \in Ended)
    BY <2>3
  <2>5. PICK answer : answer = Ack(cmd, TRUE)
    OBVIOUS
  <2>6. answer \in ReplyType /\ answer.cmd = m.cmd /\ m.cmd # "D" /\ m.cmd # "S"
    BY <1>1, <2>1, <2>5, AckIsReply
  <2>7. Answers(m.from, answer, j, state)
    BY <2>1, <2>4, <2>5
  <2> QED  BY <1>4, <2>2, <2>3, <2>4, <2>6, <2>7, AnswersStep
<1>5. CASE /\ waits' = Append(waits, [cmd |-> m.cmd, job |-> m.job, from |-> m.from, over |-> FALSE])
           /\ UNCHANGED <<stage, file, newer, inbox, triggers, strayed>>
  <2> DEFINE w == [cmd |-> m.cmd, job |-> m.job, from |-> m.from, over |-> FALSE]
  <2>1. /\ w \in WaitType /\ w.cmd = m.cmd /\ w.job = m.job /\ w.from = m.from
        /\ waits' = Append(waits, w)
    BY <1>1, <1>2, <1>5 DEF WaitType
  <2> HIDE DEF w
  <2>2. FilesStep /\ (strayed = {} => JobsStep)
    BY <1>5, NothingDone
  <2>3. /\ Typed /\ waits \in Seq(WaitType) /\ inbox \in [Sessions -> Seq(MessageType)]
        /\ triggers \in [Tids -> TriggerType \cup {None}] /\ OwnedThere
    BY DEF Inv, Typed
  <2>4. /\ waits' \in Seq(WaitType)
        /\ \A i \in DOMAIN waits' :
             \/ i \in DOMAIN waits /\ waits'[i] = waits[i]
             \/ i = Len(waits) + 1 /\ waits'[i] = w
    <3>1. PICK q : q = waits
      OBVIOUS
    <3>2. q \in Seq(WaitType) /\ waits' = Append(q, w)
      BY <2>1, <2>3, <3>1
    <3>3. /\ Append(q, w) \in Seq(WaitType) /\ Len(q) \in Nat /\ DOMAIN q = 1..Len(q)
          /\ DOMAIN Append(q, w) = 1..(Len(q) + 1)
          /\ \A i \in 1..Len(q) : Append(q, w)[i] = q[i]
          /\ Append(q, w)[Len(q) + 1] = w
      BY <2>1, <3>2, AppendFacts
    <3>4. ASSUME NEW i \in 1..(Len(q) + 1) PROVE i \in 1..Len(q) \/ i = Len(q) + 1
      BY <3>3
    <3>5. \A i \in DOMAIN Append(q, w) :
             \/ i \in DOMAIN q /\ Append(q, w)[i] = q[i]
             \/ i = Len(q) + 1 /\ Append(q, w)[i] = w
      BY <3>3, <3>4
    <3> QED  BY <3>1, <3>2, <3>3, <3>5
  <2>5. \A i \in DOMAIN waits' : file[waits'[i].job].owner = waits'[i].from
    BY <1>2, <2>1, <2>3, <2>4 DEF OwnedThere
  <2>6. /\ fifo' \in Seq(RequestType) /\ DOMAIN fifo \subseteq Nat
        /\ \A i \in DOMAIN fifo' : i \in Nat /\ i + 1 \in DOMAIN fifo /\ fifo'[i] = fifo[i + 1]
        /\ \A i \in DOMAIN fifo' : \E k \in DOMAIN fifo : fifo'[i] = fifo[k]
    BY <1>1, NextRequest
  <2>7. ASSUME strayed = {}, NEW s \in Sessions, s \in online PROVE RequestsOf(s)'
    <3>1. CASE s = m.from
      <4>1. /\ Requested(s, m.cmd, m.job) /\ \A i \in DOMAIN fifo' : ~By(fifo'[i], s)
            /\ \A i \in DOMAIN waits : waits[i].from # s
            /\ \A i \in DOMAIN inbox[s] : ~IsAnswer(inbox[s][i])
        BY <1>1, <2>7, <3>1, HeardRequest
      <4>2. \A i \in DOMAIN waits' :
               waits'[i].from = s => i = Len(waits) + 1 /\ waits'[i].cmd = m.cmd /\ waits'[i].job = m.job
        BY <2>1, <2>4, <4>1
      <4>3. \A i, k \in DOMAIN waits' : waits'[i].from = s /\ waits'[k].from = s => k = i
        BY <4>2
      <4>4. \A i \in DOMAIN inbox'[s] : ~IsAnswer(inbox'[s][i])
        BY <1>5, <4>1
      <4> QED  BY <1>1, <4>1, <4>2, <4>3, <4>4, RequestIsHeld
    <3>2. CASE s # m.from
      <4>1. \A i \in DOMAIN waits' : waits'[i].from = s =>
              i \in DOMAIN waits /\ waits[i].from = s /\ waits'[i].cmd = waits[i].cmd
              /\ waits'[i].job = waits[i].job
        BY <2>1, <2>4, <3>2
      <4>2. RequestsOf(s)
        BY <2>7 DEF Inv, Sound
      <4>3. \A i \in DOMAIN inbox'[s] : IsAnswer(inbox'[s][i]) =>
              i \in DOMAIN inbox[s] /\ inbox'[s][i] = inbox[s][i]
        BY <1>5
      <4> QED  BY <1>1, <2>6, <4>1, <4>2, <4>3, RequestsStay
    <3> QED  BY <3>1, <3>2
  <2>8. \A s \in Sessions : Mail(s, None, None, None, None)
    BY <1>5 DEF Mail
  <2>9. /\ inbox' \in [Sessions -> Seq(MessageType)] /\ triggers' \in [Tids -> TriggerType \cup {None}]
        /\ \A t \in Tids, s \in Sessions, k \in Jobs :
             triggers'[t] = [by |-> s, job |-> k] => file[k].owner = s
    BY <1>5, <2>3 DEF OwnedThere
  <2>10. None \notin Sessions /\ None \notin online
    BY <2>3, NoneIsNobody DEF Typed
  <2> QED  BY <1>1, <2>2, <2>4, <2>5, <2>6, <2>7, <2>8, <2>9, <2>10, FaxqStep
<1> QED  BY <1>3, <1>4, <1>5 DEF Suspend

\* registers a trigger,
LEMMA CreateTriggerStep ==
  ASSUME Inv, NEW m, Hears(m), CreateTrigger(m)
  PROVE  Inv'
<1>1. /\ fifo # <<>> /\ fifo' = Tail(fifo) /\ m = Head(fifo) /\ FaxqAlone
      /\ m.cmd = "T" /\ waits' = waits /\ UNCHANGED <<stage, file, newer, strayed>>
  BY DEF Hears, CreateTrigger
<1>2. m.job \in Jobs /\ m.from \in Sessions /\ file[m.job].owner = m.from
  BY <1>1, NextRequest
<1>3. Typed /\ OwnedThere /\ FilesStep /\ (strayed = {} => JobsStep)
  BY <1>1, NothingDone DEF Inv
<1>4. CASE Refuse("T", m.from)
  <2>1. Ack("T", FALSE) \in ReplyType /\ Ack("T", FALSE).cmd = "T"
    BY DEF Ack, ReplyType
  <2>2. PICK answer : answer = Ack("T", FALSE)
    OBVIOUS
  <2>3. answer \in ReplyType /\ answer.cmd = m.cmd /\ m.cmd # "D" /\ m.cmd # "S"
    BY <1>1, <2>1, <2>2
  <2>4. Answers(m.from, answer, None, None)
    BY <1>4, <2>2 DEF Refuse
  <2> QED  BY <1>1, <1>3, <2>3, <2>4, AnswersStep
<1>5. ASSUME NEW t \in Tids,
             triggers' = [triggers EXCEPT ![t] = [by |-> m.from, job |-> m.job]],
             inbox' = [s \in Sessions |->
               IF s = m.from /\ s \in online
               THEN Append(inbox[s], [cmd |-> "T", ok |-> TRUE, tid |-> t]) ELSE inbox[s]]
      PROVE  Inv'
  <2>1. PICK answer : answer = [cmd |-> "T", ok |-> TRUE, tid |-> t]
    OBVIOUS
  <2>2. answer \in ReplyType /\ answer \in MessageType /\ answer.cmd = m.cmd /\ m.cmd # "D" /\ m.cmd # "S"
    BY <1>1, <2>1 DEF ReplyType, MessageType
  <2>3. ASSUME NEW s \in Sessions
        PROVE  inbox'[s] \in Seq(MessageType) /\ Mail(s, m.from, answer, None, None)
    <3>1. inbox[s] \in Seq(MessageType)
      BY <1>3 DEF Typed
    <3>2. CASE s = m.from /\ s \in online
      <4>1. PICK q, r : q = inbox[s] /\ r = inbox'[s]
        OBVIOUS
      <4>2. q \in Seq(MessageType) /\ r = Append(q, answer)
        BY <1>5, <2>1, <3>1, <3>2, <4>1
      <4>3. /\ r \in Seq(MessageType) /\ Len(r) = Len(q) + 1 /\ Len(q) \in Nat
            /\ DOMAIN q = 1..Len(q) /\ DOMAIN r = 1..(Len(q) + 1)
            /\ \A i \in 1..Len(q) : r[i] = q[i]
            /\ r[Len(q) + 1] = answer
        BY <2>2, <4>2, AppendFacts
      <4>4. ASSUME NEW i \in 1..(Len(q) + 1) PROVE i \in 1..Len(q) \/ i = Len(q) + 1
        BY <4>3
      <4>5. \A i \in DOMAIN r : (i \in DOMAIN q /\ r[i] = q[i]) \/ (r[i] = answer /\ i = Len(r))
        BY <4>3, <4>4
      <4> QED  BY <3>2, <4>1, <4>3, <4>5 DEF Mail
    <3>3. CASE ~(s = m.from /\ s \in online)
      <4>1. inbox'[s] = inbox[s]
        BY <1>5, <3>3
      <4> QED  BY <3>1, <4>1 DEF Mail
    <3> QED  BY <3>2, <3>3
  <2>4. inbox' \in [Sessions -> Seq(MessageType)]
    <3>1. inbox' = [s \in Sessions |-> inbox'[s]]
      BY <1>5
    <3> QED  BY <2>3, <3>1
  <2>5. triggers \in [Tids -> TriggerType \cup {None}]
    BY <1>3 DEF Typed
  <2>6. [by |-> m.from, job |-> m.job] \in TriggerType
    BY <1>2 DEF TriggerType
  <2>7. triggers' \in [Tids -> TriggerType \cup {None}]
    BY <1>5, <2>5, <2>6
  <2>8. \A u \in Tids, s \in Sessions, k \in Jobs :
          triggers'[u] = [by |-> s, job |-> k] => file[k].owner = s
    <3>1. ASSUME NEW u \in Tids, NEW s \in Sessions, NEW k \in Jobs, triggers'[u] = [by |-> s, job |-> k]
          PROVE  file[k].owner = s
      <4>1. CASE u = t
        <5>1. triggers'[u] = [by |-> m.from, job |-> m.job]
          BY <1>5, <2>5, <4>1
        <5>2. m.from = s /\ m.job = k
          BY <3>1, <5>1
        <5> QED  BY <1>2, <5>2
      <4>2. CASE u # t
        <5>1. triggers'[u] = triggers[u]
          BY <1>5, <2>5, <4>2
        <5> QED  BY <1>3, <3>1, <5>1 DEF OwnedThere
      <4> QED  BY <4>1, <4>2
    <3> QED  BY <3>1
  <2>9. \A s \in Sessions : Mail(s, m.from, answer, None, None)
    BY <2>3
  <2> QED  BY <1>1, <1>3, <2>2, <2>4, <2>7, <2>8, <2>9, AnswerStep
<1>6. CASE ~Refuse("T", m.from)
  <2>1. PICK t \in Tids :
             /\ triggers' = [triggers EXCEPT ![t] = [by |-> m.from, job |-> m.job]]
             /\ inbox' = [s \in Sessions |->
                  IF s = m.from /\ s \in online
                  THEN Append(inbox[s], [cmd |-> "T", ok |-> TRUE, tid |-> t]) ELSE inbox[s]]
    BY <1>6 DEF CreateTrigger
  <2> QED  BY <1>5, <2>1
<1> QED  BY <1>4, <1>6

\* answers the other requests,
LEMMA OtherRequestStep ==
  ASSUME Inv, NEW m, Hears(m), OtherRequest(m)
  PROVE  Inv'
<1>1. /\ fifo # <<>> /\ fifo' = Tail(fifo) /\ m = Head(fifo) /\ FaxqAlone
      /\ waits' = waits /\ UNCHANGED <<stage, file, newer, strayed>>
  BY DEF Hears, OtherRequest
<1>2. Typed /\ OwnedThere /\ FilesStep /\ (strayed = {} => JobsStep)
  BY <1>1, NothingDone DEF Inv
<1>3. CASE m.cmd = "U" /\ Answers(m.from, Ack("U", TRUE), None, None)
  <2>1. PICK answer : answer = Ack("U", TRUE)
    OBVIOUS
  <2>2. answer \in ReplyType /\ answer.cmd = m.cmd /\ m.cmd # "D" /\ m.cmd # "S"
    BY <1>3, <2>1, AckIsReply
  <2>3. Answers(m.from, answer, None, None)
    BY <1>3, <2>1
  <2> QED  BY <1>1, <1>2, <2>2, <2>3, AnswersStep
<1>4. CASE m.cmd = "D" /\ triggers' = [triggers EXCEPT ![m.tid] = None] /\ inbox' = inbox
  <2>1. /\ fifo' \in Seq(RequestType) /\ m.tid \in Tids
        /\ \A i \in DOMAIN fifo' : \E k \in DOMAIN fifo : fifo'[i] = fifo[k]
    BY <1>1, <1>4, NextRequest
  <2>2. /\ waits' \in Seq(WaitType) /\ inbox' \in [Sessions -> Seq(MessageType)]
        /\ triggers' \in [Tids -> TriggerType \cup {None}]
        /\ \A i \in DOMAIN waits' : file[waits'[i].job].owner = waits'[i].from
    BY <1>1, <1>2, <1>4 DEF Typed, OwnedThere
  <2>3. \A t \in Tids, s \in Sessions, k \in Jobs :
          triggers'[t] = [by |-> s, job |-> k] => file[k].owner = s
    <3>1. ASSUME NEW t \in Tids, NEW s \in Sessions, NEW k \in Jobs, triggers'[t] = [by |-> s, job |-> k]
          PROVE  file[k].owner = s
      <4>1. triggers'[t] = triggers[t] \/ triggers'[t] = None
        BY <1>2, <1>4 DEF Typed
      <4>2. CASE triggers'[t] = triggers[t]
        BY <1>2, <3>1, <4>2 DEF OwnedThere
      <4>3. CASE triggers'[t] = None
        BY <3>1, <4>3, NoneIsNobody
      <4> QED  BY <4>1, <4>2, <4>3
    <3> QED  BY <3>1
  <2>4. \A s \in Sessions : Mail(s, None, None, None, None)
    BY <1>4 DEF Mail
  <2>5. None \notin Sessions /\ None \notin online
    BY <1>2, NoneIsNobody DEF Typed
  <2>6. strayed = {} => \A s \in Sessions : s \in online => RequestsOf(s)'
    BY <1>1, <1>4, NoneAnswered
  <2> QED  BY <1>1, <1>2, <2>1, <2>2, <2>3, <2>4, <2>5, <2>6, FaxqStep
<1> QED  BY <1>3, <1>4 DEF OtherRequest

\* and so every request.
LEMMA FIFOMessageStep ==
  ASSUME Inv, FIFOMessage
  PROVE  Inv'
<1>1. PICK m : m = Head(fifo)
  OBVIOUS
<1>2. Submit(m) \/ Suspend(m) \/ CreateTrigger(m) \/ OtherRequest(m)
  BY <1>1 DEF FIFOMessage
<1>3. Hears(m)
  BY <1>1 DEF FIFOMessage, Hears, FaxqAlone, waitVars
<1> QED  BY <1>2, <1>3, SubmitStep, SuspendStep, CreateTriggerStep, OtherRequestStep

\* A command that waited in suspendJob is answered.
LEMMA WaitStep ==
  ASSUME Inv, FaxqAlone, fifo' = fifo, waits # <<>>, waits' = Front(waits), NEW w, w = Last(waits),
         FilesStep, strayed = {} => JobsStep,
         NEW answer \in ReplyType, answer.cmd = w.cmd,
         NEW j, NEW state, state # None => j \in Jobs /\ state \in JobStates,
         Answers(w.from, answer, j, state),
         strayed = {} /\ state # None =>
           file'[j].at = "gone" \/ (file'[j].at = "doneq" /\ state \in Ended)
  PROVE  Inv'
<1>1. PICK to : to = w.from
  OBVIOUS
<1>2. Typed /\ OwnedThere /\ Answers(to, answer, j, state)
  BY <1>1 DEF Inv
<1>3. /\ inbox' \in [Sessions -> Seq(MessageType)] /\ triggers' \in [Tids -> TriggerType \cup {None}]
      /\ \A s \in Sessions : Mail(s, to, answer, j, state)
      /\ \A t \in Tids, s \in Sessions, k \in Jobs :
           triggers'[t] = [by |-> s, job |-> k] => file[k].owner = s
  BY <1>2, AnswersFacts
<1>4. /\ w.cmd \in {"X", "K"} /\ waits' \in Seq(WaitType)
      /\ \A i \in DOMAIN waits' : i \in DOMAIN waits /\ waits'[i] = waits[i]
  BY LastWait
<1>5. \A i \in DOMAIN waits' : file[waits'[i].job].owner = waits'[i].from
  BY <1>2, <1>4 DEF OwnedThere
<1>6. fifo' \in Seq(RequestType) /\ \A i \in DOMAIN fifo' : \E k \in DOMAIN fifo : fifo'[i] = fifo[k]
  BY <1>2 DEF Typed
<1>7. answer.cmd # "event" /\ answer.cmd # "S"
  BY <1>4
<1>8. strayed = {} => \A s \in Sessions : s \in online => RequestsOf(s)'
  <2>1. \A s \in Sessions : Mail(s, w.from, answer, j, state)
    BY <1>1, <1>3
  <2> QED  BY <2>1, WaitAnswered
<1> QED  BY <1>3, <1>4, <1>5, <1>6, <1>7, <1>8, FaxqStep

\* A job in use ends, and the request that waited for it is answered.
LEMMA SuspendReturnsStep ==
  ASSUME Inv, SuspendReturns
  PROVE  Inv'
<1>1. PICK w : w = Last(waits)
  OBVIOUS
<1>2. /\ FaxqAlone /\ fifo' = fifo /\ waits # <<>> /\ waits' = Front(waits)
      /\ IF stage[w.job] = "unknown" THEN Refuse(w.cmd, w.from) ELSE Finish(w.cmd, w.job, w.from)
  BY <1>1 DEF SuspendReturns, FaxqAlone, waitVars
<1>3. /\ w.job \in Jobs /\ w.from \in Sessions /\ w.cmd \in {"X", "K"} /\ file[w.job].owner = w.from
      /\ Len(waits) \in DOMAIN waits /\ waits[Len(waits)] = w
  BY <1>1, <1>2, LastWait
<1>4. PICK j, to, cmd : j = w.job /\ to = w.from /\ cmd = w.cmd
  OBVIOUS
<1>5. PICK yes, no : yes = Ack(cmd, TRUE) /\ no = Ack(cmd, FALSE)
  OBVIOUS
<1>6. yes \in ReplyType /\ yes.cmd = w.cmd /\ no \in ReplyType /\ no.cmd = w.cmd
  BY <1>3, <1>4, <1>5, AckIsReply
<1>7. CASE Refuse(cmd, to)
  <2>1. FilesStep /\ (strayed = {} => JobsStep)
    BY <1>7, NothingDone DEF Refuse
  <2>2. Answers(w.from, no, None, None)
    BY <1>4, <1>5, <1>7 DEF Refuse
  <2> QED  BY <1>1, <1>2, <1>6, <2>1, <2>2, WaitStep
<1>8. CASE stage[j] # "unknown" /\ Finish(cmd, j, to)
  <2>1. strayed = {} => Demanded(j)
    <3>1. ASSUME strayed = {}, w.from \in online PROVE Requested(w.from, w.cmd, w.job)
      <4>1. PICK s \in Sessions : s = w.from
        BY <1>3
      <4>2. RequestsOf(s)
        BY <3>1, <4>1 DEF Inv, Sound
      <4> QED  BY <1>3, <4>1, <4>2 DEF RequestsOf
    <3> QED  BY <1>3, <1>4, <3>1 DEF Demanded
  <2>2. j \in Jobs /\ cmd \in {"X", "K"}
    BY <1>3, <1>4
  <2>3. /\ FilesStep /\ (strayed = {} => JobsStep)
        /\ \E state \in JobStates \cup {None} :
             /\ Answers(to, Ack(cmd, TRUE), j, state)
             /\ strayed = {} /\ state # None =>
                  file'[j].at = "gone" \/ (file'[j].at = "doneq" /\ state \in Ended)
    BY <1>8, <2>1, <2>2, FinishFacts
  <2>4. PICK state \in JobStates \cup {None} :
          /\ Answers(to, Ack(cmd, TRUE), j, state)
          /\ strayed = {} /\ state # None =>
               file'[j].at = "gone" \/ (file'[j].at = "doneq" /\ state \in Ended)
    BY <2>3
  <2>5. Answers(w.from, yes, j, state)
    BY <1>4, <1>5, <2>4
  <2> QED  BY <1>1, <1>2, <1>6, <2>2, <2>3, <2>4, <2>5, WaitStep
<1> QED  BY <1>2, <1>4, <1>7, <1>8

\* A step of faxq that answers no request, with the waits as they were.
LEMMA UnaskedStep ==
  ASSUME Inv, FaxqAlone, fifo' = fifo, FilesStep, strayed = {} => JobsStep,
         waits' \in Seq(WaitType),
         \A i \in DOMAIN waits' :
           /\ i \in DOMAIN waits /\ waits'[i].from = waits[i].from
           /\ waits'[i].cmd = waits[i].cmd /\ waits'[i].job = waits[i].job,
         NEW j, NEW state, state # None => j \in Jobs /\ state \in JobStates,
         Answers(None, None, j, state) \/ (state = None /\ UNCHANGED <<inbox, triggers>>),
         strayed = {} /\ state # None =>
           file'[j].at = "gone" \/ (file'[j].at = "doneq" /\ state \in Ended)
  PROVE  Inv'
<1>1. Typed /\ OwnedThere /\ None \notin Sessions /\ None \notin online
  BY NoneIsNobody DEF Inv, Typed
<1>2. /\ inbox' \in [Sessions -> Seq(MessageType)] /\ triggers' \in [Tids -> TriggerType \cup {None}]
      /\ \A s \in Sessions : Mail(s, None, None, j, state)
      /\ \A t \in Tids, s \in Sessions, k \in Jobs :
           triggers'[t] = [by |-> s, job |-> k] => file[k].owner = s
  <2>1. CASE Answers(None, None, j, state)
    BY <1>1, <2>1, AnswersFacts
  <2>2. CASE UNCHANGED <<inbox, triggers>>
    BY <1>1, <2>2 DEF Typed, OwnedThere, Mail
  <2> QED  BY <2>1, <2>2
<1>3. \A i \in DOMAIN waits' : file[waits'[i].job].owner = waits'[i].from
  BY <1>1 DEF OwnedThere
<1>4. fifo' \in Seq(RequestType) /\ \A i \in DOMAIN fifo' : \E k \in DOMAIN fifo : fifo'[i] = fifo[k]
  BY <1>1 DEF Typed
<1>5. ASSUME strayed = {}, NEW s \in Sessions, s \in online PROVE RequestsOf(s)'
  <2>1. ~IsAnswer([cmd |-> "event", job |-> j, state |-> state])
    BY DEF IsAnswer, Letters
  <2>2. Mail(s, None, None, j, state) /\ s # None
    BY <1>1, <1>2
  <2>3. \A i \in DOMAIN inbox'[s] : IsAnswer(inbox'[s][i]) =>
           i \in DOMAIN inbox[s] /\ inbox'[s][i] = inbox[s][i]
    BY <2>1, <2>2 DEF Mail
  <2> QED  BY <1>5, <2>3, NoneAnswered
<1> QED  BY <1>1, <1>2, <1>3, <1>4, <1>5, FaxqStep

\* A job goes to a subprocess.
LEMMA JobStarted ==
  ASSUME Inv, NEW j \in Jobs, Present(j), stage[j] = "queued",
         stage' = [stage EXCEPT ![j] = "active"],
         file' = [file EXCEPT ![j] = [@ EXCEPT !.state = "active", !.imaged = TRUE, !.calls = file[j].calls + 1]],
         Noticed(j)
  PROVE  FilesStep /\ (strayed = {} => JobsStep)
<1>1. Typed /\ file[j] \in FileType
  BY FileFacts DEF Inv
<1> DEFINE g == [file[j] EXCEPT !.state = "active", !.imaged = TRUE, !.calls = file[j].calls + 1]
<1>2. /\ g \in FileType /\ g.state = "active" /\ g.at = "sendq" /\ g.rev = file[j].rev
      /\ g.owner = file[j].owner
  <2>1. PICK f \in FileType : f = file[j]
    BY <1>1
  <2>2. PICK n \in Nat : n = f.calls + 1
    BY DEF FileType
  <2>3. "active" \in JobStates /\ f.at = "sendq"
    BY <2>1 DEF Present, JobStates
  <2>4. g = [f EXCEPT !.state = "active", !.imaged = TRUE, !.calls = n]
    BY <2>1, <2>2
  <2> HIDE DEF g
  <2> QED  BY <2>1, <2>3, <2>4 DEF FileType
<1>3. file' = [file EXCEPT ![j] = g]
  OBVIOUS
<1> HIDE DEF g
<1>4. file' \in [Jobs -> FileType] /\ file'[j] = g /\ \A k \in Jobs \ {j} : file'[k] = file[k]
  BY <1>1, <1>2, <1>3 DEF Typed
<1>5. /\ newer' \subseteq Sessions \X Jobs /\ newer \subseteq newer'
      /\ strayed \subseteq strayed' /\ strayed' \subseteq Strays /\ Seen(j)
  BY <1>1, NoticedFacts
<1>6. stage' \in [Jobs -> Stages] /\ stage'[j] = "active" /\ \A k \in Jobs \ {j} : stage'[k] = stage[k]
  BY <1>1 DEF Typed, Stages
<1>7. ASSUME NEW k \in Jobs
      PROVE  \/ file'[k] = file[k]
             \/ /\ Present(k) /\ file'[k].owner = file[k].owner /\ file'[k].rev = file[k].rev
                /\ file'[k].at \in {"sendq", "doneq"}
                /\ Seen(k)
  <2>1. CASE k = j
    BY <1>2, <1>4, <1>5, <2>1
  <2>2. CASE k # j
    BY <1>4, <2>2
  <2> QED  BY <2>1, <2>2
<1>8. FilesStep
  BY <1>4, <1>5, <1>6, <1>7 DEF FilesStep
<1>9. ASSUME strayed = {} PROVE JobsStep
  <2>1. "active" = StateIn["active"] /\ StateIn["queued"] = "ready"
    BY DEF StateIn
  <2>2. ~AtRest(j)
    BY <1>9, <2>1 DEF AtRest, Inv, Queue, Present
  <2>3. file'[j].at = "sendq" /\ file'[j].state = StateIn[stage'[j]] /\ Accepted(j)'
    BY <1>2, <1>4, <1>6, <2>1 DEF Accepted, Present
  <2> QED  BY <1>4, <1>6, <1>8, <1>9, <2>2, <2>3, OneJob
<1> QED  BY <1>8, <1>9

\* A sendable job starts,
LEMMA StartJobStep ==
  ASSUME Inv, NEW j \in Jobs, StartJob(j)
  PROVE  Inv'
<1>1. /\ FaxqAlone /\ fifo' = fifo /\ waits' = waits /\ stage[j] = "queued"
  BY DEF StartJob, FaxqAlone, waitVars
<1>2. waits' \in Seq(WaitType)
  BY <1>1 DEF Inv, Typed
<1>3. CASE Present(j)
  <2>1. FilesStep /\ (strayed = {} => JobsStep)
    BY <1>1, <1>3, JobStarted DEF StartJob
  <2>2. UNCHANGED <<inbox, triggers>>
    BY <1>3 DEF StartJob
  <2> QED  BY <1>1, <1>2, <2>1, <2>2, UnaskedStep
<1>4. CASE ~Present(j)
  <2>1. BuryJob(j, "ready") /\ Answers(None, None, j, "ready")
    BY <1>4 DEF StartJob
  <2>2. "ready" \in JobStates /\ ~AtRest(j)
    BY <1>4 DEF JobStates, AtRest, Present
  <2>3. /\ FilesStep
        /\ strayed = {} => /\ JobsStep
                           /\ Present(j) \/ stage[j] # "unknown" =>
                                file'[j].at = "gone" \/ (file'[j].at = "doneq" /\ "ready" \in Ended)
    BY <1>4, <2>1, <2>2, JobBuried
  <2> QED  BY <1>1, <1>2, <2>1, <2>2, <2>3, UnaskedStep
<1> QED  BY <1>3, <1>4

\* and ends.
LEMMA EndJobStep ==
  ASSUME Inv, NEW j \in Jobs, EndJob(j)
  PROVE  Inv'
<1>1. /\ FaxqAlone /\ fifo' = fifo /\ stage[j] = "active"
      /\ waits' = [i \in DOMAIN waits |-> IF waits[i].job = j THEN [waits[i] EXCEPT !.over = TRUE] ELSE waits[i]]
  BY DEF EndJob, FaxqAlone, waitVars
<1>2. /\ waits' \in Seq(WaitType)
      /\ \A i \in DOMAIN waits' :
           /\ i \in DOMAIN waits /\ waits'[i].from = waits[i].from
           /\ waits'[i].cmd = waits[i].cmd /\ waits'[i].job = waits[i].job
  <2>1. waits \in Seq(WaitType)
    BY DEF Inv, Typed
  <2>2. ASSUME NEW i \in DOMAIN waits, NEW w, w = waits[i],
               NEW v, v = IF w.job = j THEN [w EXCEPT !.over = TRUE] ELSE w
        PROVE  v \in WaitType /\ v.from = w.from /\ v.cmd = w.cmd /\ v.job = w.job
    <3>1. w \in WaitType
      BY <2>1, <2>2, LenProperties, ElementOfSeq
    <3> QED  BY <2>2, <3>1 DEF WaitType
  <2>3. DOMAIN waits = 1..Len(waits) /\ Len(waits) \in Nat /\ DOMAIN waits' = DOMAIN waits
    BY <1>1, <2>1, LenProperties
  <2>4. \A i \in DOMAIN waits :
           waits'[i] \in WaitType /\ waits'[i].from = waits[i].from
           /\ waits'[i].cmd = waits[i].cmd /\ waits'[i].job = waits[i].job
    BY <1>1, <2>2
  <2>5. PICK q, n : q = waits' /\ n = Len(waits)
    OBVIOUS
  <2>6. n \in Nat /\ DOMAIN q = 1..n /\ q = [i \in DOMAIN q |-> q[i]] /\ \A i \in 1..n : q[i] \in WaitType
    BY <1>1, <2>3, <2>4, <2>5
  <2>7. waits' \in Seq(WaitType)
    BY <2>5, <2>6, MapFacts
  <2> QED  BY <2>3, <2>4, <2>7
<1>3. strayed = {} => ~AtRest(j) /\ file[j].at \in {"sendq", "gone"}
  BY <1>1 DEF Inv, Queue, AtRest, StateIn, Present
<1>4. ASSUME NEW state \in Ended, BuryJob(j, state), Answers(None, None, j, state)
      PROVE  Inv'
  <2>1. state \in JobStates
    BY DEF JobStates
  <2>2. /\ FilesStep
        /\ strayed = {} => /\ JobsStep
                           /\ Present(j) \/ stage[j] # "unknown" =>
                                file'[j].at = "gone" \/ (file'[j].at = "doneq" /\ state \in Ended)
    BY <1>3, <1>4, <2>1, JobBuried
  <2> QED  BY <1>1, <1>2, <1>4, <2>1, <2>2, UnaskedStep
<1>5. ASSUME WriteState(j, "ready"), UNCHANGED <<inbox, triggers>>,
             NEW st \in {"held", "queued"}, stage' = [stage EXCEPT ![j] = st]
      PROVE  Inv'
  <2>1. st \in {"queued", "suspended", "held"} /\ "ready" = StateIn[st]
    BY DEF StateIn
  <2>2. FilesStep /\ (strayed = {} => JobsStep)
    BY <1>3, <1>5, <2>1, JobWritten
  <2> QED  BY <1>1, <1>2, <1>5, <2>2, UnaskedStep
<1> QED  BY <1>4, <1>5 DEF EndJob

\* faxq is started again: it knows the jobs by their files.
LEMMA RestartStep ==
  ASSUME Inv, Restart
  PROVE  Inv'
<1>1. /\ FaxqAlone /\ fifo' = fifo /\ waits' = <<>> /\ UNCHANGED <<file, newer, strayed>>
      /\ triggers' = [t \in Tids |-> None] /\ \A j \in Jobs : stage[j] # "active"
      /\ stage' = [j \in Jobs |-> IF ~Present(j) \/ file[j].state \in Ended THEN "unknown"
                                  ELSE IF file[j].state = "suspended" THEN "suspended" ELSE "queued"]
  BY DEF Restart, FaxqAlone, waitVars, copyVars
<1>2. Typed /\ OwnedThere
  BY DEF Inv
<1>3. FilesStep
  BY <1>1, <1>2 DEF FilesStep, Typed, Stages
<1>4. ASSUME strayed = {} PROVE JobsStep
  <2>1. Queue
    BY <1>4 DEF Inv
  <2>2. ASSUME NEW j \in Jobs
        PROVE  /\ file'[j].at = "sendq" => file'[j].state = StateIn[stage'[j]]
               /\ stage'[j] # "unknown" => file'[j].at \in {"sendq", "gone"}
               /\ file'[j].at = "doneq" => file'[j].state \in Ended
               /\ Accepted(j) => Accepted(j)'
               /\ AtRest(j) => AtRest(j)'
    <3>1. file'[j] = file[j] /\ stage[j] \in Stages /\ stage[j] # "active"
      BY <1>1, <1>2 DEF Typed
    <3>2. Present(j) => file[j].state = StateIn[stage[j]]
      BY <2>1 DEF Queue
    <3>3. StateIn[stage[j]] \in {"suspended", "ready"}
      BY <3>1 DEF Stages, StateIn
    <3>4. Present(j) => file[j].state \in {"suspended", "ready"} /\ file[j].state \notin Ended
      BY <3>2, <3>3 DEF Ended
    <3>5. stage'[j] = IF ~Present(j) \/ file[j].state \in Ended THEN "unknown"
                      ELSE IF file[j].state = "suspended" THEN "suspended" ELSE "queued"
      BY <1>1
    <3>6. Present(j) => stage'[j] # "unknown" /\ StateIn[stage'[j]] = file[j].state
      BY <3>4, <3>5 DEF StateIn
    <3>7. ~Present(j) => stage'[j] = "unknown"
      BY <3>5
    <3>8. file[j].at = "doneq" => file[j].state \in Ended
      BY <2>1 DEF Queue
    <3> QED  BY <3>1, <3>6, <3>7, <3>8 DEF Accepted, AtRest, Present
  <2>3. Queue'
    BY <2>2 DEF Queue, Present
  <2> QED  BY <2>2, <2>3 DEF JobsStep
<1>5. PICK hello : hello = [cmd |-> "H", ok |-> FALSE]
  OBVIOUS
<1>6. hello \in MessageType /\ hello.cmd # "event" /\ hello.cmd # "S" /\ ~IsAnswer(hello)
  BY <1>5 DEF MessageType, ReplyType, IsAnswer, Letters
<1>7. ASSUME NEW s \in Sessions
      PROVE  inbox'[s] \in Seq(MessageType) /\ Mail(s, s, hello, None, None)
  <2>1. inbox'[s] = IF s \in online THEN Append(inbox[s], hello) ELSE <<>>
    BY <1>5 DEF Restart
  <2>2. CASE s \in online
    <3>1. PICK q, r : q = inbox[s] /\ r = inbox'[s]
      OBVIOUS
    <3>2. q \in Seq(MessageType) /\ r = Append(q, hello)
      BY <1>2, <2>1, <2>2, <3>1 DEF Typed
    <3>3. /\ r \in Seq(MessageType) /\ Len(r) = Len(q) + 1 /\ Len(q) \in Nat
          /\ DOMAIN q = 1..Len(q) /\ DOMAIN r = 1..(Len(q) + 1)
          /\ \A i \in 1..Len(q) : r[i] = q[i]
          /\ r[Len(q) + 1] = hello
      BY <1>6, <3>2, AppendFacts
    <3>4. ASSUME NEW i \in 1..(Len(q) + 1) PROVE i \in 1..Len(q) \/ i = Len(q) + 1
      BY <3>3
    <3>5. \A i \in DOMAIN r : (i \in DOMAIN q /\ r[i] = q[i]) \/ (r[i] = hello /\ i = Len(r))
      BY <3>3, <3>4
    <3> QED  BY <3>1, <3>3, <3>5 DEF Mail
  <2>3. CASE s \notin online
    <3>1. inbox'[s] = <<>> /\ DOMAIN inbox'[s] = {}
      BY <2>1, <2>3
    <3> QED  BY <3>1, NoneFacts DEF Mail
  <2> QED  BY <2>2, <2>3
<1>8. inbox' \in [Sessions -> Seq(MessageType)]
  <2>1. inbox' = [s \in Sessions |-> inbox'[s]]
    BY DEF Restart
  <2> QED  BY <1>7, <2>1
<1>9. waits' \in Seq(WaitType) /\ DOMAIN waits' = {}
  BY <1>1, NoneFacts
<1>10. Typed'
  <2>1. triggers' \in [Tids -> TriggerType \cup {None}] /\ fifo' \in Seq(RequestType)
    BY <1>1, <1>2 DEF Typed
  <2> QED  BY <1>1, <1>2, <1>3, <1>8, <1>9, <2>1, FaxqTyped
<1>11. \A t \in Tids, s \in Sessions, k \in Jobs :
         triggers'[t] = [by |-> s, job |-> k] => file[k].owner = s
  <2>1. \A t \in Tids : triggers'[t] = None
    BY <1>1
  <2> QED  BY <2>1, NoneIsNobody
<1>12. ASSUME NEW s \in Sessions
       PROVE  /\ MailOwned(s)
              /\ strayed = {} => EventsOf(s)' /\ (s \in online => MailBelieved(s))
  BY <1>1, <1>3, <1>4, <1>6, <1>7, MailKeeps
<1>13. ASSUME strayed = {}, NEW s \in Sessions, s \in online PROVE RequestsOf(s)'
  <2>1. \A i \in DOMAIN inbox'[s] : IsAnswer(inbox'[s][i]) =>
          i \in DOMAIN inbox[s] /\ inbox'[s][i] = inbox[s][i]
    BY <1>6, <1>7 DEF Mail
  <2> QED  BY <1>1, <1>9, <1>13, <2>1, NoneAnswered
<1>14. /\ \A i \in DOMAIN fifo' : \E k \in DOMAIN fifo : fifo'[i] = fifo[k]
       /\ \A i \in DOMAIN waits' : file[waits'[i].job].owner = waits'[i].from
  BY <1>1, <1>9
<1> QED  BY <1>1, <1>3, <1>4, <1>10, <1>11, <1>12, <1>13, <1>14, FaxqKeeps

-----------------------------------------------------------------------------
(* The invariant *)

\* The invariant holds at the start,
LEMMA Initially == Init => Inv
<1> SUFFICES ASSUME Init PROVE Inv
  OBVIOUS
<1>1. Typed
  <2>1. NoFile \in FileType /\ 0 \in Nat
    BY DEF NoFile, FileType, JobStates
  <2>2. file \in [Jobs -> FileType] /\ locker \in [Jobs -> Sessions \cup {None}] /\ stage \in [Jobs -> Stages]
    BY <2>1 DEF Init, Stages
  <2>3. waits \in Seq(WaitType) /\ fifo \in Seq(RequestType) /\ newer \subseteq Sessions \X Jobs
    BY NoneFacts DEF Init
  <2>4. triggers \in [Tids -> TriggerType \cup {None}] /\ online \subseteq Sessions
    BY DEF Init
  <2>5. mem \in [Sessions -> [Jobs -> CopyType \cup {None}]]
    BY DEF Init
  <2>6. cur \in [Sessions -> Jobs \cup {None}] /\ spec \in [Sessions -> Jobs \cup {None}]
    BY DEF Init
  <2>7. blank \in [Sessions -> SUBSET Jobs] /\ waitfifo \in [Sessions -> BOOLEAN]
    BY DEF Init
  <2>8. task \in [Sessions -> Seq(FrameType)] /\ inbox \in [Sessions -> Seq(MessageType)]
    <3>1. <<>> \in Seq(FrameType) /\ <<>> \in Seq(MessageType)
      BY NoneFacts
    <3> QED  BY <3>1 DEF Init
  <2>9. response \in [Sessions -> AnswerType \cup {None}] /\ tid \in [Sessions -> Tids]
    BY DEF Init
  <2>10. confirmed \in [Jobs -> Nat \cup {None}] /\ strayed \subseteq Strays
    BY DEF Init
  <2> QED  BY <2>2, <2>3, <2>4, <2>5, <2>6, <2>7, <2>8, <2>9, <2>10 DEF Typed
<1>2. DOMAIN waits = {} /\ DOMAIN fifo = {}
  BY DEF Init
<1>3. \A s \in Sessions :
        /\ task[s] = <<>> /\ DOMAIN task[s] = {} /\ DOMAIN inbox[s] = {} /\ ~waitfifo[s]
        /\ Top(s) = NoFrame /\ Top(s).at = "idle"
  <2>1. \A s \in Sessions : task[s] = <<>> /\ inbox[s] = <<>> /\ ~waitfifo[s]
    BY DEF Init
  <2>2. ASSUME NEW s \in Sessions PROVE Top(s) = NoFrame
    BY <1>1, <2>1, <2>2, TopIs DEF Typed
  <2> QED  BY <2>1, <2>2 DEF NoFrame
<1>4. \A j \in Jobs : file[j].at = "unborn" /\ file[j].owner = None /\ ~Present(j) /\ stage[j] = "unknown"
  BY DEF Init, NoFile, Present
<1>5. \A s \in Sessions, j \in Jobs : mem[s][j] = None /\ cur[s] = None /\ spec[s] = None /\ j \notin blank[s]
  BY DEF Init
<1>6. OwnedThere
  <2>1. \A t \in Tids : triggers[t] = None
    BY DEF Init
  <2> QED  BY <1>2, <1>4, <2>1, NoneIsNobody DEF OwnedThere
<1>7. \A s \in Sessions : Own(s)
  BY <1>3, <1>5, NoneIsNobody DEF Own, OwnedBy, FramesOf, SubmittedBy
<1>8. Queue /\ Submissions
  <2>1. \A j \in Jobs : confirmed[j] = None
    BY DEF Init
  <2> QED  BY <1>4, <2>1 DEF Queue, Submissions
<1>9. \A s \in Sessions : Sound(s)
  BY <1>2, <1>3, <1>5 DEF Sound, RequestsOf, BelievedBy, EventsOf, CopiesOf, HandlingOf
<1> QED  BY <1>1, <1>6, <1>7, <1>8, <1>9 DEF Inv

\* and is kept by every step.
LEMMA Inductive == Inv /\ [Next]_vars => Inv'
<1> SUFFICES ASSUME Inv, [Next]_vars PROVE Inv'
  OBVIOUS
<1>1. ASSUME NEW s \in Sessions, Session(s) PROVE Inv'
  BY <1>1, SessionStep, KeptIsEnough
<1>2. CASE Faxq
  BY <1>2, FIFOMessageStep, SuspendReturnsStep, StartJobStep, EndJobStep DEF Faxq
<1>3. CASE Restart
  BY <1>3, RestartStep
<1>4. CASE UNCHANGED vars
  <2>1. FaxqAlone /\ UNCHANGED <<file, stage, newer, fifo, waits, inbox, triggers, strayed>>
    BY <1>4 DEF vars, faxqVars, copyVars, waitVars, FaxqAlone
  <2>2. FilesStep /\ (strayed = {} => JobsStep)
    BY <2>1, NothingDone
  <2>3. waits' \in Seq(WaitType)
    BY <2>1 DEF Inv, Typed
  <2>4. \A i \in DOMAIN waits' :
          /\ i \in DOMAIN waits /\ waits'[i].from = waits[i].from
          /\ waits'[i].cmd = waits[i].cmd /\ waits'[i].job = waits[i].job
    BY <2>1
  <2> QED  BY <2>1, <2>2, <2>3, <2>4, UnaskedStep
<1> QED  BY <1>1, <1>2, <1>3, <1>4 DEF Next

\* A job that a client was told is submitted stays with faxq, or is over, with
\* the parameters the client has set or later ones, until it is deleted.
THEOREM SubmissionsAreKept == Spec => []ConfirmedKept
<1>1. Inv => ConfirmedKept
  BY DEF Inv, Submissions, Accepted, ConfirmedKept
<1> QED  BY Initially, Inductive, <1>1, PTL DEF Spec

-----------------------------------------------------------------------------
(* Whose files hfaxd writes *)

\* faxq changes only the files of jobs in its queue.
LEMMA FaxqFiles ==
  ASSUME Inv, Faxq \/ Restart, NEW j \in Jobs, file'[j] # file[j]
  PROVE  Present(j) /\ task' = task
<1>1. task' = task
  BY DEF Faxq, FIFOMessage, SuspendReturns, StartJob, EndJob, Restart
<1>2. file \in [Jobs -> FileType]
  BY DEF Inv, Typed
<1>3. \A k \in Jobs, state \in JobStates :
        (WriteState(k, state) => Present(j)) /\ (BuryJob(k, state) => Present(j))
  BY <1>2 DEF WriteState, BuryJob
<1> DEFINE states == {"suspended", "ready", "failed"}
<1>0. states \subseteq JobStates /\ Ended \subseteq JobStates
  BY DEF JobStates, Ended
<1>4. CASE FIFOMessage
  <2>1. PICK m : m = Head(fifo) /\ Hears(m)
    BY <1>4 DEF FIFOMessage, Hears, FaxqAlone, waitVars
  <2>2. Submit(m) \/ Suspend(m) \/ CreateTrigger(m) \/ OtherRequest(m)
    BY <1>4, <2>1 DEF FIFOMessage
  <2>3. fifo # <<>> /\ fifo' = Tail(fifo)
    BY <1>4 DEF FIFOMessage
  <2>4. m.cmd # "D" => m.job \in Jobs
    BY <2>1, <2>3, NextRequest
  <2>5. CASE Submit(m)
    <3>1. PICK k \in Jobs : k = m.job
      BY <2>4, <2>5 DEF Submit
    <3>2. \/ WriteState(k, "ready") \/ BuryJob(k, "failed") \/ BuryJob(k, "suspended")
          \/ file' = file
      BY <2>5, <3>1 DEF Submit
    <3> QED  BY <1>0, <1>1, <1>3, <3>2
  <2>6. CASE Suspend(m)
    <3>1. PICK k \in Jobs : k = m.job
      BY <2>4, <2>6 DEF Suspend
    <3>2. WriteState(k, "suspended") \/ BuryJob(k, "failed") \/ file' = file
      BY <2>6, <3>1 DEF Suspend, Finish, Refuse
    <3> QED  BY <1>0, <1>1, <1>3, <3>2
  <2>7. CASE CreateTrigger(m) \/ OtherRequest(m)
    BY <2>7 DEF CreateTrigger, OtherRequest
  <2> QED  BY <2>2, <2>5, <2>6, <2>7
<1>5. CASE SuspendReturns
  <2>1. PICK w : w = Last(waits)
    OBVIOUS
  <2>2. waits # <<>> /\ waits' = Front(waits) /\ (Refuse(w.cmd, w.from) \/ Finish(w.cmd, w.job, w.from))
    BY <1>5, <2>1 DEF SuspendReturns
  <2>3. w.job \in Jobs
    BY <2>1, <2>2, LastWait
  <2>4. PICK k \in Jobs : k = w.job
    BY <2>3
  <2>5. WriteState(k, "suspended") \/ BuryJob(k, "failed") \/ file' = file
    BY <2>2, <2>4 DEF Finish, Refuse
  <2> QED  BY <1>0, <1>1, <1>3, <2>5
<1>6. ASSUME NEW k \in Jobs, StartJob(k) PROVE Present(j)
  <2>1. Present(k) \/ BuryJob(k, "ready")
    BY <1>6 DEF StartJob
  <2>2. CASE Present(k)
    BY <1>2, <1>6, <2>2 DEF StartJob
  <2>3. CASE BuryJob(k, "ready")
    BY <1>0, <1>3, <2>3
  <2> QED  BY <2>1, <2>2, <2>3
<1>7. ASSUME NEW k \in Jobs, EndJob(k) PROVE Present(j)
  BY <1>0, <1>3, <1>7 DEF EndJob
<1>8. ~Restart
  BY DEF Restart
<1> QED  BY <1>1, <1>4, <1>5, <1>6, <1>7, <1>8 DEF Faxq

\* A session changes the file of a job at rest, or one whose job is over; a
\* new one; and when it ends, the ones that were never submitted.
LEMMA SessionFiles ==
  ASSUME Inv, strayed = {}, NEW s \in Sessions, Session(s), NEW j \in Jobs, file'[j] # file[j]
  PROVE  \/ file[j].at = "unborn" /\ task' = task
         \/ AtRest(j)
         \/ file[j].at = "doneq" /\ file'[j].at = "gone"
         \/ online' # online /\ file'[j].at = "gone"
<1>1. file \in [Jobs -> FileType]
  BY DEF Inv, Typed
<1>2. CASE Act(s)
  <2>1. PICK k : k = Top(s).job
    OBVIOUS
  <2>2. /\ Top(s).at = "checked" /\ k \in Jobs /\ Handled(Top(s), k, mem[s][k])
    BY <1>2, <2>1, AtWork DEF Act
  <2>3. SubmitJob(s, k) \/ OperateOnJob(s, k) \/ NewTrigger(s, k) \/ DeleteJob(s, k)
    BY <1>2, <2>1 DEF Act
  <2>4. CASE SubmitJob(s, k)
    <3>1. AtRest(k) /\ (WriteCopy(s, k) \/ file' = file)
      BY <2>2, <2>4 DEF SubmitJob, Handled
    <3> QED  BY <1>1, <2>2, <3>1 DEF WriteCopy
  <2>5. CASE DeleteJob(s, k)
    <3>1. (AtRest(k) \/ file[k].at = "doneq") /\ (Erase(s, k) \/ file' = file)
      BY <2>2, <2>5 DEF DeleteJob, Handled
    <3>2. Erase(s, k)
      BY <3>1
    <3>3. j = k /\ file'[k].at = "gone"
      <4>1. file' = [file EXCEPT ![k].at = "gone"]
        BY <3>2 DEF Erase
      <4> QED  BY <1>1, <2>2, <4>1 DEF FileType
    <3> QED  BY <3>1, <3>3
  <2> QED  BY <2>3, <2>4, <2>5 DEF OperateOnJob, NewTrigger
<1>3. CASE Resume(s)
  <2>1. PICK k : k = Top(s).job
    OBVIOUS
  <2>2. Top(s).at = "asked" /\ Top(s).op = "JDELE" /\ Erase(s, k)
    BY <1>3, <2>1 DEF Resume
  <2>3. AtRest(k) /\ k \in Jobs
    BY <2>1, <2>2, AtWork DEF Handled
  <2> QED  BY <1>1, <2>2, <2>3 DEF Erase
<1>4. CASE DoLogout(s)
  <2>1. online' = online \ {s} /\ s \in online
    BY <1>4 DEF DoLogout
  <2>2. file'[j] = [file[j] EXCEPT !.at = "gone"]
    BY <1>4 DEF DoLogout
  <2>3. file[j] \in FileType
    BY <1>1
  <2> QED  BY <2>1, <2>2, <2>3 DEF FileType
<1>5. CASE Watch(s) \/ Receive(s) \/ HandleUrgentData(s)
  BY <1>5 DEF Watch, Receive, HandleUrgentData
<1>6. ASSUME NEW k \in Jobs, NewJob(s, k) PROVE file[j].at = "unborn" /\ task' = task
  BY <1>1, <1>6 DEF NewJob
<1>7. ASSUME NEW k \in Jobs, SetCurrentJob(s, k) \/ SetJobParameter(s, k) \/ ResetJob(s, k) PROVE FALSE
  BY <1>7 DEF SetCurrentJob, SetJobParameter, ResetJob
<1>8. ASSUME NEW k \in Jobs, NEW op, Begin(s, op, k) PROVE FALSE
  BY <1>8 DEF Begin
<1> QED  BY <1>2, <1>3, <1>4, <1>5, <1>6, <1>7, <1>8 DEF Session

\* hfaxd does not put the queue file of a job that is over back where faxq
\* looks for jobs.
THEOREM SentOnce == Spec => NoSecondSending
<1>1. Inv /\ [Next]_vars =>
        [strayed = {} => \A j \in Jobs :
           file[j].at \in {"doneq", "gone"} => file'[j].at \in {"doneq", "gone"}]_vars
  <2> SUFFICES ASSUME Inv, Next, strayed = {}, NEW j \in Jobs, file[j].at \in {"doneq", "gone"},
                      file'[j] # file[j]
               PROVE  file'[j].at \in {"doneq", "gone"}
    OBVIOUS
  <2>1. CASE Faxq \/ Restart
    BY <2>1, FaxqFiles DEF Present
  <2>2. ASSUME NEW s \in Sessions, Session(s) PROVE file'[j].at \in {"doneq", "gone"}
    BY <2>2, SessionFiles DEF AtRest
  <2> QED  BY <2>1, <2>2 DEF Next
<1> QED  BY Initially, Inductive, <1>1, PTL DEF Spec, NoSecondSending

\* hfaxd writes or deletes the queue file of a job only while faxq has nothing
\* to do with it.
THEOREM InertTouched == Spec => TouchesOnlyInert
<1>1. Inv /\ [Next]_vars =>
        [strayed = {} => \A j \in Jobs :
           /\ \E s \in Sessions : task'[s] # task[s] /\ online' = online /\ UNCHANGED stage
           /\ file'[j] # file[j]
           => stage[j] \notin {"queued", "active", "held"}]_vars
  <2> SUFFICES ASSUME Inv, Next, strayed = {}, NEW j \in Jobs, NEW r \in Sessions,
                      task'[r] # task[r], online' = online, file'[j] # file[j]
               PROVE  stage[j] \notin {"queued", "active", "held"}
    OBVIOUS
  <2>1. CASE Faxq \/ Restart
    BY <2>1, FaxqFiles
  <2>2. ASSUME NEW s \in Sessions, Session(s) PROVE AtRest(j) \/ file[j].at = "doneq"
    BY <2>2, SessionFiles
  <2>3. Queue /\ stage[j] \in Stages
    BY DEF Inv, Typed
  <2>4. CASE AtRest(j)
    <3>1. StateIn[stage[j]] = "suspended"
      BY <2>3, <2>4 DEF AtRest, Queue, Present
    <3> QED  BY <2>3, <3>1 DEF StateIn
  <2>5. CASE file[j].at = "doneq"
    BY <2>3, <2>5 DEF Queue
  <2> QED  BY <2>1, <2>2, <2>4, <2>5 DEF Next
<1> QED  BY Initially, Inductive, <1>1, PTL DEF Spec, TouchesOnlyInert
=============================================================================
