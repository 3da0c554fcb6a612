---------------------------- MODULE FaxQueueProofs ----------------------------
(***************************************************************************)
(* Proofs about the job scheduler of faxq.  For any number of jobs, modems *)
(* and destinations and any configuration: what the operators of FaxQueue  *)
(* do to the memory, that the memory keeps its types (Typed), and that no  *)
(* more jobs are prepared at one time than the configuration allows        *)
(* (PreparationsLimited).                                                  *)
(*                                                                         *)
(* The second needs SlotsAccounted: numPrepares counts every preparation   *)
(* that runs, and while prepareJobDone goes on with a batch, the slot it   *)
(* has not yet given up is still counted.                                  *)
(*                                                                         *)
(* Then the ground of FaxQueueSingleProofs, for MaxBatchJobs = 1: what the *)
(* operators do to the record of one job, the invariant Shape, and what a  *)
(* step about one job has to keep (StepShape).                             *)
(***************************************************************************)
EXTENDS FaxQueueProperties, FiniteSetTheorems, SequenceTheorems, TLAPS

-----------------------------------------------------------------------------
(* What the operators of FaxQueue do to the memory of faxq, whatever the    *)
(* constants are: they return a memory, leave the count of preparation      *)
(* slots alone, and start no preparation.  A lemma about an operator that   *)
(* sets several fields takes them one at a time.                            *)

\* q is a memory with the slots of p and no preparation that p has not.
Keeps(p, q) ==
  /\ q \in Memory /\ q.numPrepares = p.numPrepares
  /\ \A k \in Jobs : q.job[k].child = "prepare" => p.job[k].child = "prepare"

\* A guarded decrement stays a natural number.
LEMMA MinusType ==
  ASSUME NEW n \in Nat, NEW k \in Nat
  PROVE  Minus(n, k) \in Nat
BY DEF Minus

\* Keeping is reflexive.
LEMMA KeepsSelf == ASSUME NEW q \in Memory PROVE Keeps(q, q)
BY DEF Keeps

\* What is kept is a memory.
LEMMA KeepsMemory == ASSUME NEW p, NEW q, Keeps(p, q) PROVE q \in Memory
BY DEF Keeps

\* Keeping is transitive.
LEMMA KeepsChain ==
  ASSUME NEW p, NEW q, NEW r, Keeps(p, q), Keeps(q, r)
  PROVE  Keeps(p, r)
BY DEF Keeps

-----------------------------------------------------------------------------
(* Each field of a job record may be set to any value of its type *)

\* The list a job is on.
LEMMA SetOn ==
  ASSUME NEW q \in Memory, NEW j \in Jobs, NEW v \in Places
  PROVE  Keeps(q, [q EXCEPT !.job[j].on = v])
BY DEF Keeps, Memory, JobRecord

\* The state of a job.
LEMMA SetState ==
  ASSUME NEW q \in Memory, NEW j \in Jobs, NEW v \in States
  PROVE  Keeps(q, [q EXCEPT !.job[j].state = v])
BY DEF Keeps, Memory, JobRecord

\* The modem of a job.
LEMMA SetModem ==
  ASSUME NEW q \in Memory, NEW j \in Jobs, NEW v \in Modems \cup {NoModem}
  PROVE  Keeps(q, [q EXCEPT !.job[j].modem = v])
BY DEF Keeps, Memory, JobRecord

\* The link of a job to the one before it in its batch.
LEMMA SetBprev ==
  ASSUME NEW q \in Memory, NEW j \in Jobs, NEW v \in Jobs \cup {NoJob}
  PROVE  Keeps(q, [q EXCEPT !.job[j].bprev = v])
BY DEF Keeps, Memory, JobRecord

\* The link of a job to the one after it in its batch.
LEMMA SetBnext ==
  ASSUME NEW q \in Memory, NEW j \in Jobs, NEW v \in Jobs \cup {NoJob}
  PROVE  Keeps(q, [q EXCEPT !.job[j].bnext = v])
BY DEF Keeps, Memory, JobRecord

\* The lock of the queue file.
LEMMA SetQlock ==
  ASSUME NEW q \in Memory, NEW j \in Jobs, NEW v \in BOOLEAN
  PROVE  Keeps(q, [q EXCEPT !.job[j].qlock = v])
BY DEF Keeps, Memory, JobRecord

\* Whether someone waits for the job.
LEMMA SetSuspendPending ==
  ASSUME NEW q \in Memory, NEW j \in Jobs, NEW v \in BOOLEAN
  PROVE  Keeps(q, [q EXCEPT !.job[j].suspendPending = v])
BY DEF Keeps, Memory, JobRecord

\* The timer of the time to send.
LEMMA SetTts ==
  ASSUME NEW q \in Memory, NEW j \in Jobs, NEW v \in BOOLEAN
  PROVE  Keeps(q, [q EXCEPT !.job[j].tts = v])
BY DEF Keeps, Memory, JobRecord

\* The timer of the kill time.
LEMMA SetKill ==
  ASSUME NEW q \in Memory, NEW j \in Jobs, NEW v \in BOOLEAN
  PROVE  Keeps(q, [q EXCEPT !.job[j].kill = v])
BY DEF Keeps, Memory, JobRecord

\* Whether the kill time has passed.
LEMMA SetExpired ==
  ASSUME NEW q \in Memory, NEW j \in Jobs, NEW v \in BOOLEAN
  PROVE  Keeps(q, [q EXCEPT !.job[j].expired = v])
BY DEF Keeps, Memory, JobRecord

\* Where the queue file is.
LEMMA SetQfile ==
  ASSUME NEW q \in Memory, NEW j \in Jobs, NEW v \in {"sendq", "doneq"}
  PROVE  Keeps(q, [q EXCEPT !.job[j].qfile = v])
BY DEF Keeps, Memory, JobRecord

\* The process number of the job.
LEMMA SetPid ==
  ASSUME NEW q \in Memory, NEW j \in Jobs, NEW v \in {"zero", "set"}
  PROVE  Keeps(q, [q EXCEPT !.job[j].pid = v])
BY DEF Keeps, Memory, JobRecord

\* What faxsend has written.
LEMMA SetStatus ==
  ASSUME NEW q \in Memory, NEW j \in Jobs, NEW v \in {"none", "done", "failed",
         "retry"}
  PROVE  Keeps(q, [q EXCEPT !.job[j].status = v])
BY DEF Keeps, Memory, JobRecord

\* The notices sent.
LEMMA SetNotices ==
  ASSUME NEW q \in Memory, NEW j \in Jobs, NEW v \in 0..2
  PROVE  Keeps(q, [q EXCEPT !.job[j].notices = v])
BY DEF Keeps, Memory, JobRecord

-----------------------------------------------------------------------------
(* The operators of FaxQueue, from the smallest to the queue transitions *)

\* All job records may be replaced by others with the same children, modem
\* records and destination records by any others.
LEMMA PutJobs ==
  ASSUME NEW q, NEW a, Keeps(q, a), NEW f \in [Jobs -> JobRecord],
         \A k \in Jobs : f[k].child = q.job[k].child
  PROVE  Keeps(q, [a EXCEPT !.job = f])
BY DEF Keeps, Memory

\* All modem records.
LEMMA PutModems ==
  ASSUME NEW q \in Memory, NEW f \in [Modems -> ModemRecord]
  PROVE  Keeps(q, [q EXCEPT !.modem = f])
BY DEF Keeps, Memory

\* One modem record.
LEMMA PutModem ==
  ASSUME NEW q \in Memory, NEW m, NEW r, m \in Modems => r \in ModemRecord
  PROVE  Keeps(q, [q EXCEPT !.modem[m] = r])
BY DEF Keeps, Memory

\* One DestInfo.
LEMMA PutDest ==
  ASSUME NEW q \in Memory, NEW d \in Dests, NEW r \in DestRecord
  PROVE  Keeps(q, [q EXCEPT !.di[d] = r])
BY DEF Keeps, Memory

\* The flags of the process.
LEMMA PutFlags ==
  ASSUME NEW q \in Memory, NEW v \in BOOLEAN
  PROVE  /\ Keeps(q, [q EXCEPT !.poked = v])
         /\ Keeps(q, [q EXCEPT !.quit = v])
         /\ Keeps(q, [q EXCEPT !.running = v])
BY DEF Keeps, Memory

\* A fault is recorded and changes nothing else.
LEMMA FailKeeps ==
  ASSUME NEW q \in Memory, NEW f \in Faults
  PROVE Keeps(q, Fail(q, f))
BY DEF Keeps, Fail, Memory

\* A failed assertion is a fault.
LEMMA FxAssertKeeps ==
  ASSUME NEW q \in Memory, NEW ok
  PROVE Keeps(q, FxAssert(q, ok))
BY FailKeeps, KeepsSelf DEF FxAssert, Faults

\* pokeScheduler sets a flag.
LEMMA PokeKeeps == ASSUME NEW q \in Memory PROVE Keeps(q, Poke(q))
BY PutFlags DEF Poke

\* A job of a memory.
LEMMA JobType ==
  ASSUME NEW q \in Memory, NEW j \in Jobs
  PROVE q.job[j] \in JobRecord
BY DEF Memory

\* A DestInfo of a memory.
LEMMA DestType ==
  ASSUME NEW q \in Memory, NEW d \in Dests
  PROVE q.di[d] \in DestRecord
BY DEF Memory

\* Job::insert: a job goes to the head or tail of a list.
LEMMA InsertKeeps ==
  ASSUME NEW q \in Memory, NEW j \in Jobs, NEW list \in Places
  PROVE  Keeps(q, Insert(q, j, list))
<1> DEFINE a == FxAssert(q, ~IsOnList(q, j))
           b == [a EXCEPT !.job[j].on = list]
<1>1. Insert(q, j, list) = b
  BY DEF Insert
<1>2. Keeps(q, a)
  BY FxAssertKeeps
<1> HIDE DEF a
<1>3. Keeps(a, b)
  BY <1>2, KeepsMemory, SetOn
<1> HIDE DEF b
<1> QED BY <1>1, <1>2, <1>3, KeepsChain

\* The shapes that Job::remove gives to a record.
LEMMA UnlinkedType ==
  ASSUME NEW r \in JobRecord, NEW b \in Jobs \cup {NoJob}, NEW c \in Jobs \cup
         {NoJob}
  PROVE  /\ [r EXCEPT !.bprev = b, !.bnext = c] \in JobRecord
         /\ [r EXCEPT !.bprev = b, !.bnext = c].child = r.child
         /\ [r EXCEPT !.on = "none", !.bprev = b, !.bnext = c] \in JobRecord
         /\ [r EXCEPT !.on = "none", !.bprev = b, !.bnext = c].child = r.child
<1>1. [r EXCEPT !.bprev = b, !.bnext = c] \in JobRecord
  BY DEF JobRecord
<1>2. [r EXCEPT !.bprev = b, !.bnext = c].child = r.child
  BY DEF JobRecord
<1>3. [r EXCEPT !.on = "none", !.bprev = b, !.bnext = c] \in JobRecord
  BY DEF JobRecord, Places
<1>4. [r EXCEPT !.on = "none", !.bprev = b, !.bnext = c].child = r.child
  BY DEF JobRecord
<1> QED BY <1>1, <1>2, <1>3, <1>4

\* Job::remove unlinks a job from its list and from its batch.
LEMMA RemoveKeeps ==
  ASSUME NEW q \in Memory, NEW j \in Jobs
  PROVE  Keeps(q, Remove(q, j))
<1> DEFINE a == FxAssert(q, IsOnList(q, j))
           p == q.job[j].bprev
           n == q.job[j].bnext
           Unlink(k) ==
             IF k = j
             THEN [q.job[k] EXCEPT !.on = "none", !.bprev = NoJob,
                                   !.bnext = NoJob]
             ELSE [q.job[k] EXCEPT !.bprev = IF k = n THEN p ELSE @,
                                   !.bnext = IF k = p THEN n ELSE @]
           f == [k \in Jobs |-> Unlink(k)]
<1>1. Remove(q, j) = [a EXCEPT !.job = f]
  BY DEF Remove
<1>2. Keeps(q, a)
  BY FxAssertKeeps
<1>3. p \in Jobs \cup {NoJob} /\ n \in Jobs \cup {NoJob}
  BY JobType DEF JobRecord
<1> HIDE DEF a, p, n
<1>4. ASSUME NEW k \in Jobs
      PROVE  Unlink(k) \in JobRecord /\ Unlink(k).child = q.job[k].child
  <2> DEFINE r == q.job[k]
             b == IF k = n THEN p ELSE r.bprev
             c == IF k = p THEN n ELSE r.bnext
  <2>1. r \in JobRecord
    BY JobType
  <2>2. b \in Jobs \cup {NoJob} /\ c \in Jobs \cup {NoJob}
    BY <1>3, <2>1 DEF JobRecord
  <2> DEFINE x == [r EXCEPT !.on = "none", !.bprev = NoJob, !.bnext = NoJob]
             y == [r EXCEPT !.bprev = b, !.bnext = c]
  <2>3. Unlink(k) = IF k = j THEN x ELSE y
    OBVIOUS
  <2>4. r.child = q.job[k].child
    OBVIOUS
  <2> HIDE DEF b, c, r, Unlink
  <2>5. x \in JobRecord /\ x.child = r.child
    BY <2>1, UnlinkedType
  <2>6. y \in JobRecord /\ y.child = r.child
    BY <2>1, <2>2, UnlinkedType
  <2> QED BY <2>3, <2>4, <2>5, <2>6
<1> HIDE DEF Unlink
<1>5. f \in [Jobs -> JobRecord] /\ \A k \in Jobs : f[k].child = q.job[k].child
  BY <1>4
<1> HIDE DEF f
<1> QED BY <1>1, <1>2, <1>5, PutJobs

\* A job leaves its list, if it is on one.
LEMMA UnlistKeeps ==
  ASSUME NEW q \in Memory, NEW j \in Jobs
  PROVE  Keeps(q, Unlist(q, j))
BY RemoveKeeps, KeepsSelf DEF Unlist

\* readRequest.
LEMMA ReadRequestKeeps ==
  ASSUME NEW q \in Memory, NEW j \in Jobs
  PROVE  Keeps(q, ReadRequest(q, j))
BY FailKeeps, KeepsSelf DEF ReadRequest, Faults

\* deleteRequest: the notices counted are at most two.
LEMMA DeleteRequestKeeps ==
  ASSUME NEW q \in Memory, NEW j \in Jobs
  PROVE  Keeps(q, DeleteRequest(q, j))
<1> DEFINE a == [q EXCEPT !.job[j].qfile = "doneq"]
           b == [a EXCEPT !.job[j].qlock = FALSE]
           n == IF b.job[j].notices < 2 THEN b.job[j].notices + 1 ELSE 2
           c == [b EXCEPT !.job[j].notices = n]
<1>1. DeleteRequest(q, j) = c
  BY DEF DeleteRequest
<1>2. Keeps(q, a)
  BY SetQfile
<1> HIDE DEF a
<1>3. Keeps(a, b)
  BY <1>2, KeepsMemory, SetQlock
<1> HIDE DEF b
<1>4. n \in 0..2
  BY <1>3 DEF Keeps, Memory, JobRecord
<1> HIDE DEF n
<1>5. Keeps(b, c)
  BY <1>3, <1>4, KeepsMemory, SetNotices
<1> HIDE DEF c
<1> QED BY <1>1, <1>2, <1>3, <1>5, KeepsChain

\* DestInfo::hangup: the count of calls stays a natural number.
LEMMA HangupKeeps ==
  ASSUME NEW q \in Memory, NEW d \in Dests
  PROVE  Keeps(q, Hangup(q, d))
<1> DEFINE n == Minus(q.di[d].calls, 1)
           r == [q.di[d] EXCEPT !.calls = n, !.pending = FALSE]
<1>1. Hangup(q, d) = [q EXCEPT !.di[d] = r]
  BY DEF Hangup, Memory
<1>2. q.di[d] \in DestRecord
  BY DestType
<1>3. n \in Nat
  BY <1>2, MinusType DEF DestRecord
<1> HIDE DEF n
<1>4. r \in DestRecord
  BY <1>2, <1>3 DEF DestRecord
<1> HIDE DEF r
<1> QED BY <1>1, <1>4, PutDest

\* DestInfo::call.
LEMMA CallKeeps ==
  ASSUME NEW q \in Memory, NEW d \in Dests
  PROVE  Keeps(q, Call(q, d))
<1> DEFINE n == q.di[d].calls + 1
           r == [q.di[d] EXCEPT !.calls = n, !.pending = TRUE]
<1>1. Call(q, d) = [q EXCEPT !.di[d] = r]
  BY DEF Call, Memory
<1>2. q.di[d] \in DestRecord
  BY DestType
<1>3. n \in Nat
  BY <1>2 DEF DestRecord
<1> HIDE DEF n
<1>4. r \in DestRecord
  BY <1>2, <1>3 DEF DestRecord
<1> HIDE DEF r
<1> QED BY <1>1, <1>4, PutDest

\* A blocked job leaves its DestInfo: the count stays a natural number.
LEMMA UnblockOneKeeps ==
  ASSUME NEW q \in Memory, NEW d \in Dests
  PROVE  Keeps(q, UnblockOne(q, d))
<1> DEFINE n == Minus(q.di[d].blocked, 1)
           r == [q.di[d] EXCEPT !.blocked = n]
<1>1. UnblockOne(q, d) = [q EXCEPT !.di[d] = r]
  BY DEF UnblockOne, Memory
<1>2. q.di[d] \in DestRecord
  BY DestType
<1>3. n \in Nat
  BY <1>2, MinusType DEF DestRecord
<1> HIDE DEF n
<1>4. r \in DestRecord
  BY <1>2, <1>3 DEF DestRecord
<1> HIDE DEF r
<1> QED BY <1>1, <1>4, PutDest

\* DestInfo::connected.
LEMMA ConnectedKeeps ==
  ASSUME NEW q \in Memory, NEW d \in Dests
  PROVE  Keeps(q, Connected(q, d))
BY DEF Connected, Keeps, Memory, DestRecord

\* Each job has a destination.
LEMMA DestOfType == ASSUME NEW j \in Jobs PROVE DestOf[j] \in Dests
BY Constants

\* DestInfo::active.
LEMMA ActiveKeeps ==
  ASSUME NEW q \in Memory, NEW j \in Jobs
  PROVE  Keeps(q, Active(q, j))
<1> DEFINE d == DestOf[j]
           r == [q.di[d] EXCEPT !.active = @ \cup {j}]
<1>1. Active(q, j) = [q EXCEPT !.di[d] = r]
  BY DEF Active, Memory
<1>2. d \in Dests /\ q.di[d] \in DestRecord
  BY DestOfType, DestType
<1> HIDE DEF d
<1>3. r \in DestRecord
  BY <1>2 DEF DestRecord
<1> HIDE DEF r
<1> QED BY <1>1, <1>2, <1>3, PutDest

\* removeDestInfoJob, which may purge the entry.
LEMMA RemoveDestInfoJobKeeps ==
  ASSUME NEW q \in Memory, NEW j \in Jobs
  PROVE  Keeps(q, RemoveDestInfoJob(q, j))
<1> DEFINE d == DestOf[j]
           left == q.di[d].active \ {j}
           r == IF left = {} /\ q.di[d].blocked = 0 THEN NewDest
                ELSE [q.di[d] EXCEPT !.active = left]
<1>1. RemoveDestInfoJob(q, j) = [q EXCEPT !.di[d] = r]
  BY DEF RemoveDestInfoJob, Memory
<1>2. d \in Dests /\ q.di[d] \in DestRecord
  BY DestOfType, DestType
<1>3. left \in SUBSET Jobs
  BY <1>2 DEF DestRecord
<1> HIDE DEF d, left
<1>4. r \in DestRecord
  BY <1>2, <1>3 DEF DestRecord, NewDest
<1> HIDE DEF r
<1> QED BY <1>1, <1>2, <1>4, PutDest

\* The lists and states that the lemmas below name.
LEMMA PlaceNames ==
  /\ {"none", "absent", "runq", "sleepq", "blocked"} \subseteq Places
  /\ {"ready", "sleeping", "blocked", "failed"} \subseteq States
BY DEF Places, States

\* Any set of jobs is finite and has a cardinality.
LEMMA CountType ==
  ASSUME NEW S \in SUBSET Jobs
  PROVE  IsFiniteSet(S) /\ Cardinality(S) \in Nat
BY Constants, FS_Subset, FS_CardinalityType

\* As many blocked jobs are discounted as a set has, or all there are.
LEMMA BlockedKeeps ==
  ASSUME NEW q \in Memory, NEW d \in Dests, NEW S \in SUBSET Jobs
  PROVE  Keeps(q, [q EXCEPT !.di[d].blocked = Minus(@, Cardinality(S))])
<1> DEFINE n == Minus(q.di[d].blocked, Cardinality(S))
           r == [q.di[d] EXCEPT !.blocked = n]
<1>1. [q EXCEPT !.di[d].blocked = Minus(@, Cardinality(S))] = [q EXCEPT !.di[d] = r]
  BY DEF Memory
<1>2. q.di[d] \in DestRecord
  BY DestType
<1>3. n \in Nat
  BY <1>2, CountType, MinusType DEF DestRecord
<1> HIDE DEF n
<1>4. r \in DestRecord
  BY <1>2, <1>3 DEF DestRecord
<1> HIDE DEF r
<1> QED BY <1>1, <1>4, PutDest

\* The shape of the record of a blocked job that is released.
LEMMA ReleasedShape ==
  ASSUME NEW r \in JobRecord
  PROVE  LET s == [r EXCEPT !.on = "runq", !.state = "ready", !.pid = "zero"]
         IN s \in JobRecord /\ s.child = r.child
<1> DEFINE s == [r EXCEPT !.on = "runq", !.state = "ready", !.pid = "zero"]
<1>1. s \in JobRecord
  BY PlaceNames DEF JobRecord
<1>2. s.child = r.child
  BY DEF JobRecord
<1> QED BY <1>1, <1>2

\* The shape of the record of a job that is put to sleep.
LEMMA DelayedShape ==
  ASSUME NEW r \in JobRecord
  PROVE  LET s == [r EXCEPT !.on = "sleepq", !.state = "sleeping", !.tts = TRUE]
         IN s \in JobRecord /\ s.child = r.child
<1> DEFINE s == [r EXCEPT !.on = "sleepq", !.state = "sleeping", !.tts = TRUE]
<1>1. s \in JobRecord
  BY PlaceNames DEF JobRecord
<1>2. s.child = r.child
  BY DEF JobRecord
<1> QED BY <1>1, <1>2

\* The shape of the record of a job without a modem.
LEMMA FreedShape ==
  ASSUME NEW r \in JobRecord
  PROVE  LET s == [r EXCEPT !.modem = NoModem]
         IN s \in JobRecord /\ s.child = r.child
<1> DEFINE s == [r EXCEPT !.modem = NoModem]
<1>1. s \in JobRecord
  BY DEF JobRecord
<1>2. s.child = r.child
  BY DEF JobRecord
<1> QED BY <1>1, <1>2

\* unblockDestJobs.
LEMMA UnblockKeeps ==
  ASSUME NEW q \in Memory, NEW d \in Dests, NEW U \in SUBSET Jobs
  PROVE  Keeps(q, Unblock(q, d, U))
<1> DEFINE a == [q EXCEPT !.di[d].blocked = Minus(@, Cardinality(U))]
           f == [k \in Jobs |-> IF k \in U
                                THEN [q.job[k] EXCEPT !.on = "runq",
                                                      !.state = "ready",
                                                      !.pid = "zero"]
                                ELSE q.job[k]]
<1>1. Unblock(q, d, U) = [a EXCEPT !.job = f]
  BY DEF Unblock
<1>2. Keeps(q, a)
  BY BlockedKeeps
<1> HIDE DEF a
<1>3. ASSUME NEW k \in Jobs
      PROVE  f[k] \in JobRecord /\ f[k].child = q.job[k].child
  <2> DEFINE r == q.job[k]
             s == [r EXCEPT !.on = "runq", !.state = "ready", !.pid = "zero"]
  <2>1. f[k] = IF k \in U THEN s ELSE r
    OBVIOUS
  <2>2. r \in JobRecord /\ r.child = q.job[k].child
    BY JobType
  <2> HIDE DEF r, f
  <2>3. s \in JobRecord /\ s.child = r.child
    BY <2>2, ReleasedShape
  <2> HIDE DEF s
  <2> QED BY <2>1, <2>2, <2>3
<1>4. f \in [Jobs -> JobRecord] /\ \A k \in Jobs : f[k].child = q.job[k].child
  BY <1>3
<1> HIDE DEF f
<1> QED BY <1>1, <1>2, <1>4, PutJobs

\* The blocked jobs are put to sleep after a failed call.
LEMMA DelayBlockedKeeps ==
  ASSUME NEW q \in Memory, NEW d \in Dests
  PROVE  Keeps(q, DelayBlocked(q, d))
<1> DEFINE a == [q EXCEPT !.di[d].blocked = Minus(@, Cardinality(BlockedOn(q, d)))]
           f == [k \in Jobs |-> IF k \in BlockedOn(q, d)
                                THEN [q.job[k] EXCEPT !.on = "sleepq",
                                                      !.state = "sleeping",
                                                      !.tts = TRUE]
                                ELSE q.job[k]]
<1>1. DelayBlocked(q, d) = [a EXCEPT !.job = f]
  BY DEF DelayBlocked
<1>2. Keeps(q, a)
  BY BlockedKeeps DEF BlockedOn
<1> HIDE DEF a
<1>3. ASSUME NEW k \in Jobs
      PROVE  f[k] \in JobRecord /\ f[k].child = q.job[k].child
  <2> DEFINE r == q.job[k]
             s == [r EXCEPT !.on = "sleepq", !.state = "sleeping", !.tts = TRUE]
  <2>1. f[k] = IF k \in BlockedOn(q, d) THEN s ELSE r
    OBVIOUS
  <2>2. r \in JobRecord /\ r.child = q.job[k].child
    BY JobType
  <2> HIDE DEF r, f
  <2>3. s \in JobRecord /\ s.child = r.child
    BY <2>2, DelayedShape
  <2> HIDE DEF s
  <2> QED BY <2>1, <2>2, <2>3
<1>4. f \in [Jobs -> JobRecord] /\ \A k \in Jobs : f[k].child = q.job[k].child
  BY <1>3
<1> HIDE DEF f
<1> QED BY <1>1, <1>2, <1>4, PutJobs

\* Modem::release.
LEMMA ReleasedType ==
  ASSUME NEW m \in ModemRecord
  PROVE Released(m) \in ModemRecord
BY DEF Released, ModemRecord

\* Modem::release, for a modem or for none.
LEMMA ReleasedKeeps ==
  ASSUME NEW q \in Memory, NEW m
  PROVE  Keeps(q, [q EXCEPT !.modem[m] = Released(@)])
BY ReleasedType, PutModem DEF Memory

\* The modem m and the jobs B that have it are released.
Releasing(q, B, m, ok) ==
  [FxAssert(Poke(q), ok) EXCEPT
     !.modem[m] = Released(@),
     !.job = [k \in Jobs |-> IF k \in B
                             THEN [@[k] EXCEPT !.modem = NoModem]
                             ELSE @[k]]]

\* They keep the memory.
LEMMA ReleasingKeeps ==
  ASSUME NEW q \in Memory, NEW m, NEW ok, NEW B
  PROVE  Keeps(q, Releasing(q, B, m, ok))
<1> DEFINE a == [FxAssert(Poke(q), ok) EXCEPT !.modem[m] = Released(@)]
           f == [k \in Jobs |-> IF k \in B
                                THEN [q.job[k] EXCEPT !.modem = NoModem]
                                ELSE q.job[k]]
<1>1. Releasing(q, B, m, ok) = [a EXCEPT !.job = f]
  BY DEF Releasing, FxAssert, Fail, Poke, Memory
<1>2. Keeps(q, a)
  BY PokeKeeps, FxAssertKeeps, ReleasedKeeps, KeepsMemory, KeepsChain
<1> HIDE DEF a
<1>3. ASSUME NEW k \in Jobs
      PROVE  f[k] \in JobRecord /\ f[k].child = q.job[k].child
  <2> DEFINE r == q.job[k]
             s == [r EXCEPT !.modem = NoModem]
  <2>1. f[k] = IF k \in B THEN s ELSE r
    OBVIOUS
  <2>2. r \in JobRecord /\ r.child = q.job[k].child
    BY JobType
  <2> HIDE DEF r, f
  <2>3. s \in JobRecord /\ s.child = r.child
    BY <2>2, FreedShape
  <2> HIDE DEF s
  <2> QED BY <2>1, <2>2, <2>3
<1>4. f \in [Jobs -> JobRecord] /\ \A k \in Jobs : f[k].child = q.job[k].child
  BY <1>3
<1> HIDE DEF f
<1> QED BY <1>1, <1>2, <1>4, PutJobs

\* releaseModem, for a batch.
LEMMA ReleaseModemKeeps ==
  ASSUME NEW q \in Memory, NEW j \in Jobs
  PROVE  Keeps(q, ReleaseModem(q, j))
<1> DEFINE B == Batch(q, j)
           m == q.job[j].modem
           ok == \A k \in B : q.job[k].modem # NoModem
<1>1. ReleaseModem(q, j) = IF m = NoModem
                           THEN Fail(q, "assert")
                           ELSE Releasing(q, B, m, ok)
  BY DEF ReleaseModem, Releasing
<1> HIDE DEF B, m, ok
<1> QED BY <1>1, FailKeeps, ReleasingKeeps DEF Faults

\* releaseModem, for a job that may have no modem.
LEMMA ReleaseIfHeldKeeps ==
  ASSUME NEW q \in Memory, NEW j \in Jobs
  PROVE  Keeps(q, ReleaseIfHeld(q, j))
BY ReleaseModemKeeps, KeepsSelf DEF ReleaseIfHeld

\* setDead marks a job failed unless it is done.
LEMMA SetFailed ==
  ASSUME NEW q \in Memory, NEW j \in Jobs
  PROVE  Keeps(q, [q EXCEPT !.job[j].state = IF @ = "done"
                                             THEN @
                                             ELSE "failed"])
<1> DEFINE v == IF q.job[j].state = "done" THEN q.job[j].state ELSE "failed"
<1>1. v \in States
  BY DEF States
<1>2. Keeps(q, [q EXCEPT !.job[j].state = v])
  BY <1>1, SetState
<1> QED BY <1>2

\* setDead.
LEMMA SetDeadKeeps ==
  ASSUME NEW q \in Memory, NEW j \in Jobs
  PROVE  Keeps(q, SetDead(q, j))
<1> DEFINE a == [q EXCEPT !.job[j].tts = FALSE]
           b == [a EXCEPT !.job[j].suspendPending = FALSE]
           c == [b EXCEPT !.job[j].state = IF @ = "done" THEN @ ELSE "failed"]
           d == RemoveDestInfoJob(c, j)
           e == Unlist(d, j)
           f == Insert(e, j, "deadq")
           g == ReleaseIfHeld(f, j)
           h == Poke(g)
<1>1. SetDead(q, j) = h
  BY DEF SetDead
<1>2. Keeps(q, a)
  BY SetTts
<1> HIDE DEF a
<1>3. Keeps(a, b)
  BY <1>2, KeepsMemory, SetSuspendPending
<1> HIDE DEF b
<1>4. Keeps(b, c)
  BY <1>3, KeepsMemory, SetFailed
<1> HIDE DEF c
<1>5. Keeps(c, d)
  BY <1>4, KeepsMemory, RemoveDestInfoJobKeeps
<1> HIDE DEF d
<1>6. Keeps(d, e)
  BY <1>5, KeepsMemory, UnlistKeeps
<1> HIDE DEF e
<1>7. Keeps(e, f)
  BY <1>6, KeepsMemory, InsertKeeps DEF Places
<1> HIDE DEF f
<1>8. Keeps(f, g)
  BY <1>7, KeepsMemory, ReleaseIfHeldKeeps
<1> HIDE DEF g
<1>9. Keeps(g, h)
  BY <1>8, KeepsMemory, PokeKeeps
<1> HIDE DEF h
<1> QED BY <1>1, <1>2, <1>3, <1>4, <1>5, <1>6, <1>7, <1>8, <1>9, KeepsChain

\* setReadyToRun.
LEMMA SetReadyToRunKeeps ==
  ASSUME NEW q \in Memory, NEW j \in Jobs
  PROVE  Keeps(q, SetReadyToRun(q, j))
<1> DEFINE a == Insert(q, j, "runq")
           b == [a EXCEPT !.job[j].state = "ready"]
           c == [b EXCEPT !.job[j].pid = "zero"]
<1>1. SetReadyToRun(q, j) = c
  BY DEF SetReadyToRun
<1>2. Keeps(q, a)
  BY InsertKeeps DEF Places
<1> HIDE DEF a
<1>3. Keeps(a, b)
  BY <1>2, KeepsMemory, SetState DEF States
<1> HIDE DEF b
<1>4. Keeps(b, c)
  BY <1>3, KeepsMemory, SetPid
<1> HIDE DEF c
<1> QED BY <1>1, <1>2, <1>3, <1>4, KeepsChain

\* setSleep.
LEMMA SetSleepKeeps ==
  ASSUME NEW q \in Memory, NEW j \in Jobs, NEW state \in States
  PROVE  Keeps(q, SetSleep(q, j, state))
<1> DEFINE a == Insert(q, j, "sleepq")
           b == [a EXCEPT !.job[j].state = state]
           c == [b EXCEPT !.job[j].tts = TRUE]
<1>1. SetSleep(q, j, state) = c
  BY DEF SetSleep
<1>2. Keeps(q, a)
  BY InsertKeeps DEF Places
<1> HIDE DEF a
<1>3. Keeps(a, b)
  BY <1>2, KeepsMemory, SetState
<1> HIDE DEF b
<1>4. Keeps(b, c)
  BY <1>3, KeepsMemory, SetTts
<1> HIDE DEF c
<1> QED BY <1>1, <1>2, <1>3, <1>4, KeepsChain

\* delayJob.
LEMMA DelayJobKeeps ==
  ASSUME NEW q \in Memory, NEW j \in Jobs
  PROVE  Keeps(q, DelayJob(q, j))
<1> DEFINE a == SetSleep(q, j, "sleeping")
           b == ReleaseIfHeld(a, j)
<1>1. DelayJob(q, j) = b
  BY DEF DelayJob
<1>2. Keeps(q, a)
  BY SetSleepKeeps DEF States
<1> HIDE DEF a
<1>3. Keeps(a, b)
  BY <1>2, KeepsMemory, ReleaseIfHeldKeeps
<1> HIDE DEF b
<1> QED BY <1>1, <1>2, <1>3, KeepsChain

\* setActive.
LEMMA SetActiveKeeps ==
  ASSUME NEW q \in Memory, NEW j \in Jobs
  PROVE  Keeps(q, SetActive(q, j))
<1> DEFINE a == Insert(q, j, "activeq")
           b == [a EXCEPT !.job[j].state = "active"]
<1>1. SetActive(q, j) = b
  BY DEF SetActive
<1>2. Keeps(q, a)
  BY InsertKeeps DEF Places
<1> HIDE DEF a
<1>3. Keeps(a, b)
  BY <1>2, KeepsMemory, SetState DEF States
<1> HIDE DEF b
<1> QED BY <1>1, <1>2, <1>3, KeepsChain

\* setSuspend.
LEMMA SetSuspendKeeps ==
  ASSUME NEW q \in Memory, NEW j \in Jobs
  PROVE  Keeps(q, SetSuspend(q, j))
<1> DEFINE a == Insert(q, j, "suspendq")
           b == [a EXCEPT !.job[j].state = "suspended"]
<1>1. SetSuspend(q, j) = b
  BY DEF SetSuspend
<1>2. Keeps(q, a)
  BY InsertKeeps DEF Places
<1> HIDE DEF a
<1>3. Keeps(a, b)
  BY <1>2, KeepsMemory, SetState DEF States
<1> HIDE DEF b
<1> QED BY <1>1, <1>2, <1>3, KeepsChain

\* suspendJob takes a job from its lists and stops its kill timer.
LEMMA LeaveKeeps ==
  ASSUME NEW q \in Memory, NEW j \in Jobs
  PROVE  Keeps(q, Leave(q, j))
<1> DEFINE a == RemoveDestInfoJob(q, j)
           b == Unlist(a, j)
           c == [b EXCEPT !.job[j].kill = FALSE]
<1>1. Leave(q, j) = c
  BY DEF Leave
<1>2. Keeps(q, a)
  BY RemoveDestInfoJobKeeps
<1> HIDE DEF a
<1>3. Keeps(a, b)
  BY <1>2, KeepsMemory, UnlistKeeps
<1> HIDE DEF b
<1>4. Keeps(b, c)
  BY <1>3, KeepsMemory, SetKill
<1> HIDE DEF c
<1> QED BY <1>1, <1>2, <1>3, <1>4, KeepsChain

\* The job is suspended.
LEMMA SuspendedKeeps ==
  ASSUME NEW q \in Memory, NEW j \in Jobs
  PROVE  Keeps(q, Suspended(q, j))
<1> DEFINE a == Leave(q, j)
           b == SetSuspend(a, j)
           c == ReadRequest(b, j)
           d == Poke(c)
<1>1. Suspended(q, j) = d
  BY DEF Suspended
<1>2. Keeps(q, a)
  BY LeaveKeeps
<1> HIDE DEF a
<1>3. Keeps(a, b)
  BY <1>2, KeepsMemory, SetSuspendKeeps
<1> HIDE DEF b
<1>4. Keeps(b, c)
  BY <1>3, KeepsMemory, ReadRequestKeeps
<1> HIDE DEF c
<1>5. Keeps(c, d)
  BY <1>4, KeepsMemory, PokeKeeps
<1> HIDE DEF d
<1> QED BY <1>1, <1>2, <1>3, <1>4, <1>5, KeepsChain

\* The job is killed.
LEMMA KilledKeeps ==
  ASSUME NEW q \in Memory, NEW j \in Jobs
  PROVE  Keeps(q, Killed(q, j))
<1> DEFINE a == Leave(q, j)
           b == [a EXCEPT !.job[j].state = "failed"]
           c == ReadRequest(b, j)
           d == DeleteRequest(c, j)
           e == SetDead(d, j)
<1>1. Killed(q, j) = e
  BY DEF Killed
<1>2. Keeps(q, a)
  BY LeaveKeeps
<1> HIDE DEF a
<1>3. Keeps(a, b)
  BY <1>2, KeepsMemory, SetState DEF States
<1> HIDE DEF b
<1>4. Keeps(b, c)
  BY <1>3, KeepsMemory, ReadRequestKeeps
<1> HIDE DEF c
<1>5. Keeps(c, d)
  BY <1>4, KeepsMemory, DeleteRequestKeeps
<1> HIDE DEF d
<1>6. Keeps(d, e)
  BY <1>5, KeepsMemory, SetDeadKeeps
<1> HIDE DEF e
<1> QED BY <1>1, <1>2, <1>3, <1>4, <1>5, <1>6, KeepsChain

\* One or the other.
LEMMA AnswerKeeps ==
  ASSUME NEW q \in Memory, NEW j \in Jobs, NEW cmd
  PROVE  Keeps(q, Answer(q, j, cmd))
BY SuspendedKeeps, KilledKeeps DEF Answer

\* The state of a modem.
LEMMA SetModemState ==
  ASSUME NEW q \in Memory, NEW m \in Modems, NEW v \in {"down", "ready",
         "busy", "exempt"}
  PROVE  Keeps(q, [q EXCEPT !.modem[m].state = v])
BY DEF Keeps, Memory, ModemRecord

\* The lock of a modem.
LEMMA SetModemLock ==
  ASSUME NEW q \in Memory, NEW m \in Modems, NEW v \in {"free", "faxq", "other"}
  PROVE  Keeps(q, [q EXCEPT !.modem[m].lock = v])
BY DEF Keeps, Memory, ModemRecord

\* The polling timer of a modem.
LEMMA SetModemPoll ==
  ASSUME NEW q \in Memory, NEW m \in Modems, NEW v \in BOOLEAN
  PROVE  Keeps(q, [q EXCEPT !.modem[m].poll = v])
BY DEF Keeps, Memory, ModemRecord

\* A child exits or reports that its call is connected.
LEMMA ChildLeaves ==
  ASSUME NEW q \in Memory, NEW j \in Jobs, NEW v \in {"none", "connected"}
  PROVE  Keeps(q, [q EXCEPT !.job[j].child = v])
BY DEF Keeps, Memory, JobRecord

\* DestInfo::block.
LEMMA CountBlockedKeeps ==
  ASSUME NEW q \in Memory, NEW d \in Dests
  PROVE  Keeps(q, [q EXCEPT !.di[d].blocked = @ + 1])
<1> DEFINE n == q.di[d].blocked + 1
           r == [q.di[d] EXCEPT !.blocked = n]
<1>1. [q EXCEPT !.di[d].blocked = @ + 1] = [q EXCEPT !.di[d] = r]
  BY DEF Memory
<1>2. q.di[d] \in DestRecord
  BY DestType
<1>3. n \in Nat
  BY <1>2 DEF DestRecord
<1> HIDE DEF n
<1>4. r \in DestRecord
  BY <1>2, <1>3 DEF DestRecord
<1> HIDE DEF r
<1> QED BY <1>1, <1>4, PutDest

\* The modems whose locks cannot be had are polled.
LEMMA PollingKeeps ==
  ASSUME NEW q \in Memory, NEW T
  PROVE  Keeps(q, Polling(q, T))
<1> DEFINE f == [m \in Modems |-> IF m \in T
                                  THEN [q.modem[m] EXCEPT !.state = "busy",
                                                          !.poll = TRUE]
                                  ELSE q.modem[m]]
<1>1. Polling(q, T) = [q EXCEPT !.modem = f]
  BY DEF Polling
<1>2. f \in [Modems -> ModemRecord]
  BY DEF Memory, ModemRecord
<1> HIDE DEF f
<1> QED BY <1>1, <1>2, PutModems

\* assignModem.
LEMMA AssignedKeeps ==
  ASSUME NEW q \in Memory, NEW j \in Jobs, NEW m \in Modems, NEW lock \in
         {"free", "faxq", "other"}
  PROVE  Keeps(q, Assigned(q, j, m, lock))
<1> DEFINE a == Unlist(q, j)
           b == [a EXCEPT !.modem[m].state = "busy"]
           c == [b EXCEPT !.modem[m].lock = lock]
           d == [c EXCEPT !.job[j].modem = m]
           e == [d EXCEPT !.job[j].qlock = TRUE]
           f == [e EXCEPT !.job[j].bnext = NoJob]
<1>1. Assigned(q, j, m, lock) = f
  BY DEF Assigned
<1>2. Keeps(q, a)
  BY UnlistKeeps
<1> HIDE DEF a
<1>3. Keeps(a, b)
  BY <1>2, KeepsMemory, SetModemState
<1> HIDE DEF b
<1>4. Keeps(b, c)
  BY <1>3, KeepsMemory, SetModemLock
<1> HIDE DEF c
<1>5. Keeps(c, d)
  BY <1>4, KeepsMemory, SetModem
<1> HIDE DEF d
<1>6. Keeps(d, e)
  BY <1>5, KeepsMemory, SetQlock
<1> HIDE DEF e
<1>7. Keeps(e, f)
  BY <1>6, KeepsMemory, SetBnext
<1> HIDE DEF f
<1> QED BY <1>1, <1>2, <1>3, <1>4, <1>5, <1>6, <1>7, KeepsChain

\* A visit that ends in a call.
LEMMA StartCallKeeps ==
  ASSUME NEW q, Keeps(faxq, q), NEW j \in Jobs, StartCall(q, j)
  PROVE  Keeps(faxq, faxq')
<1>1. DestOf[j] \in Dests /\ q \in Memory
  BY DestOfType, KeepsMemory
<1>2. CASE faxq' = Call(q, DestOf[j])
  BY <1>1, <1>2, CallKeeps, KeepsChain
<1>3. ASSUME NEW U \in Unblockable(q, DestOf[j], FALSE), faxq' = Unblock(q, DestOf[j], U)
      PROVE  Keeps(faxq, faxq')
  <2>1. U \in SUBSET Jobs
    BY DEF Unblockable, BlockedOn
  <2> QED BY <1>1, <1>3, <2>1, UnblockKeeps, KeepsChain
<1> QED BY <1>2, <1>3 DEF StartCall

\* The modems a job may have are modems.
LEMMA CandidatesType ==
  ASSUME NEW j \in Jobs
  PROVE Candidates(j) \subseteq Modems
BY Constants DEF Candidates

\* A job joins a batch.
LEMMA JoinKeeps ==
  ASSUME NEW q \in Memory, NEW c \in Jobs, NEW last \in Jobs
  PROVE  Keeps(q, Join(q, c, last))
<1> DEFINE a1 == FxAssert(q, q.job[c].on = "runq" => ~q.job[c].tts /\ q.job[c].modem = NoModem)
           a2 == ReadRequest(a1, c)
           a3 == Remove(a2, c)
           v == IF q.job[c].on = "sleepq" THEN FALSE ELSE a3.job[c].tts
           a4 == [a3 EXCEPT !.job[c].tts = v]
           a5 == [a4 EXCEPT !.job[c].state = "ready"]
           a6 == [a5 EXCEPT !.job[c].modem = q.job[last].modem]
           a7 == [a6 EXCEPT !.job[c].qlock = TRUE]
           a8 == [a7 EXCEPT !.job[c].bprev = last]
<1>1. Join(q, c, last) = [a8 EXCEPT !.job[last].bnext = c]
  BY DEF Join
<1>2. Keeps(q, a1)
  BY FxAssertKeeps
<1> HIDE DEF a1
<1>3. Keeps(a1, a2)
  BY <1>2, KeepsMemory, ReadRequestKeeps
<1> HIDE DEF a2
<1>4. Keeps(a2, a3)
  BY <1>3, KeepsMemory, RemoveKeeps
<1> HIDE DEF a3
<1>5. v \in BOOLEAN
  BY <1>4, KeepsMemory, JobType DEF JobRecord
<1> HIDE DEF v
<1>6. Keeps(a3, a4)
  BY <1>4, <1>5, KeepsMemory, SetTts
<1> HIDE DEF a4
<1>7. Keeps(a4, a5)
  BY <1>6, KeepsMemory, SetState, PlaceNames
<1> HIDE DEF a5
<1>8. q.job[last].modem \in Modems \cup {NoModem}
  BY JobType DEF JobRecord
<1>9. Keeps(a5, a6)
  BY <1>7, <1>8, KeepsMemory, SetModem
<1> HIDE DEF a6
<1>10. Keeps(a6, a7)
  BY <1>9, KeepsMemory, SetQlock
<1> HIDE DEF a7
<1>11. Keeps(a7, a8)
  BY <1>10, KeepsMemory, SetBprev
<1> HIDE DEF a8
<1>12. Keeps(a8, Join(q, c, last))
  BY <1>1, <1>11, KeepsMemory, SetBnext
<1>13. Keeps(q, a4)
  BY <1>2, <1>3, <1>4, <1>6, KeepsChain
<1> QED BY <1>7, <1>9, <1>10, <1>11, <1>12, <1>13, KeepsChain

\* The dead are reaped.
LEMMA ReapedShape ==
  ASSUME NEW r \in JobRecord
  PROVE  LET s == [r EXCEPT !.on = "absent", !.tts = FALSE, !.kill = FALSE]
         IN s \in JobRecord /\ s.child = r.child
<1> DEFINE s == [r EXCEPT !.on = "absent", !.tts = FALSE, !.kill = FALSE]
<1>1. s \in JobRecord
  BY PlaceNames DEF JobRecord
<1>2. s.child = r.child
  BY DEF JobRecord
<1> QED BY <1>1, <1>2

\* runScheduler deletes the jobs of the dead queue.
LEMMA ReapKeeps ==
  ASSUME NEW q \in Memory
  PROVE  Keeps(q, [q EXCEPT !.job = [k \in Jobs |-> IF @[k].on = "deadq"
                                                    THEN [@[k] EXCEPT !.on = "absent",
                                                                      !.tts = FALSE,
                                                                      !.kill = FALSE]
                                                    ELSE @[k]]])
<1> DEFINE a == q
           f == [k \in Jobs |-> IF q.job[k].on = "deadq"
                                THEN [q.job[k] EXCEPT !.on = "absent",
                                                      !.tts = FALSE,
                                                      !.kill = FALSE]
                                ELSE q.job[k]]
<1>1. [q EXCEPT !.job = [k \in Jobs |-> IF @[k].on = "deadq"
                                        THEN [@[k] EXCEPT !.on = "absent",
                                                          !.tts = FALSE,
                                                          !.kill = FALSE]
                                        ELSE @[k]]] = [a EXCEPT !.job = f]
  BY DEF Memory
<1>2. Keeps(q, a)
  BY KeepsSelf
<1>3. ASSUME NEW k \in Jobs
      PROVE  f[k] \in JobRecord /\ f[k].child = q.job[k].child
  <2> DEFINE r == q.job[k]
             s == [r EXCEPT !.on = "absent", !.tts = FALSE, !.kill = FALSE]
  <2>1. f[k] = IF q.job[k].on = "deadq" THEN s ELSE r
    OBVIOUS
  <2>2. r \in JobRecord /\ r.child = q.job[k].child
    BY JobType
  <2> DEFINE dead == q.job[k].on = "deadq"
  <2> HIDE DEF r, f, dead
  <2>3. s \in JobRecord /\ s.child = r.child
    BY <2>2, ReapedShape
  <2> HIDE DEF s
  <2> QED BY <2>1, <2>2, <2>3
<1>4. f \in [Jobs -> JobRecord] /\ \A k \in Jobs : f[k].child = q.job[k].child
  BY <1>3
<1> HIDE DEF f
<1> QED BY <1>1, <1>2, <1>4, PutJobs

\* One subprocess, that of h, sends the jobs B.
Starts(q, B, h, ok) ==
  [FxAssert(q, ok) EXCEPT
     !.job = [k \in Jobs |->
       IF k \in B THEN [q.job[k] EXCEPT !.pid = "set", !.qlock = FALSE,
                          !.child = IF k = h THEN "send" ELSE @]
       ELSE q.job[k]]]

\* sendJobStart, when its fork succeeds.
LEMMA StartsKeeps ==
  ASSUME NEW q \in Memory, NEW B, NEW h, NEW ok
  PROVE  Keeps(q, Starts(q, B, h, ok))
<1> DEFINE a == FxAssert(q, ok)
           f == [k \in Jobs |->
                   IF k \in B
                   THEN [q.job[k] EXCEPT !.pid = "set", !.qlock = FALSE,
                                      !.child = IF k = h THEN "send" ELSE @]
                   ELSE q.job[k]]
           b == [a EXCEPT !.job = f]
<1>1. Starts(q, B, h, ok) = b
  BY DEF Starts
<1>2. Keeps(q, a)
  BY FxAssertKeeps
<1> HIDE DEF a
<1>3. ASSUME NEW k \in Jobs
      PROVE  f[k] \in JobRecord /\ (f[k].child = "prepare" => q.job[k].child = "prepare")
  <2> DEFINE r == q.job[k]
             v == IF k = h THEN "send" ELSE r.child
             s == [r EXCEPT !.pid = "set", !.qlock = FALSE, !.child = v]
  <2>1. f[k] = IF k \in B THEN s ELSE r
    OBVIOUS
  <2>2. r \in JobRecord /\ r.child = q.job[k].child
    BY JobType
  <2> HIDE DEF r, f
  <2>3. v \in {"none", "prepare", "send", "connected"} /\ (v = "prepare" => r.child = "prepare")
    BY <2>2 DEF JobRecord
  <2> HIDE DEF v
  <2>4. s \in JobRecord
    BY <2>2, <2>3 DEF JobRecord
  <2>5. s.child = v
    BY <2>2 DEF JobRecord
  <2> HIDE DEF s
  <2> QED BY <2>1, <2>2, <2>3, <2>4, <2>5
<1>4. f \in [Jobs -> JobRecord] /\ \A k \in Jobs : f[k].child = "prepare" => q.job[k].child = "prepare"
  BY <1>3
<1> HIDE DEF f
<1>5. Keeps(q, b)
  BY <1>2, <1>4 DEF Keeps, Memory
<1> QED BY <1>1, <1>5

\* sendJobStart, when its fork fails.
LEMMA SendFailedShape ==
  ASSUME NEW r \in JobRecord
  PROVE  LET s == [r EXCEPT !.on = "sleepq", !.state = "sleeping",
                            !.tts = TRUE, !.modem = NoModem, !.bprev = NoJob,
                            !.bnext = NoJob, !.qlock = FALSE]
         IN s \in JobRecord /\ s.child = r.child
<1> DEFINE s == [r EXCEPT !.on = "sleepq", !.state = "sleeping", !.tts = TRUE,
                          !.modem = NoModem, !.bprev = NoJob, !.bnext = NoJob,
                          !.qlock = FALSE]
<1>1. s \in JobRecord
  BY PlaceNames DEF JobRecord
<1>2. s.child = r.child
  BY DEF JobRecord
<1> QED BY <1>1, <1>2

\* The jobs B are delayed and the modems M released.
SendFails(q, B, M, ok) ==
  [FxAssert(Poke(q), ok) EXCEPT
     !.modem = [m \in Modems |-> IF m \in M THEN Released(@[m]) ELSE @[m]],
     !.job = [k \in Jobs |->
       IF k \in B THEN [@[k] EXCEPT !.on = "sleepq", !.state = "sleeping",
                          !.tts = TRUE, !.modem = NoModem, !.bprev = NoJob,
                          !.bnext = NoJob, !.qlock = FALSE]
       ELSE @[k]]]

\* They keep the memory.
LEMMA SendFailsKeeps ==
  ASSUME NEW q \in Memory, NEW B, NEW M, NEW ok
  PROVE  Keeps(q, SendFails(q, B, M, ok))
<1> DEFINE a == [FxAssert(Poke(q), ok) EXCEPT !.modem = [m \in Modems |-> IF m \in M
                                                                          THEN Released(@[m])
                                                                          ELSE @[m]]]
           f == [k \in Jobs |-> IF k \in B
                                THEN [q.job[k] EXCEPT !.on = "sleepq",
                                                      !.state = "sleeping",
                                                      !.tts = TRUE,
                                                      !.modem = NoModem,
                                                      !.bprev = NoJob,
                                                      !.bnext = NoJob,
                                                      !.qlock = FALSE]
                                ELSE q.job[k]]
<1>1. SendFails(q, B, M, ok) = [a EXCEPT !.job = f]
  BY DEF SendFails, FxAssert, Fail, Poke, Memory
<1>2. Keeps(q, a)
  <2> DEFINE x == FxAssert(Poke(q), ok)
             g == [m \in Modems |-> IF m \in M
                                    THEN Released(x.modem[m])
                                    ELSE x.modem[m]]
  <2>1. Keeps(q, x)
    BY PokeKeeps, FxAssertKeeps, KeepsMemory, KeepsChain
  <2>2. g \in [Modems -> ModemRecord]
    BY <2>1, KeepsMemory, ReleasedType DEF Memory
  <2>3. a = [x EXCEPT !.modem = g]
    OBVIOUS
  <2> HIDE DEF x, g
  <2> QED BY <2>1, <2>2, <2>3, KeepsMemory, PutModems, KeepsChain
<1> HIDE DEF a
<1>3. ASSUME NEW k \in Jobs
      PROVE  f[k] \in JobRecord /\ f[k].child = q.job[k].child
  <2> DEFINE r == q.job[k]
             s == [r EXCEPT !.on = "sleepq", !.state = "sleeping",
                            !.tts = TRUE, !.modem = NoModem, !.bprev = NoJob,
                            !.bnext = NoJob, !.qlock = FALSE]
  <2>1. f[k] = IF k \in B THEN s ELSE r
    OBVIOUS
  <2>2. r \in JobRecord /\ r.child = q.job[k].child
    BY JobType
  <2> HIDE DEF r, f
  <2>3. s \in JobRecord /\ s.child = r.child
    BY <2>2, SendFailedShape
  <2> HIDE DEF s
  <2> QED BY <2>1, <2>2, <2>3
<1>4. f \in [Jobs -> JobRecord] /\ \A k \in Jobs : f[k].child = q.job[k].child
  BY <1>3
<1> HIDE DEF f
<1> QED BY <1>1, <1>2, <1>4, PutJobs

\* prepareJobDone gives up a slot and changes no job.
LEMMA PrepareFinishedType ==
  ASSUME NEW q \in Memory
  PROVE  /\ PrepareFinished(q) \in Memory
         /\ PrepareFinished(q).numPrepares = Minus(q.numPrepares, 1)
         /\ PrepareFinished(q).job = q.job
<1> DEFINE n == Minus(q.numPrepares, 1)
           a == [q EXCEPT !.numPrepares = n]
           b == [a EXCEPT !.poked = TRUE]
<1>1. PrepareFinished(q) = a \/ PrepareFinished(q) = b
  BY DEF PrepareFinished, Poke
<1>2. n \in Nat
  BY MinusType DEF Memory
<1> HIDE DEF n
<1>3. a \in Memory /\ a.numPrepares = n /\ a.job = q.job
  BY <1>2 DEF Memory
<1> HIDE DEF a
<1>4. b \in Memory /\ b.numPrepares = n /\ b.job = q.job
  BY <1>3 DEF Memory
<1> HIDE DEF b
<1> QED BY <1>1, <1>3, <1>4 DEF n

\* The first job of a batch is a job, if there is one.
LEMMA FirstType == ASSUME NEW q, NEW j PROVE First(q, j) \in Jobs \cup {NoJob}
<1> DEFINE F == {f \in BatchOf(q, j) : q.job[f].bprev = NoJob /\ j \in Batch(q, f)}
<1>1. First(q, j) = IF F = {} THEN NoJob ELSE CHOOSE f \in F : TRUE
  BY DEF First
<1>2. F \subseteq Jobs
  BY DEF BatchOf
<1> HIDE DEF F
<1> QED BY <1>1, <1>2

\* faxsend writes the outcome of its attempts to the queue files; no job is
\* tried more than MaxTries times.
LEMMA OutcomeKeeps ==
  ASSUME NEW q \in Memory, NEW j, NEW stop, NEW why \in {"failed", "retry"}, NEW counted
  PROVE  Keeps(q, [q EXCEPT !.job = Outcome(q, j, stop, why, counted)])
<1> DEFINE f == Outcome(q, j, stop, why, counted)
<1>1. ASSUME NEW k \in Jobs
      PROVE  f[k] \in JobRecord /\ f[k].child = q.job[k].child
  <2> DEFINE attempted == stop = NoJob \/ stop \in Batch(q, k)
             r == q.job[k]
             v == IF k = stop
                  THEN why
                  ELSE IF attempted
                  THEN "done"
                  ELSE "retry"
             t == IF attempted /\ (k = stop => counted) /\ r.tries < MaxTries
                  THEN r.tries + 1
                  ELSE r.tries
             s == [r EXCEPT !.status = v, !.tries = t]
  <2>1. f[k] = IF k \in Batch(q, j) THEN s ELSE r
    BY DEF Outcome
  <2>2. r \in JobRecord /\ r.child = q.job[k].child
    BY JobType
  <2>3. v \in {"none", "done", "failed", "retry"}
    OBVIOUS
  <2> HIDE DEF attempted, r, v
  <2>4. r.tries \in 0..MaxTries
    BY <2>2 DEF JobRecord
  <2>5. t \in 0..MaxTries
    BY <2>4, Constants
  <2> HIDE DEF t, f
  <2>6. s \in JobRecord
    BY <2>2, <2>3, <2>5 DEF JobRecord
  <2>7. s.child = r.child
    BY <2>2 DEF JobRecord
  <2> HIDE DEF s
  <2> QED BY <2>1, <2>2, <2>6, <2>7
<1>2. f = [k \in Jobs |-> f[k]]
  BY DEF Outcome
<1> HIDE DEF f
<1>3. f \in [Jobs -> JobRecord] /\ \A k \in Jobs : f[k].child = q.job[k].child
  BY <1>1, <1>2
<1> QED BY <1>3, KeepsSelf, PutJobs DEF f

\* sendJobDone, for one job: retried, delayed or dead.
LEMMA FinishedKeeps ==
  ASSUME NEW q \in Memory, NEW c \in Jobs, NEW p \in Finished(q, c)
  PROVE  Keeps(q, p)
<1> DEFINE r == q.job[c]
           status == IF r.status # "done" /\ r.suspendPending
                     THEN "retry"
                     ELSE r.status
           a == [q EXCEPT !.job[c].suspendPending = FALSE]
           b == Unlist(q, c)
           last == IF status = "done" THEN "done" ELSE "failed"
           d == [q EXCEPT !.job[c].state = last]
           e == DeleteRequest(d, c)
<1>1. \/ \E s \in {"sleeping", "ready"} : p = [a EXCEPT !.job[c].state = s]
      \/ p = SetSleep(b, c, "sleeping")
      \/ p = SetReadyToRun(b, c)
      \/ p = SetDead(e, c)
  BY DEF Finished
<1>2. last \in States
  BY DEF States
<1> HIDE DEF last
<1>3. Keeps(q, a) /\ Keeps(q, b) /\ Keeps(q, d)
  BY <1>2, SetSuspendPending, UnlistKeeps, SetState
<1> HIDE DEF a, b, d
<1>4. \A s \in {"sleeping", "ready"} : Keeps(a, [a EXCEPT !.job[c].state = s])
  BY <1>3, KeepsMemory, SetState, PlaceNames
<1>5. Keeps(b, SetSleep(b, c, "sleeping")) /\ Keeps(b, SetReadyToRun(b, c))
  BY <1>3, KeepsMemory, SetSleepKeeps, SetReadyToRunKeeps, PlaceNames
<1>6. Keeps(d, e)
  BY <1>3, KeepsMemory, DeleteRequestKeeps
<1> HIDE DEF e
<1>7. Keeps(e, SetDead(e, c))
  BY <1>6, KeepsMemory, SetDeadKeeps
<1>8. Keeps(q, SetDead(e, c))
  BY <1>3, <1>6, <1>7, KeepsChain
<1> QED BY <1>1, <1>3, <1>4, <1>5, <1>8, KeepsChain

-----------------------------------------------------------------------------
(* Types *)

\* The types are not inductive alone: a step of a loop over a batch takes the
\* job it is at, or the first one, from the variables of the loop.
IInv == TypeOK /\ CursorOK

\* A step that leaves the loops alone.
LEMMA QuietStep ==
  ASSUME IInv, Keeps(faxq, faxq'), UNCHANGED loop,
         frames' \in Seq([job : Jobs, cmd : Commands]),
         phase' \in {"any", "reap"}, commands' \in Nat
  PROVE  IInv'
<1>1. faxq' \in Memory
  BY KeepsMemory
<1> QED BY <1>1 DEF IInv, TypeOK, CursorOK, loop

\* The same for the handlers of input and timers.
LEMMA HandledStep ==
  ASSUME IInv, Keeps(faxq, faxq'), Handled
  PROVE  IInv'
BY QuietStep DEF Handled, IInv, TypeOK

\* The invariant makes faxq a memory.
LEMMA MemoryType == ASSUME IInv PROVE faxq \in Memory
BY DEF IInv, TypeOK

-----------------------------------------------------------------------------
(* What each action does to the memory *)

\* submitJob.
LEMMA SubmitKeeps ==
  ASSUME IInv, NEW j \in Jobs, Submit(j)
  PROVE  Keeps(faxq, faxq')
<1> DEFINE new == faxq.job[j].on = "absent" /\ faxq.job[j].qfile = "sendq"
           a == [faxq EXCEPT !.job[j].on = "none"]
           b == Remove(faxq, j)
           c == ReadRequest(b, j)
           q == IF new THEN a ELSE c
           d == [q EXCEPT !.job[j].kill = TRUE]
           e == [d EXCEPT !.job[j].expired = FALSE]
           dead == DeleteRequest(q, j)
<1>1. \/ faxq' = Poke(SetReadyToRun(e, j))
      \/ faxq' = Poke(SetSleep(e, j, "pending"))
      \/ faxq' = SetDead(dead, j)
  BY DEF Submit
<1>2. Keeps(faxq, a) /\ Keeps(faxq, b)
  BY MemoryType, SetOn, PlaceNames, RemoveKeeps
<1>3. Keeps(b, c)
  BY <1>2, KeepsMemory, ReadRequestKeeps
<1> HIDE DEF a, b, c, new
<1>4. Keeps(faxq, q)
  BY <1>2, <1>3, KeepsChain
<1> HIDE DEF q
<1>5. Keeps(q, d) /\ Keeps(q, dead)
  BY <1>4, KeepsMemory, SetKill, DeleteRequestKeeps
<1> HIDE DEF d, dead
<1>6. Keeps(d, e)
  BY <1>5, KeepsMemory, SetExpired
<1> HIDE DEF e
<1>7. Keeps(e, SetReadyToRun(e, j)) /\ Keeps(e, SetSleep(e, j, "pending"))
  BY <1>6, KeepsMemory, SetReadyToRunKeeps, SetSleepKeeps DEF States
<1>8. Keeps(SetReadyToRun(e, j), Poke(SetReadyToRun(e, j)))
  BY <1>7, KeepsMemory, PokeKeeps
<1>9. Keeps(SetSleep(e, j, "pending"), Poke(SetSleep(e, j, "pending")))
  BY <1>7, KeepsMemory, PokeKeeps
<1>10. Keeps(dead, SetDead(dead, j))
  BY <1>5, KeepsMemory, SetDeadKeeps
<1>11. Keeps(faxq, e) /\ Keeps(faxq, dead)
  BY <1>4, <1>5, <1>6, KeepsChain
<1> QED BY <1>1, <1>7, <1>8, <1>9, <1>10, <1>11, KeepsChain

\* runJob.
LEMMA TtsTimerKeeps ==
  ASSUME IInv, NEW j \in Jobs, TtsTimer(j)
  PROVE  Keeps(faxq, faxq')
<1> DEFINE q == [faxq EXCEPT !.job[j].tts = FALSE]
           a == Unlist(q, j)
           b == SetReadyToRun(a, j)
           c == ReadRequest(b, j)
           r == IF q.job[j].state = "failed" THEN q ELSE c
<1>1. faxq' = Poke(r)
  BY DEF TtsTimer
<1>2. Keeps(faxq, q)
  BY MemoryType, SetTts
<1> HIDE DEF q
<1>3. Keeps(q, a)
  BY <1>2, KeepsMemory, UnlistKeeps
<1> HIDE DEF a
<1>4. Keeps(a, b)
  BY <1>3, KeepsMemory, SetReadyToRunKeeps
<1> HIDE DEF b
<1>5. Keeps(b, c)
  BY <1>4, KeepsMemory, ReadRequestKeeps
<1> HIDE DEF c
<1>6. Keeps(faxq, r)
  BY <1>2, <1>3, <1>4, <1>5, KeepsChain
<1> HIDE DEF r
<1> QED BY <1>1, <1>6, KeepsMemory, PokeKeeps, KeepsChain

\* timeoutJob.
LEMMA KillTimerKeeps ==
  ASSUME IInv, NEW j \in Jobs, KillTimer(j)
  PROVE  Keeps(faxq, faxq')
<1> DEFINE q == [faxq EXCEPT !.job[j].kill = FALSE]
           a == Unlist(q, j)
           b == [a EXCEPT !.job[j].state = "failed"]
           c == ReadRequest(b, j)
           d == DeleteRequest(c, j)
<1>1. faxq' = [q EXCEPT !.job[j].expired = TRUE] \/ faxq' = SetDead(d, j)
  BY DEF KillTimer
<1>2. Keeps(faxq, q)
  BY MemoryType, SetKill
<1> HIDE DEF q
<1>3. Keeps(q, a) /\ Keeps(q, [q EXCEPT !.job[j].expired = TRUE])
  BY <1>2, KeepsMemory, UnlistKeeps, SetExpired
<1> HIDE DEF a
<1>4. Keeps(a, b)
  BY <1>3, KeepsMemory, SetState, PlaceNames
<1> HIDE DEF b
<1>5. Keeps(b, c)
  BY <1>4, KeepsMemory, ReadRequestKeeps
<1> HIDE DEF c
<1>6. Keeps(c, d)
  BY <1>5, KeepsMemory, DeleteRequestKeeps
<1> HIDE DEF d
<1>7. Keeps(d, SetDead(d, j))
  BY <1>6, KeepsMemory, SetDeadKeeps
<1> QED BY <1>1, <1>2, <1>3, <1>4, <1>5, <1>6, <1>7, KeepsChain

\* suspendJob and terminateJob, for a job that is not active.
LEMMA CommandKeeps ==
  ASSUME IInv, NEW j \in Jobs, NEW cmd \in Commands, Command(j, cmd)
  PROVE  Keeps(faxq, faxq')
<1> DEFINE v == IF faxq.job[j].state \in {"sleeping", "pending"}
                THEN FALSE
                ELSE faxq.job[j].tts
           q == [faxq EXCEPT !.job[j].tts = v]
           u == UnblockOne(q, DestOf[j])
           r == IF q.job[j].state = "blocked" THEN u ELSE q
<1>1. faxq' = Answer(r, j, cmd)
  BY DEF Command
<1>2. v \in BOOLEAN
  BY MemoryType, JobType DEF JobRecord
<1> HIDE DEF v
<1>3. Keeps(faxq, q)
  BY <1>2, MemoryType, SetTts
<1> HIDE DEF q
<1>4. Keeps(q, u)
  BY <1>3, KeepsMemory, UnblockOneKeeps, DestOfType
<1> HIDE DEF u
<1>5. Keeps(faxq, r)
  BY <1>3, <1>4, KeepsChain
<1> HIDE DEF r
<1> QED BY <1>1, <1>5, KeepsMemory, AnswerKeeps, KeepsChain

\* The same command for an active job, which is only marked.
LEMMA CommandActiveKeeps ==
  ASSUME IInv, NEW j \in Jobs, NEW cmd \in Commands, CommandActive(j, cmd)
  PROVE  Keeps(faxq, faxq')
<1> DEFINE a == [faxq EXCEPT !.job[j].suspendPending = TRUE]
           b == [a EXCEPT !.job[j].kill = FALSE]
<1>1. faxq' = b \/ faxq' = Fail(b, "selfkill")
  BY DEF CommandActive
<1>2. Keeps(faxq, a)
  BY MemoryType, SetSuspendPending
<1> HIDE DEF a
<1>3. Keeps(a, b)
  BY <1>2, KeepsMemory, SetKill
<1> HIDE DEF b
<1>4. Keeps(b, Fail(b, "selfkill"))
  BY <1>3, KeepsMemory, FailKeeps DEF Faults
<1> QED BY <1>1, <1>2, <1>3, <1>4, KeepsChain

\* The innermost wait is for a job, and the stack without it is a stack.
LEMMA FramesType ==
  ASSUME IInv, frames # <<>>
  PROVE  /\ Top.job \in Jobs
         /\ SubSeq(frames, 1, Len(frames) - 1) \in Seq([job : Jobs, cmd : Commands])
<1> DEFINE F == [job : Jobs, cmd : Commands]
           n == Len(frames)
<1>1. frames \in Seq(F)
  BY DEF IInv, TypeOK
<1>2. n \in Nat \ {0}
  BY <1>1
<1>3. \A i \in 1..n : frames[i] \in F
  BY <1>1, ElementOfSeq
<1>4. Top.job \in Jobs
  BY <1>2, <1>3 DEF Top
<1>5. SubSeq(frames, 1, n - 1) \in Seq(F)
  BY <1>2, <1>3, SubSeqProperties
<1> QED BY <1>4, <1>5

\* suspendJob, after its wait.
LEMMA ResumeKeeps ==
  ASSUME IInv, Resume
  PROVE  Keeps(faxq, faxq')
<1> DEFINE j == Top.job
<1>1. j \in Jobs
  BY FramesType DEF Resume
<1>2. faxq' = faxq \/ faxq' = Fail(faxq, "dangling") \/ faxq' = Answer(faxq, j, Top.cmd)
  BY DEF Resume
<1> HIDE DEF j
<1> QED BY <1>1, <1>2, MemoryType, KeepsSelf, FailKeeps, AnswerKeeps DEF Faults

\* faxq closes down.
LEMMA CloseKeeps ==
  ASSUME IInv, Close
  PROVE  Keeps(faxq, faxq')
BY MemoryType DEF Close, Keeps, Memory

\* The order to close down.
LEMMA QuitKeeps ==
  ASSUME IInv, Quit
  PROVE  Keeps(faxq, faxq')
BY MemoryType DEF Quit, Poke, Keeps, Memory

\* The messages of faxgetty.
LEMMA ModemMessageKeeps ==
  ASSUME IInv, NEW m \in Modems, NEW msg \in ModemMessages, ModemMessage(m, msg)
  PROVE  Keeps(faxq, faxq')
<1> DEFINE state == [R |-> "ready", B |-> "busy", D |-> "down", E |-> "exempt"]
           v == state[msg]
           a == [faxq EXCEPT !.modem[m].state = v]
           b == [a EXCEPT !.modem[m].poll = FALSE]
<1>1. faxq' = Poke(b) \/ faxq' = b
  BY DEF ModemMessage
<1>2. v \in {"down", "ready", "busy", "exempt"}
  BY Constants
<1> HIDE DEF v
<1>3. Keeps(faxq, a)
  BY <1>2, MemoryType, SetModemState
<1> HIDE DEF a
<1>4. Keeps(a, b)
  BY <1>3, KeepsMemory, SetModemPoll
<1> HIDE DEF b
<1> QED BY <1>1, <1>3, <1>4, KeepsMemory, PokeKeeps, KeepsChain

\* The polling of a lock.
LEMMA LockPollKeeps ==
  ASSUME IInv, NEW m \in Modems, LockPoll(m)
  PROVE  Keeps(faxq, faxq')
<1> DEFINE r == [Released(faxq.modem[m]) EXCEPT !.poll = FALSE]
           a == Poke(faxq)
           b == [a EXCEPT !.modem[m] = r]
<1>1. faxq' = b \/ faxq' = faxq
  BY DEF LockPoll, Poke
<1>2. r \in ModemRecord
  BY MemoryType DEF Memory, Released, ModemRecord
<1> HIDE DEF r
<1>3. Keeps(faxq, a)
  BY MemoryType, PokeKeeps
<1> HIDE DEF a
<1>4. Keeps(a, b)
  BY <1>2, <1>3, KeepsMemory, PutModem
<1> HIDE DEF b
<1> QED BY <1>1, <1>3, <1>4, KeepsChain, KeepsSelf, MemoryType

\* Another program takes or gives back a lock.
LEMMA OtherLockKeeps ==
  ASSUME IInv, NEW m \in Modems, OtherLock(m)
  PROVE  Keeps(faxq, faxq')
<1> DEFINE v == IF faxq.modem[m].lock = "free" THEN "other" ELSE "free"
<1>1. faxq' = [faxq EXCEPT !.modem[m].lock = v]
  BY DEF OtherLock
<1> HIDE DEF v
<1> QED BY <1>1, MemoryType, SetModemLock DEF v

\* faxsend reports that it is connected.
LEMMA CallConnectedKeeps ==
  ASSUME IInv, NEW j \in Jobs, CallConnected(j)
  PROVE  Keeps(faxq, faxq')
<1> DEFINE d == DestOf[j]
           a == Connected(faxq, d)
           q == [a EXCEPT !.job[j].child = "connected"]
<1>1. faxq' = q \/ \E U \in Unblockable(q, d, TRUE) : faxq' = Poke(Unblock(q, d, U))
  BY DEF CallConnected
<1>2. d \in Dests
  BY DestOfType
<1> HIDE DEF d
<1>3. Keeps(faxq, a)
  BY <1>2, MemoryType, ConnectedKeeps
<1> HIDE DEF a
<1>4. Keeps(a, q)
  BY <1>3, KeepsMemory, ChildLeaves
<1> HIDE DEF q
<1>5. ASSUME NEW U \in Unblockable(q, d, TRUE)
      PROVE  Keeps(q, Poke(Unblock(q, d, U)))
  <2>1. U \in SUBSET Jobs
    BY DEF Unblockable, BlockedOn
  <2>2. Keeps(q, Unblock(q, d, U))
    BY <1>2, <1>4, <2>1, KeepsMemory, UnblockKeeps
  <2> QED BY <2>2, KeepsMemory, PokeKeeps, KeepsChain
<1> QED BY <1>1, <1>3, <1>4, <1>5, KeepsChain

\* Each visit of a scheduler pass starts with the same checks.
LEMMA VisitedKeeps ==
  ASSUME IInv, NEW j \in Jobs
  PROVE  Keeps(faxq, Visited(j))
BY MemoryType, FxAssertKeeps, ReadRequestKeeps, KeepsMemory, KeepsChain DEF
   Visited

\* rejectJob, for a job with no try left or with an exempt modem.
LEMMA RejectKeeps ==
  ASSUME IInv, NEW j \in Jobs, RejectJob(j)
  PROVE  Keeps(faxq, faxq')
<1> DEFINE a == Visited(j)
           b == SetDead(a, j)
<1>1. faxq' = DeleteRequest(b, j)
  BY DEF RejectJob
<1>2. Keeps(faxq, a)
  BY VisitedKeeps
<1> HIDE DEF a
<1>3. Keeps(a, b)
  BY <1>2, KeepsMemory, SetDeadKeeps
<1> HIDE DEF b
<1> QED BY <1>1, <1>2, <1>3, KeepsMemory, DeleteRequestKeeps, KeepsChain

\* blockJob.
LEMMA VisitBlockedKeeps ==
  ASSUME IInv, NEW j \in Jobs, VisitBlocked(j)
  PROVE  Keeps(faxq, faxq')
<1> DEFINE a == Visited(j)
           b == Unlist(a, j)
           c == Insert(b, j, "blocked")
           d == [c EXCEPT !.job[j].state = "blocked"]
<1>1. faxq' = [d EXCEPT !.di[DestOf[j]].blocked = @ + 1]
  BY DEF VisitBlocked
<1>2. Keeps(faxq, a)
  BY VisitedKeeps
<1> HIDE DEF a
<1>3. Keeps(a, b)
  BY <1>2, KeepsMemory, UnlistKeeps
<1> HIDE DEF b
<1>4. Keeps(b, c)
  BY <1>3, KeepsMemory, InsertKeeps, PlaceNames
<1> HIDE DEF c
<1>5. Keeps(c, d)
  BY <1>4, KeepsMemory, SetState, PlaceNames
<1> HIDE DEF d
<1>6. Keeps(d, faxq')
  BY <1>1, <1>5, KeepsMemory, CountBlockedKeeps, DestOfType
<1> QED BY <1>2, <1>3, <1>4, <1>5, <1>6, KeepsChain

\* delayJob, on a visit.
LEMMA VisitDelayedKeeps ==
  ASSUME IInv, NEW j \in Jobs, VisitDelayed(j)
  PROVE  Keeps(faxq, faxq')
<1> DEFINE a == Visited(j)
           b == Unlist(a, j)
<1>1. faxq' = DelayJob(b, j)
  BY DEF VisitDelayed
<1>2. Keeps(faxq, a)
  BY VisitedKeeps
<1> HIDE DEF a
<1>3. Keeps(a, b)
  BY <1>2, KeepsMemory, UnlistKeeps
<1> HIDE DEF b
<1> QED BY <1>1, <1>2, <1>3, KeepsMemory, DelayJobKeeps, KeepsChain

\* No modem is found; locks may come to be polled.
LEMMA VisitNoModemKeeps ==
  ASSUME IInv, NEW j \in Jobs, VisitNoModem(j)
  PROVE  Keeps(faxq, faxq')
BY VisitedKeeps, PollingKeeps, KeepsMemory, KeepsChain DEF VisitNoModem

\* Whichever way a modem is assigned, the pass turns to the call from a memory
\* that is kept.
LEMMA VisitAssignKeeps ==
  ASSUME IInv, NEW j \in Jobs, VisitAssign(j)
  PROVE  \E q : Keeps(faxq, q) /\ StartCall(q, j)
<1>1. PICK m \in ReadyFor(j) \ Locked(j), T \in SUBSET Locked(j) :
             StartCall(Assigned(Polling(Visited(j), T), j, m, "faxq"), j)
  BY DEF VisitAssign
<1>2. m \in Modems
  BY CandidatesType DEF ReadyFor
<1>3. Keeps(faxq, Polling(Visited(j), T))
  BY VisitedKeeps, PollingKeeps, KeepsMemory, KeepsChain
<1>4. Keeps(faxq, Assigned(Polling(Visited(j), T), j, m, "faxq"))
  BY <1>2, <1>3, AssignedKeeps, KeepsMemory, KeepsChain
<1> QED BY <1>1, <1>4

\* The same with ignoremodembusy.
LEMMA VisitAssignBusyKeeps ==
  ASSUME IInv, NEW j \in Jobs, VisitAssignBusy(j)
  PROVE  \E q : Keeps(faxq, q) /\ StartCall(q, j)
<1> DEFINE m == ModemOf[j]
           lock == faxq.modem[m].lock
           T == Locked(j)
<1>1. StartCall(Assigned(Polling(Visited(j), T), j, m, lock), j)
  BY DEF VisitAssignBusy
<1>2. m \in Modems
  BY Constants DEF VisitAssignBusy, Ignoring
<1>3. lock \in {"free", "faxq", "other"}
  BY <1>2, MemoryType DEF Memory, ModemRecord
<1> HIDE DEF m, lock, T
<1>4. Keeps(faxq, Polling(Visited(j), T))
  BY VisitedKeeps, PollingKeeps, KeepsMemory, KeepsChain
<1>5. Keeps(faxq, Assigned(Polling(Visited(j), T), j, m, lock))
  BY <1>2, <1>3, <1>4, AssignedKeeps, KeepsMemory, KeepsChain
<1> QED BY <1>1, <1>5

\* The batch is complete.
LEMMA EndBatchKeeps ==
  ASSUME IInv, EndBatch
  PROVE  Keeps(faxq, faxq')
<1> DEFINE a == [faxq EXCEPT !.job[cur].bnext = NoJob]
           d == DestOf[head]
           q == Call(a, d)
<1>1. faxq' = q
  BY DEF EndBatch
<1>2. cur \in Jobs /\ d \in Dests
  BY DestOfType DEF EndBatch, IInv, CursorOK
<1> HIDE DEF d
<1>3. Keeps(faxq, a)
  BY <1>2, MemoryType, SetBnext
<1> HIDE DEF a
<1>4. Keeps(a, q)
  BY <1>2, <1>3, KeepsMemory, CallKeeps
<1> HIDE DEF q
<1> QED BY <1>1, <1>3, <1>4, KeepsMemory, KeepsChain

\* The pass is over and the dead are reaped.
LEMMA EndScanKeeps ==
  ASSUME IInv, EndScan
  PROVE  Keeps(faxq, faxq')
BY MemoryType, ReapKeeps DEF EndScan

\* processJob makes a job active.
LEMMA EnteredKeeps ==
  ASSUME IInv, cur \in Jobs, NEW q \in Entered
  PROVE  Keeps(faxq, q)
<1>1. PICK e \in {faxq, Fail(faxq, "dangling"), Active(faxq, cur)} : q = SetActive(e, cur)
  BY DEF Entered
<1>2. Keeps(faxq, e)
  BY MemoryType, KeepsSelf, FailKeeps, ActiveKeeps DEF Faults
<1> QED BY <1>1, <1>2, KeepsMemory, SetActiveKeeps, KeepsChain

\* processJob rejects the job it has made active.
LEMMA ProcessRejectKeeps ==
  ASSUME IInv, cur \in Jobs, NEW q \in Entered
  PROVE  LET failed == DeleteRequest([q EXCEPT !.job[cur].state = "failed"], cur)
         IN Keeps(faxq, SetDead(failed, cur))
<1> DEFINE a == [q EXCEPT !.job[cur].state = "failed"]
           b == DeleteRequest(a, cur)
<1>1. Keeps(faxq, q)
  BY EnteredKeeps
<1>2. Keeps(q, a)
  BY <1>1, KeepsMemory, SetState, PlaceNames
<1> HIDE DEF a
<1>3. Keeps(a, b)
  BY <1>2, KeepsMemory, DeleteRequestKeeps
<1> HIDE DEF b
<1>4. Keeps(b, SetDead(b, cur))
  BY <1>3, KeepsMemory, SetDeadKeeps
<1>5. Keeps(faxq, SetDead(b, cur))
  BY <1>1, <1>2, <1>3, <1>4, KeepsChain
<1> QED BY <1>5 DEF a, b

\* sendJobStart, with a child.
LEMMA SendJobStartKeeps ==
  ASSUME IInv, SendJobStart
  PROVE  \E q : Keeps(faxq, q) /\ ReturnWith(q)
<1> DEFINE B == Batch(faxq, head)
           ok == faxq.job[head].qlock /\ faxq.job[head].modem # NoModem
<1>1. ReturnWith(Starts(faxq, B, head, ok))
  BY DEF SendJobStart, Starts
<1> HIDE DEF B, ok
<1> QED BY <1>1, MemoryType, StartsKeeps

\* sendJobStart, without a child.
LEMMA SendForkFailsKeeps ==
  ASSUME IInv, SendForkFails
  PROVE  \E q : Keeps(faxq, q) /\ ReturnWith(q)
<1> DEFINE B == Batch(faxq, head)
           M == {faxq.job[k].modem : k \in B}
           ok == \A k \in B : IsOnList(faxq, k)
<1>1. ReturnWith(SendFails(faxq, B, M, ok))
  BY DEF SendForkFails, SendFails
<1> HIDE DEF B, M, ok
<1> QED BY <1>1, MemoryType, SendFailsKeeps

\* No job is left to send.
LEMMA ProcessNothingKeeps ==
  ASSUME IInv, ProcessNothing
  PROVE  \E q : Keeps(faxq, q) /\ ReturnWith(q)
<1>1. PICK q \in IF dest = NoDest THEN {faxq, Fail(faxq, "dangling")}
                 ELSE {Hangup(faxq, dest)} : ReturnWith(q)
  BY DEF ProcessNothing
<1>2. Keeps(faxq, q)
  <2>1. CASE dest = NoDest
    BY <1>1, <2>1, MemoryType, KeepsSelf, FailKeeps DEF Faults
  <2>2. CASE dest # NoDest
    BY <1>1, <2>2, MemoryType, HangupKeeps DEF IInv, TypeOK
  <2> QED BY <2>1, <2>2
<1> QED BY <1>1, <1>2

\* sendJobDone, for one job of a batch.
LEMMA FinishJobKeeps ==
  ASSUME IInv, FinishJob
  PROVE  Keeps(faxq, faxq')
<1> DEFINE a == ReadRequest(faxq, cur)
           b == [a EXCEPT !.job[cur].bnext = NoJob]
           c == [b EXCEPT !.job[cur].bprev = NoJob]
<1>1. PICK q \in Finished(c, cur) :
        LET r == [q EXCEPT !.job[cur].status = "none"]
        IN faxq' = Poke(r) \/ faxq' = r
  BY DEF FinishJob
<1>2. cur \in Jobs
  BY DEF FinishJob, IInv, CursorOK
<1>3. Keeps(faxq, a)
  BY <1>2, MemoryType, ReadRequestKeeps
<1> HIDE DEF a
<1>4. Keeps(a, b)
  BY <1>2, <1>3, KeepsMemory, SetBnext
<1> HIDE DEF b
<1>5. Keeps(b, c)
  BY <1>2, <1>4, KeepsMemory, SetBprev
<1> HIDE DEF c
<1>6. Keeps(c, q)
  BY <1>2, <1>5, KeepsMemory, FinishedKeeps
<1> DEFINE r == [q EXCEPT !.job[cur].status = "none"]
<1>7. Keeps(q, r)
  BY <1>2, <1>6, KeepsMemory, SetStatus
<1>8. faxq' = Poke(r) \/ faxq' = r
  BY <1>1
<1> HIDE DEF r
<1>9. Keeps(r, Poke(r))
  BY <1>7, KeepsMemory, PokeKeeps
<1> QED BY <1>3, <1>4, <1>5, <1>6, <1>7, <1>8, <1>9, KeepsChain

\* sendJobDone, for a batch.
LEMMA SendDoneKeeps ==
  ASSUME IInv, NEW j \in Jobs, SendDone(j)
  PROVE  Keeps(faxq, faxq')
<1> DEFINE d == DestOf[j]
<1>1. PICK stop \in Batch(faxq, j) \cup {NoJob}, why \in {"failed", "retry"},
           counted \in {TRUE, ~Uncounted} :
        LET sent == [Reaped(j) EXCEPT !.job = Outcome(Reaped(j), j, stop, why, counted)]
            q == ReadRequest(ReleaseIfHeld(Hangup(sent, d), j), j)
        IN \/ faxq' = DelayBlocked(q, d)
           \/ \E U \in Unblockable(q, d, TRUE) : faxq' = Unblock(q, d, U)
  BY DEF SendDone
<1>2. d \in Dests
  BY DestOfType
<1> HIDE DEF d
<1> DEFINE a == Reaped(j)
           b == [a EXCEPT !.job = Outcome(a, j, stop, why, counted)]
           c == Hangup(b, d)
           e == ReleaseIfHeld(c, j)
           q == ReadRequest(e, j)
<1>3. \/ faxq' = DelayBlocked(q, d)
      \/ \E U \in Unblockable(q, d, TRUE) : faxq' = Unblock(q, d, U)
  BY <1>1
<1>4. Keeps(faxq, a)
  BY MemoryType, ChildLeaves DEF Reaped
<1> HIDE DEF a
<1>5. Keeps(a, b)
  BY <1>4, KeepsMemory, OutcomeKeeps
<1> HIDE DEF b
<1>6. Keeps(b, c)
  BY <1>2, <1>5, KeepsMemory, HangupKeeps
<1> HIDE DEF c
<1>7. Keeps(c, e)
  BY <1>6, KeepsMemory, ReleaseIfHeldKeeps
<1> HIDE DEF e
<1>8. Keeps(e, q)
  BY <1>7, KeepsMemory, ReadRequestKeeps
<1> HIDE DEF q
<1>9. Unblockable(q, d, TRUE) \subseteq SUBSET Jobs
  BY DEF Unblockable, BlockedOn
<1>10. Keeps(q, faxq')
  BY <1>2, <1>3, <1>8, <1>9, KeepsMemory, DelayBlockedKeeps, UnblockKeeps
<1> QED BY <1>4, <1>5, <1>6, <1>7, <1>8, <1>10, KeepsChain

\* A job joins the batch at hand.
LEMMA AddToBatchKeeps ==
  ASSUME IInv, NEW c \in Jobs, AddToBatch(c)
  PROVE  Keeps(faxq, faxq')
<1>1. cur \in Jobs
  BY DEF AddToBatch, IInv, CursorOK
<1> QED BY <1>1, MemoryType, JoinKeeps DEF AddToBatch

\* The neighbours of a job in its batch are jobs.
LEMMA NextInBatchType ==
  ASSUME IInv, cur \in Jobs
  PROVE  {faxq.job[cur].bnext, faxq.job[cur].bprev} \subseteq Jobs \cup {NoJob}
BY MemoryType, JobType DEF JobRecord

\* processJob goes on to the next job of the batch.
LEMMA ProcessReadyKeeps ==
  ASSUME IInv, ProcessReady
  PROVE  Keeps(faxq, faxq')
<1>1. cur \in Jobs
  BY DEF ProcessReady, IInv, TypeOK
<1> QED BY <1>1, EnteredKeeps DEF ProcessReady, OnToNextInBatch

\* processJob goes on after it has rejected a job.
LEMMA ProcessRejectedKeeps ==
  ASSUME IInv, ProcessReject
  PROVE  Keeps(faxq, faxq')
<1>1. cur \in Jobs
  BY DEF ProcessReject, IInv, TypeOK
<1> QED BY <1>1, ProcessRejectKeeps DEF ProcessReject, OnToNextInBatch

\* A preparation slot is taken, by a child or by nobody.
LEMMA ProcessForkFailsSlot ==
  ASSUME IInv, ProcessForkFails
  PROVE  \E q : Keeps(faxq, q) /\ faxq' = [q EXCEPT !.numPrepares = @ + 1]
<1>1. cur \in Jobs
  BY DEF ProcessForkFails, IInv, TypeOK
<1>2. PICK q \in Entered :
        faxq' = [DelayJob(Unlist(q, cur), cur) EXCEPT
                   !.job[cur].qlock = FALSE, !.numPrepares = @ + 1]
  BY DEF ProcessForkFails, OnToNextInBatch
<1> DEFINE a == Unlist(q, cur)
           b == DelayJob(a, cur)
           c == [b EXCEPT !.job[cur].qlock = FALSE]
<1>3. faxq' = [c EXCEPT !.numPrepares = @ + 1]
  BY <1>2
<1>4. Keeps(faxq, q)
  BY <1>1, EnteredKeeps
<1>5. Keeps(q, a)
  BY <1>1, <1>4, KeepsMemory, UnlistKeeps
<1> HIDE DEF a
<1>6. Keeps(a, b)
  BY <1>1, <1>5, KeepsMemory, DelayJobKeeps
<1> HIDE DEF b
<1>7. Keeps(b, c)
  BY <1>1, <1>6, KeepsMemory, SetQlock
<1> HIDE DEF c
<1> QED BY <1>3, <1>4, <1>5, <1>6, <1>7, KeepsChain

\* The preparations of p, and perhaps one more, and its slot.
OneMore(p, q) ==
  /\ q \in Memory /\ q.numPrepares = p.numPrepares + 1
  /\ \E j \in Jobs : \A k \in Jobs \ {j} :
       q.job[k].child = "prepare" => p.job[k].child = "prepare"

\* prepareJobStart takes a slot for its child.
LEMMA ProcessPrepareSlot ==
  ASSUME IInv, ProcessPrepare
  PROVE  \E q : OneMore(faxq, q) /\ ReturnWith(q)
<1>1. cur \in Jobs
  BY DEF ProcessPrepare, IInv, TypeOK
<1>2. PICK e \in Entered : ReturnWith([e EXCEPT
        !.numPrepares = @ + 1, !.job[cur].child = "prepare",
        !.job[cur].pid = "set", !.job[cur].qlock = FALSE])
  BY DEF ProcessPrepare
<1> DEFINE n == e.numPrepares + 1
           a == [e EXCEPT !.numPrepares = n]
           b == [a EXCEPT !.job[cur].child = "prepare"]
           c == [b EXCEPT !.job[cur].pid = "set"]
           q == [c EXCEPT !.job[cur].qlock = FALSE]
<1>3. ReturnWith(q)
  BY <1>2
<1>4. Keeps(faxq, e)
  BY <1>1, EnteredKeeps
<1>5. n \in Nat /\ n = faxq.numPrepares + 1
  BY <1>4, MemoryType DEF Keeps, Memory
<1> HIDE DEF n
<1>6. a \in Memory /\ a.numPrepares = n /\ a.job = e.job
  BY <1>4, <1>5, KeepsMemory DEF Memory
<1> HIDE DEF a
<1>7. /\ b \in Memory /\ b.numPrepares = n
      /\ \A k \in Jobs \ {cur} : b.job[k] = e.job[k]
  BY <1>1, <1>6 DEF Memory, JobRecord
<1> HIDE DEF b
<1>8. Keeps(b, c)
  BY <1>1, <1>7, SetPid
<1> HIDE DEF c
<1>9. Keeps(c, q)
  BY <1>1, <1>8, KeepsMemory, SetQlock
<1> HIDE DEF q
<1>10. Keeps(b, q)
  BY <1>8, <1>9, KeepsChain
<1>11. OneMore(faxq, q)
  BY <1>1, <1>4, <1>5, <1>7, <1>10 DEF OneMore, Keeps
<1> QED BY <1>3, <1>11

-----------------------------------------------------------------------------
\* The exit of a child that prepared j: j is not being prepared any more.
Ended(q, j) == Keeps(faxq, q) /\ q.job[j].child # "prepare"

\* Once its child has exited, nothing prepares j again in the same handler.
LEMMA EndedChain ==
  ASSUME NEW p, NEW q, NEW j \in Jobs, Ended(p, j), Keeps(p, q)
  PROVE  Ended(q, j)
BY KeepsChain DEF Ended, Keeps

\* The exit itself ends the preparation.
LEMMA ReapedEnds == ASSUME IInv, NEW j \in Jobs PROVE Ended(Reaped(j), j)
<1>1. Keeps(faxq, Reaped(j))
  BY MemoryType, ChildLeaves DEF Reaped
<1>2. Reaped(j).job[j].child = "none"
  BY MemoryType DEF Reaped, Memory, JobRecord
<1> QED BY <1>1, <1>2 DEF Ended

\* What is left is a memory.
LEMMA EndedMemory == ASSUME NEW q, NEW j, Ended(q, j) PROVE q \in Memory
BY KeepsMemory DEF Ended

\* prepareJobDone, when the job is waited for.
LEMMA PrepareInterruptedEnds ==
  ASSUME IInv, NEW j \in Jobs, PrepareInterrupted(j)
  PROVE  \E q : Ended(q, j) /\ faxq' = PrepareFinished(q)
<1> DEFINE a == Reaped(j)
           b == [a EXCEPT !.job[j].suspendPending = FALSE]
           c == ReleaseModem(b, j)
<1>1. faxq' = PrepareFinished(c)
  BY DEF PrepareInterrupted
<1>2. Ended(a, j)
  BY ReapedEnds
<1> HIDE DEF a
<1>3. Ended(b, j)
  BY <1>2, EndedMemory, EndedChain, SetSuspendPending
<1> HIDE DEF b
<1>4. Ended(c, j)
  BY <1>3, EndedMemory, EndedChain, ReleaseModemKeeps
<1> QED BY <1>1, <1>4

\* What prepareJobDone goes on with.
GoneOn(q) ==
  \E next, first \in Jobs \cup {NoJob}, d \in Dests : GoOn(q, next, first, d)

\* prepareJobDone, when the job can be sent.
LEMMA PrepareDoneEnds ==
  ASSUME IInv, NEW j \in Jobs, PrepareDone(j)
  PROVE  \E q : Ended(q, j) /\ GoneOn(q)
<1> DEFINE a == Reaped(j)
           b == ReadRequest(a, j)
           q == [b EXCEPT !.job[j].qlock = TRUE]
<1>1. GoOn(q, q.job[j].bnext, First(q, j), DestOf[j])
  BY DEF PrepareDone
<1>2. Ended(a, j)
  BY ReapedEnds
<1> HIDE DEF a
<1>3. Ended(b, j)
  BY <1>2, EndedMemory, EndedChain, ReadRequestKeeps
<1> HIDE DEF b
<1>4. Ended(q, j)
  BY <1>3, EndedMemory, EndedChain, SetQlock
<1> HIDE DEF q
<1>5. q.job[j].bnext \in Jobs \cup {NoJob}
  BY <1>4, EndedMemory, JobType DEF JobRecord
<1> QED BY <1>1, <1>4, <1>5, FirstType, DestOfType DEF GoneOn

\* prepareJobDone, when it cannot.
LEMMA PrepareFailedEnds ==
  ASSUME IInv, NEW j \in Jobs, PrepareFailed(j)
  PROVE  \E q : /\ Ended(q, j)
                /\ GoneOn(q) \/ (faxq' = PrepareFinished(q) /\ UNCHANGED loop)
<1> DEFINE r == faxq.job[j]
           alone == r.bnext = NoJob /\ r.bprev = NoJob
           a == Reaped(j)
           b == ReadRequest(a, j)
           c == [b EXCEPT !.job[j].modem = IF alone THEN @ ELSE NoModem]
           e == DelayJob(Unlist(c, j), j)
           f == SetDead(DeleteRequest(c, j), j)
<1>1. PICK requeued \in BOOLEAN :
       LET left == IF requeued THEN e ELSE f
           hungup == Hangup(left, DestOf[j])
       IN \/ /\ alone
             /\ \E U \in Unblockable(hungup, DestOf[j], FALSE) :
                  faxq' = PrepareFinished(Poke(Unblock(hungup, DestOf[j], U)))
             /\ UNCHANGED loop
          \/ /\ r.bnext # NoJob
             /\ GoOn(left, r.bnext, First(left, r.bnext), DestOf[j])
          \/ /\ r.bnext = NoJob /\ r.bprev # NoJob
             /\ GoOn(left, NoJob, First(left, r.bprev), DestOf[j])
  BY DEF PrepareFailed
<1> DEFINE left == IF requeued THEN e ELSE f
           hungup == Hangup(left, DestOf[j])
<1>2. \/ /\ \E U \in Unblockable(hungup, DestOf[j], FALSE) :
              faxq' = PrepareFinished(Poke(Unblock(hungup, DestOf[j], U)))
         /\ UNCHANGED loop
      \/ GoOn(left, r.bnext, First(left, r.bnext), DestOf[j])
      \/ GoOn(left, NoJob, First(left, r.bprev), DestOf[j])
  BY <1>1
<1>3. r.bnext \in Jobs \cup {NoJob}
  BY MemoryType, JobType DEF JobRecord
<1>4. Ended(a, j)
  BY ReapedEnds
<1> HIDE DEF a
<1>5. Ended(b, j)
  BY <1>4, EndedMemory, EndedChain, ReadRequestKeeps
<1> HIDE DEF b
<1>6. Ended(c, j)
  <2> DEFINE v == IF alone THEN b.job[j].modem ELSE NoModem
  <2>1. v \in Modems \cup {NoModem}
    BY <1>5, EndedMemory, JobType DEF JobRecord
  <2>2. c = [b EXCEPT !.job[j].modem = v]
    OBVIOUS
  <2> HIDE DEF v, c
  <2> QED BY <1>5, <2>1, <2>2, EndedMemory, EndedChain, SetModem
<1> HIDE DEF alone, c, r
<1>7. Ended(e, j)
  <2>1. Ended(Unlist(c, j), j)
    BY <1>6, EndedMemory, EndedChain, UnlistKeeps
  <2> QED BY <2>1, EndedMemory, EndedChain, DelayJobKeeps
<1>8. Ended(f, j)
  <2>1. Ended(DeleteRequest(c, j), j)
    BY <1>6, EndedMemory, EndedChain, DeleteRequestKeeps
  <2> QED BY <2>1, EndedMemory, EndedChain, SetDeadKeeps
<1> HIDE DEF e, f
<1>9. Ended(left, j)
  BY <1>7, <1>8
<1> HIDE DEF left
<1>10. Ended(hungup, j)
  BY <1>9, EndedMemory, EndedChain, HangupKeeps, DestOfType
<1> HIDE DEF hungup
<1>11. ASSUME NEW U \in Unblockable(hungup, DestOf[j], FALSE)
       PROVE  Ended(Poke(Unblock(hungup, DestOf[j], U)), j)
  <2>1. U \in SUBSET Jobs
    BY DEF Unblockable, BlockedOn
  <2>2. Ended(Unblock(hungup, DestOf[j], U), j)
    BY <1>10, <2>1, EndedMemory, EndedChain, UnblockKeeps, DestOfType
  <2> QED BY <2>2, EndedMemory, EndedChain, PokeKeeps
<1> QED BY <1>2, <1>3, <1>9, <1>11, FirstType, DestOfType DEF GoneOn

-----------------------------------------------------------------------------
(* The loops keep their types *)

\* A step of a loop: what it may change beside the memory.
Stepped ==
  /\ faxq' \in Memory
  /\ pc' \in {"idle", "scan", "batch", "process", "finish"}
  /\ caller' \in {"scan", "prepareJobDone"}
  /\ cur' \in Jobs \cup {NoJob} /\ head' \in Jobs \cup {NoJob}
  /\ dest' \in Dests \cup {NoDest} /\ todo' \subseteq Jobs
  /\ pc' = "batch" => cur' \in Jobs /\ head' \in Jobs
  /\ pc' = "finish" => cur' \in Jobs
  /\ UNCHANGED <<frames, commands>> /\ phase' \in {"any", "reap"}

\* Such a step keeps the invariant.
LEMMA SteppedStep == ASSUME IInv, Stepped PROVE IInv'
BY DEF IInv, TypeOK, CursorOK, Stepped

\* processJob returns.
LEMMA ReturnedStep ==
  ASSUME IInv, NEW q \in Memory, ReturnWith(q), UNCHANGED <<frames, phase,
         commands>>
  PROVE  IInv'
<1>1. faxq' \in Memory
  BY PrepareFinishedType DEF ReturnWith
<1> QED BY <1>1, SteppedStep DEF Stepped, ReturnWith, IInv, TypeOK

\* A pass turns from a visit to a call.
LEMMA CalledStep ==
  ASSUME IInv, NEW j \in Jobs, NEW q, Keeps(faxq, q), StartCall(q, j),
         UNCHANGED <<frames, phase, commands>>
  PROVE  IInv'
<1>1. faxq' \in Memory
  BY StartCallKeeps, KeepsMemory
<1>2. todo' \subseteq Jobs
  BY DEF StartCall, Unblockable, BlockedOn, IInv, TypeOK
<1>3. dest' \in Dests /\ cur' = j /\ head' = j /\ caller' = "scan"
  BY DestOfType DEF StartCall
<1>4. pc' \in {"process", "batch"}
  BY DEF StartCall
<1> QED BY <1>1, <1>2, <1>3, <1>4, SteppedStep DEF Stepped, IInv, TypeOK

\* prepareJobDone goes on with a batch.
LEMMA GoneOnStep ==
  ASSUME IInv, NEW q \in Memory, GoneOn(q), Reaping
  PROVE  IInv'
<1>1. PICK next \in Jobs \cup {NoJob}, first \in Jobs \cup {NoJob}, d \in Dests :
             GoOn(q, next, first, d)
  BY DEF GoneOn
<1> QED BY <1>1, SteppedStep DEF GoOn, Reaping, Stepped, IInv, TypeOK

\* A visit that leaves the job to a later pass, or for good.
LEMMA VisitedStep ==
  ASSUME IInv, NEW j \in Jobs, Keeps(faxq, faxq'), OnToNext(j),
         UNCHANGED <<frames, phase, commands>>
  PROVE  IInv'
<1>1. faxq' \in Memory
  BY KeepsMemory
<1> QED BY <1>1 DEF OnToNext, IInv, TypeOK, CursorOK

\* The invariant holds when faxq starts.
LEMMA Initially == Init => IInv
<1> SUFFICES ASSUME Init PROVE IInv
  OBVIOUS
<1>1. NewJob \in JobRecord
  BY Constants DEF NewJob, JobRecord, Places, States
<1>2. NewDest \in DestRecord
  BY DEF NewDest, DestRecord
<1>3. faxq \in Memory
  <2> DEFINE m == [state |-> "ready", lock |-> "free", poll |-> FALSE]
  <2>1. m \in ModemRecord
    BY DEF ModemRecord
  <2>2. faxq = [job |-> [j \in Jobs |-> NewJob], di |-> [d \in Dests |-> NewDest],
                modem |-> [i \in Modems |-> m],
                numPrepares |-> 0, poked |-> TRUE,
                quit |-> FALSE, running |-> TRUE, fault |-> "none"]
    BY DEF Init
  <2> HIDE DEF m
  <2> QED BY <1>1, <1>2, <2>1, <2>2 DEF Memory, Faults
<1>4. frames \in Seq([job : Jobs, cmd : Commands])
  BY DEF Init
<1> QED BY <1>3, <1>4 DEF Init, IInv, TypeOK, CursorOK

-----------------------------------------------------------------------------
(* The inductive step *)

\* Every action keeps the invariant.
LEMMA Inductive == IInv /\ [Next]_vars => IInv'
<1> SUFFICES ASSUME IInv, [Next]_vars PROVE IInv'
  OBVIOUS
<1>1. ASSUME RunScheduler
      PROVE  IInv'
  <2>1. PICK n \in {faxq.numPrepares, 0} :
          faxq' = [faxq EXCEPT !.poked = FALSE, !.numPrepares = n]
    BY <1>1 DEF RunScheduler
  <2>2. n \in Nat /\ faxq \in Memory
    BY MemoryType DEF Memory
  <2>3. faxq' \in Memory
    BY <2>1, <2>2 DEF Memory
  <2>4. todo' \subseteq Jobs
    BY <1>1 DEF RunScheduler, OnQueue
  <2> QED BY <1>1, <2>3, <2>4, SteppedStep DEF RunScheduler, Stepped, IInv,
             TypeOK
<1>2. ASSUME Close
      PROVE  IInv'
  BY <1>2, CloseKeeps, HandledStep DEF Close
<1>3. ASSUME EndScan
      PROVE  IInv'
  BY <1>3, EndScanKeeps, KeepsMemory, SteppedStep DEF EndScan, Stepped, IInv,
     TypeOK
<1>4. ASSUME EndBatch
      PROVE  IInv'
  <2>1. faxq' \in Memory
    BY <1>4, EndBatchKeeps, KeepsMemory
  <2> QED BY <1>4, <2>1, SteppedStep DEF EndBatch, Stepped, IInv, TypeOK
<1>5. ASSUME Resume
      PROVE  IInv'
  <2>1. frames' \in Seq([job : Jobs, cmd : Commands])
    BY <1>5, FramesType DEF Resume
  <2> QED BY <1>5, <2>1, ResumeKeeps, QuietStep DEF Resume, IInv, TypeOK
<1>6. ASSUME ProcessReady
      PROVE  IInv'
  <2>1. cur \in Jobs /\ faxq' \in Memory
    BY <1>6, ProcessReadyKeeps, KeepsMemory DEF ProcessReady, IInv, TypeOK
  <2>2. dest' \in Dests \cup {NoDest}
    BY <1>6 DEF ProcessReady, IInv, TypeOK
  <2>3. cur' \in Jobs \cup {NoJob} /\ head' \in Jobs \cup {NoJob}
    BY <1>6, <2>1, NextInBatchType DEF ProcessReady, OnToNextInBatch, IInv,
       TypeOK
  <2>4. pc = "process" /\ UNCHANGED <<pc, caller, todo, frames, phase, commands>>
    BY <1>6 DEF ProcessReady, Processing, OnToNextInBatch
  <2> QED BY <2>1, <2>2, <2>3, <2>4, SteppedStep DEF Stepped, IInv, TypeOK
<1>7. ASSUME ProcessReject
      PROVE  IInv'
  <2>1. cur \in Jobs /\ faxq' \in Memory
    BY <1>7, ProcessRejectedKeeps, KeepsMemory DEF ProcessReject, IInv, TypeOK
  <2>2. dest' \in Dests \cup {NoDest}
    BY <1>7 DEF ProcessReject, IInv, TypeOK
  <2>3. cur' \in Jobs \cup {NoJob} /\ head' \in Jobs \cup {NoJob}
    BY <1>7, <2>1, NextInBatchType DEF ProcessReject, OnToNextInBatch, IInv,
       TypeOK
  <2>4. pc = "process" /\ UNCHANGED <<pc, caller, todo, frames, phase, commands>>
    BY <1>7 DEF ProcessReject, Processing, OnToNextInBatch
  <2> QED BY <2>1, <2>2, <2>3, <2>4, SteppedStep DEF Stepped, IInv, TypeOK
<1>8. ASSUME ProcessPrepare
      PROVE  IInv'
  <2>1. PICK q : OneMore(faxq, q) /\ ReturnWith(q)
    BY <1>8, ProcessPrepareSlot
  <2> QED BY <1>8, <2>1, ReturnedStep DEF OneMore, ProcessPrepare, Processing
<1>9. ASSUME ProcessForkFails
      PROVE  IInv'
  <2>1. PICK q : Keeps(faxq, q) /\ faxq' = [q EXCEPT !.numPrepares = @ + 1]
    BY <1>9, ProcessForkFailsSlot
  <2>2. cur \in Jobs /\ faxq' \in Memory
    <3>1. q \in Memory /\ q.numPrepares + 1 \in Nat
      BY <2>1, KeepsMemory DEF Memory
    <3>2. faxq' = [q EXCEPT !.numPrepares = q.numPrepares + 1]
      BY <2>1
    <3>3. faxq' \in Memory
      BY <3>1, <3>2 DEF Memory
    <3> QED BY <1>9, <3>3 DEF ProcessForkFails, IInv, TypeOK
  <2>3. cur' \in Jobs \cup {NoJob} /\ head' \in Jobs \cup {NoJob}
    BY <1>9, <2>2, NextInBatchType DEF ProcessForkFails, OnToNextInBatch
  <2>4. pc = "process" /\ UNCHANGED <<pc, caller, todo, dest, frames, phase, commands>>
    BY <1>9 DEF ProcessForkFails, Processing, OnToNextInBatch
  <2> QED BY <2>2, <2>3, <2>4, SteppedStep DEF Stepped, IInv, TypeOK
<1>10. ASSUME SendJobStart
      PROVE  IInv'
  <2>1. PICK q : Keeps(faxq, q) /\ ReturnWith(q)
    BY <1>10, SendJobStartKeeps
  <2> QED BY <1>10, <2>1, KeepsMemory, ReturnedStep DEF SendJobStart, Processing
<1>11. ASSUME SendForkFails
      PROVE  IInv'
  <2>1. PICK q : Keeps(faxq, q) /\ ReturnWith(q)
    BY <1>11, SendForkFailsKeeps
  <2> QED BY <1>11, <2>1, KeepsMemory, ReturnedStep DEF SendForkFails,
             Processing
<1>12. ASSUME ProcessNothing
      PROVE  IInv'
  <2>1. PICK q : Keeps(faxq, q) /\ ReturnWith(q)
    BY <1>12, ProcessNothingKeeps
  <2> QED BY <1>12, <2>1, KeepsMemory, ReturnedStep DEF ProcessNothing,
             Processing
<1>13. ASSUME FinishJob
      PROVE  IInv'
  <2>1. cur \in Jobs /\ faxq' \in Memory
    BY <1>13, FinishJobKeeps, KeepsMemory DEF FinishJob, IInv, CursorOK
  <2>2. cur' \in Jobs \cup {NoJob} /\ (pc' = "finish" => cur' \in Jobs)
    BY <1>13, <2>1, NextInBatchType DEF FinishJob
  <2>3. pc' \in {"idle", "finish"}
    BY <1>13 DEF FinishJob
  <2> QED BY <1>13, <2>1, <2>2, <2>3, SteppedStep DEF FinishJob, Stepped, IInv,
             TypeOK
<1>14. ASSUME NEW j \in Jobs, TtsTimer(j)
      PROVE  IInv'
  BY <1>14, TtsTimerKeeps, HandledStep DEF TtsTimer
<1>15. ASSUME NEW j \in Jobs, VisitExhausted(j)
      PROVE  IInv'
  BY <1>15, RejectKeeps, VisitedStep DEF VisitExhausted, RejectJob, Visiting
<1>16. ASSUME NEW j \in Jobs, VisitBlocked(j)
      PROVE  IInv'
  BY <1>16, VisitBlockedKeeps, VisitedStep DEF VisitBlocked, Eligible, Visiting
<1>17. ASSUME NEW j \in Jobs, VisitDelayed(j)
      PROVE  IInv'
  BY <1>17, VisitDelayedKeeps, VisitedStep DEF VisitDelayed, Eligible, Visiting
<1>18. ASSUME NEW j \in Jobs, VisitNoModem(j)
      PROVE  IInv'
  BY <1>18, VisitNoModemKeeps, VisitedStep DEF VisitNoModem, Eligible, Visiting
<1>19. ASSUME NEW j \in Jobs, VisitExempt(j)
      PROVE  IInv'
  BY <1>19, RejectKeeps, VisitedStep DEF VisitExempt, RejectJob, Eligible,
     Visiting
<1>20. ASSUME NEW j \in Jobs, VisitAssign(j)
      PROVE  IInv'
  <2>1. PICK q : Keeps(faxq, q) /\ StartCall(q, j)
    BY <1>20, VisitAssignKeeps
  <2> QED BY <1>20, <2>1, CalledStep DEF VisitAssign, Eligible, Visiting
<1>21. ASSUME NEW j \in Jobs, VisitAssignBusy(j)
      PROVE  IInv'
  <2>1. PICK q : Keeps(faxq, q) /\ StartCall(q, j)
    BY <1>21, VisitAssignBusyKeeps
  <2> QED BY <1>21, <2>1, CalledStep DEF VisitAssignBusy, Eligible, Visiting
<1>22. ASSUME NEW j \in Jobs, AddToBatch(j)
      PROVE  IInv'
  <2>1. faxq' \in Memory
    BY <1>22, AddToBatchKeeps, KeepsMemory
  <2>2. todo' \subseteq Jobs
    BY <1>22 DEF AddToBatch, Passing, OnQueue, IInv, TypeOK
  <2> QED BY <1>22, <2>1, <2>2, SteppedStep DEF AddToBatch, Stepped, IInv, TypeOK,
             CursorOK
<1>39. ASSUME NEW j \in Jobs, VisitBatched(j)
      PROVE  IInv'
  <2>1. faxq' \in Memory
    BY <1>39, MemoryType, PokeKeeps, KeepsMemory DEF VisitBatched
  <2>2. todo' \subseteq Jobs
    BY <1>39 DEF VisitBatched, IInv, TypeOK
  <2> QED BY <1>39, <2>1, <2>2, SteppedStep DEF VisitBatched, Stepped, IInv, TypeOK,
             CursorOK
<1>23. ASSUME NEW j \in Jobs, PrepareInterrupted(j)
      PROVE  IInv'
  <2>1. faxq' \in Memory
    BY <1>23, PrepareInterruptedEnds, EndedMemory, PrepareFinishedType
  <2> QED BY <1>23, <2>1, SteppedStep
       DEF PrepareInterrupted, Prepared, Reaping, loop, Stepped, IInv, TypeOK, CursorOK
<1>24. ASSUME NEW j \in Jobs, PrepareDone(j)
      PROVE  IInv'
  <2>1. PICK q : Ended(q, j) /\ GoneOn(q)
    BY <1>24, PrepareDoneEnds
  <2> QED BY <1>24, <2>1, EndedMemory, GoneOnStep DEF PrepareDone, Prepared
<1>25. ASSUME NEW j \in Jobs, PrepareFailed(j)
      PROVE  IInv'
  <2>1. PICK q : /\ Ended(q, j)
                 /\ GoneOn(q) \/ (faxq' = PrepareFinished(q) /\ UNCHANGED loop)
    BY <1>25, PrepareFailedEnds
  <2>2. Reaping /\ q \in Memory
    BY <1>25, <2>1, EndedMemory DEF PrepareFailed, Prepared
  <2>3. CASE GoneOn(q)
    BY <2>2, <2>3, GoneOnStep
  <2>4. CASE faxq' = PrepareFinished(q) /\ UNCHANGED loop
    <3>1. faxq' \in Memory
      BY <2>2, <2>4, PrepareFinishedType
    <3> QED BY <2>2, <2>4, <3>1, SteppedStep
             DEF Reaping, loop, Stepped, IInv, TypeOK, CursorOK
  <2> QED BY <2>1, <2>3, <2>4
<1>26. ASSUME NEW j \in Jobs, SendDone(j)
      PROVE  IInv'
  <2>1. faxq' \in Memory
    BY <1>26, SendDoneKeeps, KeepsMemory
  <2> QED BY <1>26, <2>1, SteppedStep DEF SendDone, Reaping, Stepped, IInv,
             TypeOK
<1>27. ASSUME NEW m \in Modems, LockPoll(m)
      PROVE  IInv'
  BY <1>27, LockPollKeeps, HandledStep DEF LockPoll
<1>28. ASSUME Quit
      PROVE  IInv'
  BY <1>28, QuitKeeps, HandledStep DEF Quit
<1>29. ASSUME NEW j \in Jobs, Submit(j)
      PROVE  IInv'
  BY <1>29, SubmitKeeps, HandledStep DEF Submit
<1>30. ASSUME NEW j \in Jobs, KillTimer(j)
      PROVE  IInv'
  BY <1>30, KillTimerKeeps, HandledStep DEF KillTimer
<1>31. ASSUME NEW j \in Jobs, CallConnected(j)
      PROVE  IInv'
  BY <1>31, CallConnectedKeeps, HandledStep DEF CallConnected
<1>32. ASSUME NEW j \in Jobs, NEW cmd \in Commands, Command(j, cmd)
      PROVE  IInv'
  <2>1. Keeps(faxq, faxq')
    BY <1>32, CommandKeeps
  <2>2. UNCHANGED <<loop, frames>> /\ commands' = commands + 1 /\ phase' = "any"
    BY <1>32 DEF Command, Commanded
  <2> QED BY <2>1, <2>2, QuietStep DEF IInv, TypeOK
<1>33. ASSUME NEW j \in Jobs, NEW cmd \in Commands, CommandActive(j, cmd)
      PROVE  IInv'
  <2>1. Keeps(faxq, faxq')
    BY <1>33, CommandActiveKeeps
  <2>2. frames' \in Seq([job : Jobs, cmd : Commands])
    BY <1>33 DEF CommandActive, IInv, TypeOK
  <2>3. UNCHANGED loop /\ commands' = commands + 1 /\ phase' = "any"
    BY <1>33 DEF CommandActive, Commanded
  <2> QED BY <2>1, <2>2, <2>3, QuietStep DEF IInv, TypeOK
<1>34. ASSUME NEW m \in Modems, OtherLock(m)
      PROVE  IInv'
  BY <1>34, OtherLockKeeps, QuietStep DEF OtherLock, IInv, TypeOK
<1>35. ASSUME NEW m \in Modems, NEW msg \in ModemMessages, ModemMessage(m, msg)
      PROVE  IInv'
  BY <1>35, ModemMessageKeeps, HandledStep DEF ModemMessage
<1>36. CASE UNCHANGED vars
  BY <1>36 DEF vars, loop, IInv, TypeOK, CursorOK
<1>37. CASE Work
  BY <1>37, <1>1, <1>2, <1>3, <1>4, <1>5, <1>6, <1>7, <1>8, <1>9, <1>10,
     <1>11, <1>12, <1>13, <1>14, <1>15, <1>16, <1>17, <1>18, <1>19, <1>20,
     <1>21, <1>22, <1>23, <1>24, <1>25, <1>26, <1>27, <1>39 DEF Work
<1>38. CASE Environment
  BY <1>38, <1>28, <1>29, <1>30, <1>31, <1>32, <1>33, <1>34, <1>35 DEF
     Environment
<1> QED BY <1>36, <1>37, <1>38 DEF Next

\* The type invariant, for any number of jobs, modems and destinations, and any
\* configuration: no count of a DestInfo or of preparations becomes negative,
\* no list, link or loop of the code reaches anything but a Job, and the stack
\* of waits is one of jobs and commands.
THEOREM Typed == Spec => []TypeOK
<1>1. IInv => TypeOK
  BY DEF IInv
<1> QED BY <1>1, Initially, Inductive, PTL DEF Spec

-----------------------------------------------------------------------------
(* The preparations *)

\* The preparations that a memory keeps are as many or fewer.
LEMMA CountKeeps ==
  ASSUME IInv, NEW S \in SUBSET Preparing
  PROVE  /\ Cardinality(Preparing) \in Nat /\ Cardinality(S) \in Nat
         /\ Cardinality(S) <= Cardinality(Preparing)
<1>1. Preparing \in SUBSET Jobs
  BY DEF Preparing
<1>2. IsFiniteSet(Preparing)
  BY <1>1, CountType
<1> QED BY <1>1, <1>2, FS_Subset, CountType

\* A memory that is kept has no new preparations.
LEMMA PreparingKeeps ==
  ASSUME Keeps(faxq, faxq')
  PROVE Preparing' \subseteq Preparing
BY DEF Preparing, Keeps

\* A step that starts no preparation and enters no loop keeps the slots.
LEMMA SlotsKept ==
  ASSUME IInv, SlotsAccounted, Keeps(faxq, faxq'),
         pc' \in {"batch", "process"} => pc \in {"batch", "process"} /\ caller' = caller,
         pc' = "batch" => pc = "batch"
  PROVE  SlotsAccounted'
<1>1. Cardinality(Preparing') <= Cardinality(Preparing)
  BY PreparingKeeps, CountKeeps
<1>2. Cardinality(Preparing) \in Nat /\ Cardinality(Preparing') \in Nat
  BY PreparingKeeps, CountKeeps
<1>3. faxq'.numPrepares = faxq.numPrepares /\ faxq.numPrepares \in Nat
  BY MemoryType DEF Keeps, Memory
<1> DEFINE n == Cardinality(Preparing)
           o == Cardinality(Preparing')
<1>4. Cardinality(Preparing)' = o
  OBVIOUS
<1> HIDE DEF n, o
<1> QED BY <1>1, <1>2, <1>3, <1>4, Constants DEF SlotsAccounted, n, o

\* The numbers SlotsAccounted speaks of.
Counts ==
  /\ Cardinality(Preparing) \in Nat /\ faxq.numPrepares \in Nat
  /\ MaxConcurrentPreps \in Nat

\* The invariant makes them natural numbers.
LEMMA CountsType == ASSUME IInv PROVE Counts
BY MemoryType, CountKeeps, Constants DEF Counts, Memory

\* StartCall is the last of a visit, and a visit needs a slot.
LEMMA SlotsCalled ==
  ASSUME IInv, SlotsAccounted, pc = "scan", faxq.numPrepares <
         MaxConcurrentPreps,
         NEW j \in Jobs, NEW q, Keeps(faxq, q), StartCall(q, j)
  PROVE  SlotsAccounted'
<1> DEFINE n == Cardinality(Preparing)
           o == Cardinality(Preparing')
<1>1. Keeps(faxq, faxq')
  BY StartCallKeeps
<1>2. o \in Nat /\ o <= n
  BY <1>1, PreparingKeeps, CountKeeps
<1>3. faxq'.numPrepares = faxq.numPrepares
  BY <1>1 DEF Keeps
<1>4. caller' = "scan"
  BY DEF StartCall
<1>5. n <= faxq.numPrepares
  BY CountsType DEF SlotsAccounted, Counts
<1>6. Cardinality(Preparing)' = o
  OBVIOUS
<1>7. n \in Nat /\ faxq.numPrepares \in Nat /\ MaxConcurrentPreps \in Nat
  BY CountsType DEF Counts
<1> HIDE DEF n, o
<1> QED BY <1>2, <1>3, <1>4, <1>5, <1>6, <1>7 DEF SlotsAccounted

\* A guarded decrement by one.
LEMMA MinusOne == ASSUME NEW n \in Nat PROVE Minus(n, 1) = IF n = 0
                                                           THEN 0
                                                           ELSE n - 1
BY DEF Minus

\* processJob returns, having started at most the preparation it has a slot for.
LEMMA SlotsReturned ==
  ASSUME IInv, SlotsAccounted, pc = "process", NEW q, ReturnWith(q),
         Keeps(faxq, q)
  PROVE  SlotsAccounted'
<1> DEFINE n == Cardinality(Preparing)
           o == Cardinality(Preparing')
<1>1. q \in Memory
  BY KeepsMemory
<1>2. faxq'.job = q.job
  BY <1>1, PrepareFinishedType DEF ReturnWith
<1>3. Preparing' \subseteq Preparing
  BY <1>2 DEF Preparing, Keeps
<1>4. o \in Nat /\ o <= n
  BY <1>3, CountKeeps
<1>5. \/ caller = "scan" /\ faxq'.numPrepares = faxq.numPrepares
      \/ caller = "prepareJobDone" /\ faxq'.numPrepares = Minus(faxq.numPrepares, 1)
  BY <1>1, PrepareFinishedType DEF ReturnWith, Keeps
<1>6. pc' \in {"scan", "idle"}
  BY DEF ReturnWith
<1>7. Cardinality(Preparing)' = o
  OBVIOUS
<1>8. n \in Nat /\ faxq.numPrepares \in Nat /\ MaxConcurrentPreps \in Nat
  BY CountsType DEF Counts
<1>9. /\ n + (IF caller = "prepareJobDone" THEN 1 ELSE 0) <= faxq.numPrepares
      /\ n + 1 <= MaxConcurrentPreps
  BY DEF SlotsAccounted
<1> HIDE DEF n, o
<1>10. o <= faxq'.numPrepares
  BY <1>4, <1>5, <1>8, <1>9, MinusOne
<1> QED BY <1>4, <1>6, <1>7, <1>8, <1>9, <1>10 DEF SlotsAccounted

\* processJob returns with a preparation: it had a free slot, and counts it.
LEMMA SlotsTaken ==
  ASSUME IInv, SlotsAccounted, pc = "process", NEW q, ReturnWith(q),
         OneMore(faxq, q)
  PROVE  SlotsAccounted'
<1> DEFINE n == Cardinality(Preparing)
           o == Cardinality(Preparing')
<1>1. q \in Memory
  BY DEF OneMore
<1>2. faxq'.job = q.job
  BY <1>1, PrepareFinishedType DEF ReturnWith
<1>3. PICK j \in Jobs : Preparing' \subseteq Preparing \cup {j}
  BY <1>2 DEF Preparing, OneMore
<1>4. IsFiniteSet(Preparing) /\ IsFiniteSet(Preparing \cup {j})
  <2>1. Preparing \in SUBSET Jobs /\ Preparing \cup {j} \in SUBSET Jobs
    BY DEF Preparing
  <2> QED BY <2>1, CountType
<1>5. Cardinality(Preparing \cup {j}) <= n + 1 /\ Cardinality(Preparing \cup {j}) \in Nat
  BY <1>4, FS_AddElement, FS_CardinalityType
<1>6. o \in Nat /\ o <= Cardinality(Preparing \cup {j})
  BY <1>3, <1>4, FS_Subset, FS_CardinalityType
<1>7. \/ caller = "scan" /\ faxq'.numPrepares = faxq.numPrepares + 1
      \/ caller = "prepareJobDone" /\ faxq'.numPrepares = Minus(faxq.numPrepares + 1, 1)
  BY <1>1, PrepareFinishedType DEF ReturnWith, OneMore
<1>8. pc' \in {"scan", "idle"}
  BY DEF ReturnWith
<1>9. Cardinality(Preparing)' = o
  OBVIOUS
<1>10. n \in Nat /\ faxq.numPrepares \in Nat /\ MaxConcurrentPreps \in Nat
  BY CountsType DEF Counts
<1>11. /\ n + (IF caller = "prepareJobDone" THEN 1 ELSE 0) <= faxq.numPrepares
       /\ n + 1 <= MaxConcurrentPreps
  BY DEF SlotsAccounted
<1> HIDE DEF n, o
<1>12. o <= n + 1
  BY <1>5, <1>6, <1>10
<1>13. o <= faxq'.numPrepares
  BY <1>6, <1>7, <1>10, <1>11, <1>12, MinusOne
<1> QED BY <1>6, <1>8, <1>9, <1>10, <1>11, <1>12, <1>13 DEF SlotsAccounted

\* The exit of a child that prepared leaves one preparation less.
LEMMA EndedCount ==
  ASSUME IInv, NEW j \in Jobs, faxq.job[j].child = "prepare", NEW q, Ended(q,
         j),
         faxq'.job = q.job
  PROVE  /\ Cardinality(Preparing') \in Nat
         /\ Cardinality(Preparing') + 1 <= Cardinality(Preparing)
<1>1. Preparing' \subseteq Preparing \ {j} /\ j \in Preparing
  BY DEF Ended, Keeps, Preparing
<1>2. IsFiniteSet(Preparing) /\ IsFiniteSet(Preparing \ {j})
  <2>1. Preparing \in SUBSET Jobs /\ Preparing \ {j} \in SUBSET Jobs
    BY DEF Preparing
  <2> QED BY <2>1, CountType
<1>3. Cardinality(Preparing \ {j}) = Cardinality(Preparing) - 1
  BY <1>1, <1>2, FS_RemoveElement
<1>4. /\ Cardinality(Preparing') \in Nat
      /\ Cardinality(Preparing') <= Cardinality(Preparing \ {j})
      /\ Cardinality(Preparing) \in Nat
  BY <1>1, <1>2, FS_Subset, FS_CardinalityType
<1> QED BY <1>3, <1>4

\* prepareJobDone ends, and one slot less is counted.
LEMMA SlotsGivenUp ==
  ASSUME IInv, SlotsAccounted, NEW j \in Jobs, Prepared(j), NEW q, Ended(q, j),
         faxq' = PrepareFinished(q), UNCHANGED loop
  PROVE  SlotsAccounted'
<1> DEFINE n == Cardinality(Preparing)
           o == Cardinality(Preparing')
<1>1. faxq'.job = q.job /\ faxq'.numPrepares = Minus(faxq.numPrepares, 1)
  BY EndedMemory, PrepareFinishedType DEF Ended, Keeps
<1>2. o \in Nat /\ o + 1 <= n
  BY <1>1, EndedCount DEF Prepared
<1>3. n <= faxq.numPrepares /\ n <= MaxConcurrentPreps /\ pc' = "idle"
  BY CountsType DEF SlotsAccounted, Prepared, Idle, loop, Counts
<1>4. Cardinality(Preparing)' = o
  OBVIOUS
<1>5. n \in Nat /\ faxq.numPrepares \in Nat /\ MaxConcurrentPreps \in Nat
  BY CountsType DEF Counts
<1> HIDE DEF n, o
<1> QED BY <1>1, <1>2, <1>3, <1>4, <1>5, MinusOne DEF SlotsAccounted

\* prepareJobDone goes on with the batch and still counts its own slot.
LEMMA SlotsGoneOn ==
  ASSUME IInv, SlotsAccounted, NEW j \in Jobs, Prepared(j), NEW q, Ended(q, j),
         GoneOn(q)
  PROVE  SlotsAccounted'
<1> DEFINE n == Cardinality(Preparing)
           o == Cardinality(Preparing')
<1>1. faxq' = q /\ pc' = "process" /\ caller' = "prepareJobDone"
  BY DEF GoneOn, GoOn
<1>2. faxq'.numPrepares = faxq.numPrepares
  BY <1>1 DEF Ended, Keeps
<1>3. o \in Nat /\ o + 1 <= n
  BY <1>1, EndedCount DEF Prepared
<1>4. n <= faxq.numPrepares /\ n <= MaxConcurrentPreps
  BY CountsType DEF SlotsAccounted, Prepared, Idle, Counts
<1>5. Cardinality(Preparing)' = o
  OBVIOUS
<1>6. n \in Nat /\ faxq.numPrepares \in Nat /\ MaxConcurrentPreps \in Nat
  BY CountsType DEF Counts
<1> HIDE DEF n, o
<1> QED BY <1>1, <1>2, <1>3, <1>4, <1>5, <1>6 DEF SlotsAccounted

\* A failed fork counts a slot for which no child runs.
LEMMA SlotsForkFails ==
  ASSUME IInv, SlotsAccounted, ProcessForkFails
  PROVE  SlotsAccounted'
<1> DEFINE n == Cardinality(Preparing)
           o == Cardinality(Preparing')
<1>1. PICK q : Keeps(faxq, q) /\ faxq' = [q EXCEPT !.numPrepares = @ + 1]
  BY ProcessForkFailsSlot
<1>2. faxq'.job = q.job /\ faxq'.numPrepares = faxq.numPrepares + 1
  BY <1>1 DEF Keeps, Memory
<1>3. Preparing' \subseteq Preparing
  BY <1>1, <1>2 DEF Preparing, Keeps
<1>4. o \in Nat /\ o <= n
  BY <1>3, CountKeeps
<1>5. UNCHANGED <<pc, caller>>
  BY DEF ProcessForkFails, OnToNextInBatch
<1>6. Cardinality(Preparing)' = o
  OBVIOUS
<1>7. n \in Nat /\ faxq.numPrepares \in Nat /\ MaxConcurrentPreps \in Nat
  BY CountsType DEF Counts
<1> HIDE DEF n, o
<1> QED BY <1>2, <1>4, <1>5, <1>6, <1>7 DEF SlotsAccounted, n

\* Every action keeps the slots, if the configuration is not read again.
LEMMA SlotsInductive ==
  ASSUME ~ConfigRereads
  PROVE  IInv /\ SlotsAccounted /\ [Next]_vars => SlotsAccounted'
<1> SUFFICES ASSUME IInv, SlotsAccounted, [Next]_vars PROVE SlotsAccounted'
  OBVIOUS
<1>1. ASSUME RunScheduler
      PROVE  SlotsAccounted'
  <2>1. faxq' = [faxq EXCEPT !.poked = FALSE, !.numPrepares = faxq.numPrepares]
    BY <1>1, Constants DEF RunScheduler
  <2>2. Keeps(faxq, faxq')
    BY <2>1, MemoryType DEF Keeps, Memory
  <2> QED BY <1>1, <2>2, SlotsKept DEF RunScheduler
<1>2. ASSUME Close
      PROVE  SlotsAccounted'
  BY <1>2, CloseKeeps, SlotsKept DEF Close, Handled, Input, Idle, loop
<1>3. ASSUME EndScan
      PROVE  SlotsAccounted'
  BY <1>3, EndScanKeeps, SlotsKept DEF EndScan
<1>4. ASSUME EndBatch
      PROVE  SlotsAccounted'
  BY <1>4, EndBatchKeeps, SlotsKept DEF EndBatch
<1>5. ASSUME Resume
      PROVE  SlotsAccounted'
  BY <1>5, ResumeKeeps, SlotsKept DEF Resume, Idle, loop
<1>6. ASSUME ProcessReady
      PROVE  SlotsAccounted'
  BY <1>6, ProcessReadyKeeps, SlotsKept DEF ProcessReady, Processing,
     OnToNextInBatch
<1>7. ASSUME ProcessReject
      PROVE  SlotsAccounted'
  BY <1>7, ProcessRejectedKeeps, SlotsKept DEF ProcessReject, Processing,
     OnToNextInBatch
<1>8. ASSUME ProcessPrepare
      PROVE  SlotsAccounted'
  BY <1>8, ProcessPrepareSlot, SlotsTaken DEF ProcessPrepare, Processing
<1>9. ASSUME ProcessForkFails
      PROVE  SlotsAccounted'
  BY <1>9, SlotsForkFails
<1>10. ASSUME SendJobStart
      PROVE  SlotsAccounted'
  BY <1>10, SendJobStartKeeps, SlotsReturned DEF SendJobStart, Processing
<1>11. ASSUME SendForkFails
      PROVE  SlotsAccounted'
  BY <1>11, SendForkFailsKeeps, SlotsReturned DEF SendForkFails, Processing
<1>12. ASSUME ProcessNothing
      PROVE  SlotsAccounted'
  BY <1>12, ProcessNothingKeeps, SlotsReturned DEF ProcessNothing, Processing
<1>13. ASSUME FinishJob
      PROVE  SlotsAccounted'
  BY <1>13, FinishJobKeeps, SlotsKept DEF FinishJob
<1>14. ASSUME NEW j \in Jobs, TtsTimer(j)
      PROVE  SlotsAccounted'
  BY <1>14, TtsTimerKeeps, SlotsKept DEF TtsTimer, Handled, Input, Idle, loop
<1>15. ASSUME NEW j \in Jobs, VisitExhausted(j)
      PROVE  SlotsAccounted'
  BY <1>15, RejectKeeps, SlotsKept DEF VisitExhausted, RejectJob, Visiting,
     OnToNext
<1>16. ASSUME NEW j \in Jobs, VisitBlocked(j)
      PROVE  SlotsAccounted'
  BY <1>16, VisitBlockedKeeps, SlotsKept DEF VisitBlocked, Eligible, Visiting,
     OnToNext
<1>17. ASSUME NEW j \in Jobs, VisitDelayed(j)
      PROVE  SlotsAccounted'
  BY <1>17, VisitDelayedKeeps, SlotsKept DEF VisitDelayed, Eligible, Visiting,
     OnToNext
<1>18. ASSUME NEW j \in Jobs, VisitNoModem(j)
      PROVE  SlotsAccounted'
  BY <1>18, VisitNoModemKeeps, SlotsKept DEF VisitNoModem, Eligible, Visiting,
     OnToNext
<1>19. ASSUME NEW j \in Jobs, VisitExempt(j)
      PROVE  SlotsAccounted'
  BY <1>19, RejectKeeps, SlotsKept DEF VisitExempt, RejectJob, Eligible,
     Visiting, OnToNext
<1>20. ASSUME NEW j \in Jobs, VisitAssign(j)
      PROVE  SlotsAccounted'
  <2>1. PICK q : Keeps(faxq, q) /\ StartCall(q, j)
    BY <1>20, VisitAssignKeeps
  <2> QED BY <1>20, <2>1, SlotsCalled DEF VisitAssign, Eligible, Visiting
<1>21. ASSUME NEW j \in Jobs, VisitAssignBusy(j)
      PROVE  SlotsAccounted'
  <2>1. PICK q : Keeps(faxq, q) /\ StartCall(q, j)
    BY <1>21, VisitAssignBusyKeeps
  <2> QED BY <1>21, <2>1, SlotsCalled DEF VisitAssignBusy, Eligible, Visiting
<1>22. ASSUME NEW j \in Jobs, AddToBatch(j)
      PROVE  SlotsAccounted'
  BY <1>22, AddToBatchKeeps, SlotsKept DEF AddToBatch
<1>39. ASSUME NEW j \in Jobs, VisitBatched(j)
      PROVE  SlotsAccounted'
  BY <1>39, MemoryType, PokeKeeps, SlotsKept DEF VisitBatched
<1>23. ASSUME NEW j \in Jobs, PrepareInterrupted(j)
      PROVE  SlotsAccounted'
  BY <1>23, PrepareInterruptedEnds, SlotsGivenUp DEF PrepareInterrupted
<1>24. ASSUME NEW j \in Jobs, PrepareDone(j)
      PROVE  SlotsAccounted'
  BY <1>24, PrepareDoneEnds, SlotsGoneOn DEF PrepareDone
<1>25. ASSUME NEW j \in Jobs, PrepareFailed(j)
      PROVE  SlotsAccounted'
  BY <1>25, PrepareFailedEnds, SlotsGoneOn, SlotsGivenUp DEF PrepareFailed
<1>26. ASSUME NEW j \in Jobs, SendDone(j)
      PROVE  SlotsAccounted'
  BY <1>26, SendDoneKeeps, SlotsKept DEF SendDone
<1>27. ASSUME NEW m \in Modems, LockPoll(m)
      PROVE  SlotsAccounted'
  BY <1>27, LockPollKeeps, SlotsKept DEF LockPoll, Handled, Input, Idle, loop
<1>28. ASSUME Quit
      PROVE  SlotsAccounted'
  BY <1>28, QuitKeeps, SlotsKept DEF Quit, Handled, Input, Idle, loop
<1>29. ASSUME NEW j \in Jobs, Submit(j)
      PROVE  SlotsAccounted'
  BY <1>29, SubmitKeeps, SlotsKept DEF Submit, Handled, Input, Idle, loop
<1>30. ASSUME NEW j \in Jobs, KillTimer(j)
      PROVE  SlotsAccounted'
  BY <1>30, KillTimerKeeps, SlotsKept DEF KillTimer, Handled, Input, Idle, loop
<1>31. ASSUME NEW j \in Jobs, CallConnected(j)
      PROVE  SlotsAccounted'
  BY <1>31, CallConnectedKeeps, SlotsKept DEF CallConnected, Handled, Input,
     Idle, loop
<1>32. ASSUME NEW j \in Jobs, NEW cmd \in Commands, Command(j, cmd)
      PROVE  SlotsAccounted'
  BY <1>32, CommandKeeps, SlotsKept DEF Command, Commanded, Input, Idle, loop
<1>33. ASSUME NEW j \in Jobs, NEW cmd \in Commands, CommandActive(j, cmd)
      PROVE  SlotsAccounted'
  BY <1>33, CommandActiveKeeps, SlotsKept DEF CommandActive, Commanded, Input,
     Idle, loop
<1>34. ASSUME NEW m \in Modems, OtherLock(m)
      PROVE  SlotsAccounted'
  BY <1>34, OtherLockKeeps, SlotsKept DEF OtherLock, Idle, loop
<1>35. ASSUME NEW m \in Modems, NEW msg \in ModemMessages, ModemMessage(m, msg)
      PROVE  SlotsAccounted'
  BY <1>35, ModemMessageKeeps, SlotsKept DEF ModemMessage, Handled, Input,
     Idle, loop
<1>36. CASE UNCHANGED vars
  BY <1>36 DEF vars, loop, SlotsAccounted, Preparing
<1>37. CASE Work
  BY <1>37, <1>1, <1>2, <1>3, <1>4, <1>5, <1>6, <1>7, <1>8, <1>9, <1>10,
     <1>11, <1>12, <1>13, <1>14, <1>15, <1>16, <1>17, <1>18, <1>19, <1>20,
     <1>21, <1>22, <1>23, <1>24, <1>25, <1>26, <1>27, <1>39 DEF Work
<1>38. CASE Environment
  BY <1>38, <1>28, <1>29, <1>30, <1>31, <1>32, <1>33, <1>34, <1>35 DEF
     Environment
<1> QED BY <1>36, <1>37, <1>38 DEF Next

\* When faxq starts nothing is prepared.
LEMMA SlotsInitially == Init => SlotsAccounted
<1> SUFFICES ASSUME Init PROVE SlotsAccounted
  OBVIOUS
<1>1. Preparing = {}
  BY DEF Init, NewJob, Preparing
<1>2. Cardinality(Preparing) = 0
  BY <1>1, FS_EmptySet
<1> QED BY <1>2, Constants DEF Init, SlotsAccounted

\* At most MaxConcurrentPreps jobs are prepared at one time, for any number of
\* jobs and any limit, as long as the configuration is not read again while
\* faxq runs (which sets numPrepares to 0 under the preparations that run).
THEOREM PreparationsLimited ==
  ASSUME ~ConfigRereads
  PROVE  Spec => [](SlotsAccounted /\ PrepLimit)
<1> DEFINE I == IInv /\ SlotsAccounted
<1>1. Init => I
  BY Initially, SlotsInitially
<1>2. I /\ [Next]_vars => I'
  BY Inductive, SlotsInductive
<1>3. I => SlotsAccounted /\ PrepLimit
  <2> SUFFICES ASSUME I PROVE PrepLimit
    OBVIOUS
  <2>1. Cardinality(Preparing) \in Nat /\ MaxConcurrentPreps \in Nat
    BY CountsType DEF Counts
  <2> QED BY <2>1 DEF SlotsAccounted, PrepLimit
<1> HIDE DEF I
<1> QED BY <1>1, <1>2, <1>3, PTL DEF Spec

-----------------------------------------------------------------------------
(* What the operators of faxq do to the record of their job *)

Unlisted(r) == [r EXCEPT !.on = IF @ = "absent" THEN @ ELSE "none"]
Buried(r) ==
  [r EXCEPT !.tts = FALSE, !.suspendPending = FALSE,
            !.state = IF @ = "done" THEN @ ELSE "failed", !.on = "deadq", !.modem = NoModem]
Readied(r) == [r EXCEPT !.on = "runq", !.state = "ready", !.pid = "zero"]
Asleep(r, state) == [r EXCEPT !.on = "sleepq", !.state = state, !.tts = TRUE]
Delayed(r) == [Asleep(r, "sleeping") EXCEPT !.modem = NoModem]
Activated(r) == [r EXCEPT !.on = "activeq", !.state = "active"]
Departed(r) == [Unlisted(r) EXCEPT !.kill = FALSE]
FailedNow(r) == [Departed(r) EXCEPT !.state = "failed"]
Paused(r) == [r EXCEPT !.on = "suspendq", !.state = "suspended"]
Reported(r) ==
  [r EXCEPT !.qfile = "doneq", !.qlock = FALSE, !.notices = IF @ < 2 THEN @ + 1 ELSE 2]

\* No job is in a batch with another.
Plain(q) == \A k \in Jobs : q.job[k].bprev = NoJob /\ q.job[k].bnext = NoJob

\* q is p but for the record of j, which is r in q, and the entry of its
\* destination.
Step(p, q, j, r) ==
  /\ q \in Memory /\ r \in JobRecord
  /\ q.job[j] = r /\ \A k \in Jobs \ {j} : q.job[k] = p.job[k]
  /\ r.bprev = p.job[j].bprev /\ r.bnext = p.job[j].bnext
  /\ \A e \in Dests \ {DestOf[j]} : q.di[e] = p.di[e]
  /\ q.running = p.running

SameDest(p, q, j) == q.di[DestOf[j]] = p.di[DestOf[j]]

\* Entry y is entry x after j was dropped from it, once or more often.
Dropped(x, y, j) ==
  /\ y.active = x.active \ {j} /\ y.blocked = x.blocked
  /\ y = NewDest \/ (y.calls = x.calls /\ y.pending = x.pending)

\* The modems when m, if it is one, is released.
Without(q, m) == [n \in Modems |-> IF n = m THEN Released(q.modem[n]) ELSE q.modem[n]]

\* A step leads to a memory.
LEMMA StepMemory == ASSUME NEW p, NEW q, NEW j, NEW r, Step(p, q, j, r) PROVE q \in Memory
BY DEF Step

\* Two steps about one job are one.
LEMMA StepChain ==
  ASSUME NEW p, NEW q, NEW s, NEW j, NEW r, NEW t, Step(p, q, j, r), Step(q, s, j, t)
  PROVE  Step(p, s, j, t)
BY DEF Step

\* The job stays alone.
LEMMA PlainStays ==
  ASSUME NEW p, NEW q, NEW j \in Jobs, NEW r, Plain(p), Step(p, q, j, r)
  PROVE  Plain(q) /\ q \in Memory /\ q.job[j] = r /\ r \in JobRecord
BY DEF Plain, Step

\* A memory whose record of j is replaced.
Replaced(p, q, j, r) ==
  /\ r \in JobRecord /\ q = [p EXCEPT !.job[j] = r]
  /\ r.bprev = p.job[j].bprev /\ r.bnext = p.job[j].bnext

\* Replacing the record of a job is a step that leaves the rest alone.
LEMMA Replaces ==
  ASSUME NEW p \in Memory, NEW j \in Jobs, NEW r, NEW q, Replaced(p, q, j, r)
  PROVE  /\ Step(p, q, j, r) /\ SameDest(p, q, j)
         /\ q.modem = p.modem /\ q.fault = p.fault
<1>1. j \in DOMAIN p.job /\ q \in Memory /\ r \in JobRecord
  BY DEF Memory, Replaced
<1>2. /\ q.di = p.di
      /\ q.running = p.running /\ q.modem = p.modem /\ q.fault = p.fault
      /\ q.job = [p.job EXCEPT ![j] = r]
  BY DEF Memory, Replaced
<1>3. r.bprev = p.job[j].bprev /\ r.bnext = p.job[j].bnext
  BY DEF Replaced
<1> QED  BY <1>1, <1>2, <1>3 DEF Step, SameDest

\* The lists and states that the transitions name are lists and states.
LEMMA RecordPlaces ==
  /\ {"absent", "none", "runq", "sleepq", "activeq", "suspendq", "deadq", "blocked"} \subseteq Places
  /\ {"suspended", "pending", "sleeping", "blocked", "ready", "active", "done", "failed"} \subseteq States
BY DEF Places, States

\* The list of a job.
LEMMA OnIs ==
  ASSUME NEW p \in Memory, NEW j \in Jobs, NEW v \in Places, NEW q,
         q = [p EXCEPT !.job[j].on = v], NEW r, r = [p.job[j] EXCEPT !.on = v]
  PROVE  Step(p, q, j, r) /\ SameDest(p, q, j) /\ q.modem = p.modem /\ q.fault = p.fault
<1>1. Replaced(p, q, j, r)
  BY DEF Memory, JobRecord, Replaced
<1> QED  BY <1>1, Replaces

\* q is p but for the fault and what only the scheduler reads.
Alike(p, q) ==
  /\ q \in Memory /\ q.job = p.job /\ q.di = p.di /\ q.modem = p.modem
  /\ q.running = p.running

\* A step may be preceded by a change of what only the scheduler reads.
LEMMA AlikeStep ==
  ASSUME NEW p, NEW q, NEW s, NEW j \in Jobs, NEW r, Alike(p, q), Step(q, s, j, r)
  PROVE  Step(p, s, j, r)
BY DEF Alike, Step

\* Or followed by one.
LEMMA StepAlike ==
  ASSUME NEW p, NEW q, NEW s, NEW j \in Jobs, NEW r, Step(p, q, j, r), Alike(q, s)
  PROVE  Step(p, s, j, r)
BY DEF Alike, Step

\* An fxAssert that holds changes nothing.
LEMMA FxAssertIs ==
  ASSUME NEW p \in Memory, NEW ok, NEW q, q = FxAssert(p, ok)
  PROVE  Alike(p, q) /\ (ok => q.fault = p.fault)
<1>1. CASE ok
  BY <1>1 DEF FxAssert, Alike
<1>2. CASE ~ok
  BY <1>2 DEF FxAssert, Fail, Alike, Memory, Faults
<1> QED  BY <1>1, <1>2

\* pokeScheduler.
LEMMA PokeIs ==
  ASSUME NEW p \in Memory, NEW q, q = Poke(p)
  PROVE  Alike(p, q) /\ q.fault = p.fault
BY DEF Poke, Alike, Memory

\* readRequest.
LEMMA ReadRequestIs ==
  ASSUME NEW p \in Memory, NEW j \in Jobs, NEW q, q = ReadRequest(p, j)
  PROVE  Alike(p, q) /\ (~p.job[j].qlock => q.fault = p.fault)
<1>1. CASE p.job[j].qlock
  BY <1>1 DEF ReadRequest, Fail, Alike, Memory, Faults
<1>2. CASE ~p.job[j].qlock
  BY <1>2 DEF ReadRequest, Alike
<1> QED  BY <1>1, <1>2

\* QLink::insert.
LEMMA InsertIs ==
  ASSUME NEW p \in Memory, NEW j \in Jobs, NEW list \in Places, NEW q, q = Insert(p, j, list),
         NEW r, r = [p.job[j] EXCEPT !.on = list]
  PROVE  /\ Step(p, q, j, r) /\ SameDest(p, q, j) /\ q.modem = p.modem
         /\ p.job[j].on \in {"absent", "none"} => q.fault = p.fault
<1>1. PICK a : a = FxAssert(p, ~IsOnList(p, j))
  OBVIOUS
<1>2. /\ Alike(p, a) /\ q = [a EXCEPT !.job[j].on = list]
      /\ p.job[j].on \in {"absent", "none"} => a.fault = p.fault
  BY <1>1, FxAssertIs DEF Insert, IsOnList
<1>3. a \in Memory /\ a.job = p.job /\ a.di = p.di /\ a.modem = p.modem
  BY <1>2 DEF Alike
<1>4. Step(a, q, j, r) /\ SameDest(a, q, j) /\ q.modem = a.modem /\ q.fault = a.fault
  BY <1>2, <1>3, OnIs
<1> QED  BY <1>2, <1>3, <1>4, AlikeStep DEF SameDest

\* Job::remove, of a job that is in no batch.
LEMMA RemoveIs ==
  ASSUME NEW p \in Memory, Plain(p), NEW j \in Jobs, NEW q, q = Remove(p, j),
         NEW r, r = [p.job[j] EXCEPT !.on = "none"]
  PROVE  /\ Step(p, q, j, r) /\ SameDest(p, q, j) /\ q.modem = p.modem
         /\ p.job[j].on \notin {"absent", "none"} => q.fault = p.fault
<1> DEFINE f == [k \in Jobs |->
                   IF k = j THEN [p.job[k] EXCEPT !.on = "none", !.bprev = NoJob, !.bnext = NoJob]
                   ELSE [p.job[k] EXCEPT !.bprev = IF k = NoJob THEN NoJob ELSE @,
                                         !.bnext = IF k = NoJob THEN NoJob ELSE @]]
<1> HIDE DEF f
<1>1. p.job[j].bprev = NoJob /\ p.job[j].bnext = NoJob
  BY DEF Plain
<1>2. PICK a : a = FxAssert(p, IsOnList(p, j))
  OBVIOUS
<1>3. /\ Alike(p, a)
      /\ p.job[j].on \notin {"absent", "none"} => a.fault = p.fault
  BY <1>2, FxAssertIs DEF IsOnList
<1>4. q = [a EXCEPT !.job = f]
  BY <1>1, <1>2, Zenon DEF Remove, f
<1>5. /\ \A k \in Jobs \ {j} : f[k] = p.job[k]
      /\ f[j] = r /\ r \in JobRecord /\ f \in [Jobs -> JobRecord]
  <2>1. p.job \in [Jobs -> JobRecord]
    BY DEF Memory
  <2>2. ASSUME NEW k \in Jobs \ {j} PROVE f[k] = p.job[k]
    <3>1. k # NoJob /\ p.job[k] \in JobRecord
      BY <2>1, Constants
    <3>2. [p.job[k] EXCEPT !.bprev = p.job[k].bprev, !.bnext = p.job[k].bnext] = p.job[k]
      BY <3>1 DEF JobRecord
    <3> QED  BY <3>1, <3>2 DEF f
  <2>3. f[j] = r /\ r \in JobRecord
    <3>1. p.job[j] \in JobRecord
      BY <2>1
    <3> QED  BY <1>1, <3>1, RecordPlaces DEF JobRecord, f
  <2>4. f \in [Jobs -> JobRecord]
    <3>1. \A k \in Jobs : f[k] \in JobRecord
      BY <2>1, <2>2, <2>3
    <3> QED  BY <3>1, Zenon DEF f
  <2> QED  BY <2>2, <2>3, <2>4
<1>6. /\ q \in Memory /\ q.job = f /\ q.di = p.di /\ q.modem = p.modem /\ q.fault = a.fault
      /\ q.running = p.running
  BY <1>3, <1>4, <1>5 DEF Alike, Memory
<1>7. r.bprev = p.job[j].bprev /\ r.bnext = p.job[j].bnext
  BY DEF Memory, JobRecord
<1> QED  BY <1>3, <1>5, <1>6, <1>7 DEF Step, SameDest

\* The same for a job that may be on no list.
LEMMA UnlistIs ==
  ASSUME NEW p \in Memory, Plain(p), NEW j \in Jobs, NEW q, q = Unlist(p, j),
         NEW r, r = Unlisted(p.job[j])
  PROVE  Step(p, q, j, r) /\ SameDest(p, q, j) /\ q.modem = p.modem /\ q.fault = p.fault
<1>0. p.job[j] \in JobRecord
  BY DEF Memory
<1>1. CASE IsOnList(p, j)
  <2>1. r = [p.job[j] EXCEPT !.on = "none"] /\ q = Remove(p, j)
    BY <1>1 DEF Unlisted, IsOnList, Unlist
  <2> QED  BY <1>1, <2>1, RemoveIs DEF IsOnList
<1>2. CASE ~IsOnList(p, j)
  <2>1. r = p.job[j] /\ q = p
    BY <1>0, <1>2 DEF Unlisted, IsOnList, Unlist, JobRecord
  <2> QED  BY <1>0, <2>1 DEF Step, SameDest
<1> QED  BY <1>1, <1>2

\* A job alone is its batch.
LEMMA BatchIs ==
  ASSUME NEW q, Plain(q), NEW j \in Jobs
  PROVE  Batch(q, j) = {j} /\ BatchOf(q, j) = {j}
<1>1. \A k \in Jobs : q.job[k].bnext \notin Jobs
  BY Constants DEF Plain
<1>2. \A k \in Jobs : Batch(q, k) = {k}
  BY <1>1 DEF Batch
<1> QED  BY <1>2 DEF BatchOf

\* Releasing no modem changes none.
LEMMA WithoutIs ==
  ASSUME NEW p \in Memory
  PROVE  /\ Without(p, NoModem) = p.modem
         /\ \A m \in Modems : /\ [p EXCEPT !.modem[m] = Released(@)].modem = Without(p, m)
                              /\ Without(p, m) \in [Modems -> ModemRecord]
<1>1. p.modem \in [Modems -> ModemRecord]
  BY DEF Memory
<1>2. Without(p, NoModem) = p.modem
  BY <1>1, Constants DEF Without
<1>3. ASSUME NEW m \in Modems
      PROVE  /\ [p EXCEPT !.modem[m] = Released(@)].modem = Without(p, m)
             /\ Without(p, m) \in [Modems -> ModemRecord]
  <2>1. Without(p, m) \in [Modems -> ModemRecord]
    BY <1>1, ReleasedType DEF Without
  <2>2. [p EXCEPT !.modem[m] = Released(@)].modem = [p.modem EXCEPT ![m] = Released(p.modem[m])]
    BY DEF Memory
  <2> QED  BY <1>1, <2>1, <2>2 DEF Without
<1> QED  BY <1>2, <1>3

\* Modem::release for the job that has the modem.
LEMMA ReleaseIfHeldIs ==
  ASSUME NEW p \in Memory, Plain(p), NEW j \in Jobs, NEW q, q = ReleaseIfHeld(p, j),
         NEW r, r = [p.job[j] EXCEPT !.modem = NoModem]
  PROVE  /\ Step(p, q, j, r) /\ SameDest(p, q, j)
         /\ q.modem = Without(p, p.job[j].modem) /\ q.fault = p.fault
<1>0. /\ p.job[j] \in JobRecord /\ r \in JobRecord
      /\ r.bprev = p.job[j].bprev /\ r.bnext = p.job[j].bnext
  BY DEF Memory, JobRecord
<1>1. CASE p.job[j].modem = NoModem
  <2>1. q = p /\ r = p.job[j]
    BY <1>0, <1>1 DEF ReleaseIfHeld, JobRecord
  <2> QED  BY <1>0, <1>1, <2>1, WithoutIs DEF Step, SameDest
<1>2. CASE p.job[j].modem # NoModem
  <2>1. PICK m : m = p.job[j].modem
    OBVIOUS
  <2>2. m \in Modems
    BY <1>0, <1>2, <2>1 DEF JobRecord
  <2>3. PICK a : a = FxAssert(Poke(p), \A k \in {j} : p.job[k].modem # NoModem)
    OBVIOUS
  <2>4. Alike(p, a) /\ a.fault = p.fault
    <3>1. \A k \in {j} : p.job[k].modem # NoModem
      BY <1>2
    <3>2. a = Poke(p)
      BY <2>3, <3>1 DEF FxAssert
    <3> QED  BY <3>2, PokeIs
  <2>5. PICK f : f = [k \in Jobs |-> IF k \in {j} THEN [p.job[k] EXCEPT !.modem = NoModem] ELSE p.job[k]]
    OBVIOUS
  <2>6. q = [a EXCEPT !.modem[m] = Released(@), !.job = f]
    <3>1. Batch(p, j) = {j}
      BY BatchIs
    <3>2. a.job = p.job
      BY <2>4 DEF Alike
    <3> QED  BY <1>2, <2>1, <2>3, <2>5, <3>1, <3>2, Zenon DEF ReleaseIfHeld, ReleaseModem
  <2>7. f \in [Jobs -> JobRecord] /\ f[j] = r /\ \A k \in Jobs \ {j} : f[k] = p.job[k]
    BY <1>0, <2>5 DEF Memory
  <2>8. a.modem = p.modem /\ a.modem \in [Modems -> ModemRecord] /\ a \in Memory
    BY <2>4 DEF Alike, Memory
  <2>9. PICK w : w = [a.modem EXCEPT ![m] = Released(@)]
    OBVIOUS
  <2>10. w = Without(p, m) /\ w \in [Modems -> ModemRecord]
    BY <2>2, <2>8, <2>9, ReleasedType DEF Without
  <2>11. q = [a EXCEPT !.modem = w, !.job = f]
    BY <2>6, <2>9, Zenon
  <2>12. /\ q \in Memory /\ q.job = f /\ q.di = p.di /\ q.modem = w /\ q.fault = p.fault
         /\ q.running = p.running
    BY <2>4, <2>7, <2>10, <2>11 DEF Alike, Memory
  <2> QED  BY <1>0, <2>1, <2>7, <2>10, <2>12 DEF Step, SameDest
<1> QED  BY <1>1, <1>2

\* removeDestInfoJob drops the job from its entry, and nothing else.
LEMMA RemoveDestInfoJobIs ==
  ASSUME NEW p \in Memory, NEW j \in Jobs, NEW q, q = RemoveDestInfoJob(p, j)
  PROVE  /\ Step(p, q, j, p.job[j]) /\ Dropped(p.di[DestOf[j]], q.di[DestOf[j]], j)
         /\ q.modem = p.modem /\ q.fault = p.fault
<1>1. PICK x, d : x = p.di[d] /\ d = DestOf[j]
  OBVIOUS
<1>2. d \in Dests /\ x \in DestRecord /\ p.di \in [Dests -> DestRecord] /\ p.job[j] \in JobRecord
  BY <1>1, DestOfType DEF Memory
<1>3. PICK y : y = IF x.active \ {j} = {} /\ x.blocked = 0 THEN NewDest ELSE [x EXCEPT !.active = x.active \ {j}]
  OBVIOUS
<1>4. q = [p EXCEPT !.di[d] = y]
  BY <1>1, <1>3, Zenon DEF RemoveDestInfoJob
<1>5. y \in DestRecord
  BY <1>2, <1>3 DEF NewDest, DestRecord
<1>6. Dropped(x, y, j)
  BY <1>2, <1>3 DEF NewDest, DestRecord, Dropped
<1>7. /\ q.job = p.job /\ q.di = [p.di EXCEPT ![d] = y] /\ q.modem = p.modem /\ q.fault = p.fault
      /\ q.running = p.running /\ q \in Memory
  BY <1>4, <1>5 DEF Memory
<1> QED  BY <1>1, <1>2, <1>6, <1>7 DEF Step

\* A step that leaves the destination, the modems and the fault alone.
Moved(p, q, j, r) ==
  Step(p, q, j, r) /\ SameDest(p, q, j) /\ q.modem = p.modem /\ q.fault = p.fault

\* The record of j is r in a memory without batches.
Here(p, j, r) == p \in Memory /\ Plain(p) /\ j \in Jobs /\ p.job[j] = r /\ r \in JobRecord

\* Two such steps are one.
LEMMA MovedChain ==
  ASSUME NEW p, NEW q, NEW s, NEW j, NEW r, NEW t, Moved(p, q, j, r), Moved(q, s, j, t)
  PROVE  Moved(p, s, j, t)
<1>1. Step(p, s, j, t)
  BY StepChain DEF Moved
<1> QED  BY <1>1 DEF Moved, SameDest

\* The job is where the step leaves it.
LEMMA StepHere ==
  ASSUME NEW p, NEW q, NEW j, NEW r, NEW t, Here(p, j, r), Step(p, q, j, t)
  PROVE  Here(q, j, t)
BY PlainStays DEF Here

\* The same for a step that leaves the rest alone.
LEMMA MovedHere ==
  ASSUME NEW p, NEW q, NEW j, NEW r, NEW t, Here(p, j, r), Moved(p, q, j, t)
  PROVE  Here(q, j, t)
BY StepHere DEF Moved

\* Replacing the record is such a step.
LEMMA ReplacedMoved ==
  ASSUME NEW p, NEW j, NEW r, NEW t, NEW q, Here(p, j, r), Replaced(p, q, j, t)
  PROVE  Moved(p, q, j, t) /\ Here(q, j, t)
<1>1. Moved(p, q, j, t)
  BY Replaces DEF Moved, Here
<1> QED  BY <1>1, MovedHere

\* The list of a job.
LEMMA OnSet ==
  ASSUME NEW p, NEW j, NEW r, Here(p, j, r), NEW v \in Places, NEW q,
         q = [p EXCEPT !.job[j].on = v], NEW t, t = [r EXCEPT !.on = v]
  PROVE  Moved(p, q, j, t) /\ Here(q, j, t)
<1>1. p \in Memory /\ j \in Jobs /\ p.job[j] = r
  BY DEF Here
<1>2. t = [p.job[j] EXCEPT !.on = v]
  BY <1>1, Zenon
<1>3. Replaced(p, q, j, t)
  BY <1>1, <1>2 DEF Memory, JobRecord, Replaced
<1> QED  BY <1>3, ReplacedMoved

\* Its state.
LEMMA StateSet ==
  ASSUME NEW p, NEW j, NEW r, Here(p, j, r), NEW v \in States, NEW q,
         q = [p EXCEPT !.job[j].state = v], NEW t, t = [r EXCEPT !.state = v]
  PROVE  Moved(p, q, j, t) /\ Here(q, j, t)
<1>1. p \in Memory /\ j \in Jobs /\ p.job[j] = r
  BY DEF Here
<1>2. t = [p.job[j] EXCEPT !.state = v]
  BY <1>1, Zenon
<1>3. Replaced(p, q, j, t)
  BY <1>1, <1>2 DEF Memory, JobRecord, Replaced
<1> QED  BY <1>3, ReplacedMoved

\* Its timers.
LEMMA TtsSet ==
  ASSUME NEW p, NEW j, NEW r, Here(p, j, r), NEW v \in BOOLEAN, NEW q,
         q = [p EXCEPT !.job[j].tts = v], NEW t, t = [r EXCEPT !.tts = v]
  PROVE  Moved(p, q, j, t) /\ Here(q, j, t)
<1>1. p \in Memory /\ j \in Jobs /\ p.job[j] = r
  BY DEF Here
<1>2. t = [p.job[j] EXCEPT !.tts = v]
  BY <1>1, Zenon
<1>3. Replaced(p, q, j, t)
  BY <1>1, <1>2 DEF Memory, JobRecord, Replaced
<1> QED  BY <1>3, ReplacedMoved

\* The timer of its kill time.
LEMMA KillSet ==
  ASSUME NEW p, NEW j, NEW r, Here(p, j, r), NEW v \in BOOLEAN, NEW q,
         q = [p EXCEPT !.job[j].kill = v], NEW t, t = [r EXCEPT !.kill = v]
  PROVE  Moved(p, q, j, t) /\ Here(q, j, t)
<1>1. p \in Memory /\ j \in Jobs /\ p.job[j] = r
  BY DEF Here
<1>2. t = [p.job[j] EXCEPT !.kill = v]
  BY <1>1, Zenon
<1>3. Replaced(p, q, j, t)
  BY <1>1, <1>2 DEF Memory, JobRecord, Replaced
<1> QED  BY <1>3, ReplacedMoved

\* The mark that its kill time has passed.
LEMMA ExpiredSet ==
  ASSUME NEW p, NEW j, NEW r, Here(p, j, r), NEW v \in BOOLEAN, NEW q,
         q = [p EXCEPT !.job[j].expired = v], NEW t, t = [r EXCEPT !.expired = v]
  PROVE  Moved(p, q, j, t) /\ Here(q, j, t)
<1>1. p \in Memory /\ j \in Jobs /\ p.job[j] = r
  BY DEF Here
<1>2. t = [p.job[j] EXCEPT !.expired = v]
  BY <1>1, Zenon
<1>3. Replaced(p, q, j, t)
  BY <1>1, <1>2 DEF Memory, JobRecord, Replaced
<1> QED  BY <1>3, ReplacedMoved

\* The flag of suspendJob.
LEMMA PendingSet ==
  ASSUME NEW p, NEW j, NEW r, Here(p, j, r), NEW v \in BOOLEAN, NEW q,
         q = [p EXCEPT !.job[j].suspendPending = v], NEW t, t = [r EXCEPT !.suspendPending = v]
  PROVE  Moved(p, q, j, t) /\ Here(q, j, t)
<1>1. p \in Memory /\ j \in Jobs /\ p.job[j] = r
  BY DEF Here
<1>2. t = [p.job[j] EXCEPT !.suspendPending = v]
  BY <1>1, Zenon
<1>3. Replaced(p, q, j, t)
  BY <1>1, <1>2 DEF Memory, JobRecord, Replaced
<1> QED  BY <1>3, ReplacedMoved

\* The lock of its queue file.
LEMMA QlockSet ==
  ASSUME NEW p, NEW j, NEW r, Here(p, j, r), NEW v \in BOOLEAN, NEW q,
         q = [p EXCEPT !.job[j].qlock = v], NEW t, t = [r EXCEPT !.qlock = v]
  PROVE  Moved(p, q, j, t) /\ Here(q, j, t)
<1>1. p \in Memory /\ j \in Jobs /\ p.job[j] = r
  BY DEF Here
<1>2. t = [p.job[j] EXCEPT !.qlock = v]
  BY <1>1, Zenon
<1>3. Replaced(p, q, j, t)
  BY <1>1, <1>2 DEF Memory, JobRecord, Replaced
<1> QED  BY <1>3, ReplacedMoved

\* Its subprocess.
LEMMA PidSet ==
  ASSUME NEW p, NEW j, NEW r, Here(p, j, r), NEW v \in {"zero", "set"}, NEW q,
         q = [p EXCEPT !.job[j].pid = v], NEW t, t = [r EXCEPT !.pid = v]
  PROVE  Moved(p, q, j, t) /\ Here(q, j, t)
<1>1. p \in Memory /\ j \in Jobs /\ p.job[j] = r
  BY DEF Here
<1>2. t = [p.job[j] EXCEPT !.pid = v]
  BY <1>1, Zenon
<1>3. Replaced(p, q, j, t)
  BY <1>1, <1>2 DEF Memory, JobRecord, Replaced
<1> QED  BY <1>3, ReplacedMoved

\* What its subprocess does.
LEMMA ChildSet ==
  ASSUME NEW p, NEW j, NEW r, Here(p, j, r), NEW v \in {"none", "prepare", "send", "connected"}, NEW q,
         q = [p EXCEPT !.job[j].child = v], NEW t, t = [r EXCEPT !.child = v]
  PROVE  Moved(p, q, j, t) /\ Here(q, j, t)
<1>1. p \in Memory /\ j \in Jobs /\ p.job[j] = r
  BY DEF Here
<1>2. t = [p.job[j] EXCEPT !.child = v]
  BY <1>1, Zenon
<1>3. Replaced(p, q, j, t)
  BY <1>1, <1>2 DEF Memory, JobRecord, Replaced
<1> QED  BY <1>3, ReplacedMoved

\* Its status.
LEMMA StatusSet ==
  ASSUME NEW p, NEW j, NEW r, Here(p, j, r), NEW v \in {"none", "done", "failed", "retry"}, NEW q,
         q = [p EXCEPT !.job[j].status = v], NEW t, t = [r EXCEPT !.status = v]
  PROVE  Moved(p, q, j, t) /\ Here(q, j, t)
<1>1. p \in Memory /\ j \in Jobs /\ p.job[j] = r
  BY DEF Here
<1>2. t = [p.job[j] EXCEPT !.status = v]
  BY <1>1, Zenon
<1>3. Replaced(p, q, j, t)
  BY <1>1, <1>2 DEF Memory, JobRecord, Replaced
<1> QED  BY <1>3, ReplacedMoved

\* Its queue file.
LEMMA QfileSet ==
  ASSUME NEW p, NEW j, NEW r, Here(p, j, r), NEW v \in {"sendq", "doneq"}, NEW q,
         q = [p EXCEPT !.job[j].qfile = v], NEW t, t = [r EXCEPT !.qfile = v]
  PROVE  Moved(p, q, j, t) /\ Here(q, j, t)
<1>1. p \in Memory /\ j \in Jobs /\ p.job[j] = r
  BY DEF Here
<1>2. t = [p.job[j] EXCEPT !.qfile = v]
  BY <1>1, Zenon
<1>3. Replaced(p, q, j, t)
  BY <1>1, <1>2 DEF Memory, JobRecord, Replaced
<1> QED  BY <1>3, ReplacedMoved

\* What its sender has heard.
LEMMA NoticesSet ==
  ASSUME NEW p, NEW j, NEW r, Here(p, j, r), NEW v \in 0..2, NEW q,
         q = [p EXCEPT !.job[j].notices = v], NEW t, t = [r EXCEPT !.notices = v]
  PROVE  Moved(p, q, j, t) /\ Here(q, j, t)
<1>1. p \in Memory /\ j \in Jobs /\ p.job[j] = r
  BY DEF Here
<1>2. t = [p.job[j] EXCEPT !.notices = v]
  BY <1>1, Zenon
<1>3. Replaced(p, q, j, t)
  BY <1>1, <1>2 DEF Memory, JobRecord, Replaced
<1> QED  BY <1>3, ReplacedMoved

\* Its modem.
LEMMA ModemOfJobSet ==
  ASSUME NEW p, NEW j, NEW r, Here(p, j, r), NEW v \in Modems \cup {NoModem}, NEW q,
         q = [p EXCEPT !.job[j].modem = v], NEW t, t = [r EXCEPT !.modem = v]
  PROVE  Moved(p, q, j, t) /\ Here(q, j, t)
<1>1. p \in Memory /\ j \in Jobs /\ p.job[j] = r
  BY DEF Here
<1>2. t = [p.job[j] EXCEPT !.modem = v]
  BY <1>1, Zenon
<1>3. Replaced(p, q, j, t)
  BY <1>1, <1>2 DEF Memory, JobRecord, Replaced
<1> QED  BY <1>3, ReplacedMoved

\* What only the scheduler reads may change after it.
LEMMA MovedAlike ==
  ASSUME NEW p, NEW q, NEW s, NEW j, NEW r, NEW t, Here(p, j, r), Moved(p, q, j, t),
         Alike(q, s), s.fault = q.fault
  PROVE  Moved(p, s, j, t) /\ Here(s, j, t)
<1>1. Step(p, s, j, t)
  BY StepAlike DEF Moved, Here
<1>2. Moved(p, s, j, t)
  BY <1>1 DEF Moved, SameDest, Alike
<1> QED  BY <1>2, MovedHere

\* The job goes on a list that it may be put on.
LEMMA InsertMoved ==
  ASSUME NEW p, NEW j, NEW r, Here(p, j, r), NEW list \in Places, NEW q, q = Insert(p, j, list),
         r.on \in {"absent", "none"}, NEW t, t = [r EXCEPT !.on = list]
  PROVE  Moved(p, q, j, t) /\ Here(q, j, t)
<1>1. p \in Memory /\ j \in Jobs /\ p.job[j] = r
  BY DEF Here
<1>2. Moved(p, q, j, t)
  BY <1>1, InsertIs DEF Moved
<1> QED  BY <1>2, MovedHere

\* A job that is taken from its list is on none.
LEMMA UnlistedIs ==
  ASSUME NEW r \in JobRecord, NEW u, u = Unlisted(r)
  PROVE  /\ u \in JobRecord /\ u.on \in {"absent", "none"}
         /\ u = [r EXCEPT !.on = u.on]
         /\ (r.on # "absent" => u.on = "none")
<1>1. PICK v : v = IF r.on = "absent" THEN r.on ELSE "none"
  OBVIOUS
<1>2. u = [r EXCEPT !.on = v]
  BY <1>1, Zenon DEF Unlisted
<1>3. v \in {"absent", "none"} /\ v \in Places /\ (r.on # "absent" => v = "none")
  BY <1>1, RecordPlaces
<1> QED  BY <1>2, <1>3 DEF JobRecord

\* QLink::remove, if the job is on a list.
LEMMA UnlistMoved ==
  ASSUME NEW p, NEW j, NEW r, Here(p, j, r), NEW q, q = Unlist(p, j), NEW t, t = Unlisted(r)
  PROVE  Moved(p, q, j, t) /\ Here(q, j, t)
<1>1. p \in Memory /\ Plain(p) /\ j \in Jobs /\ p.job[j] = r
  BY DEF Here
<1>2. Moved(p, q, j, t)
  BY <1>1, UnlistIs DEF Moved
<1> QED  BY <1>2, MovedHere

\* Memories with the same modems release them alike.
LEMMA WithoutSame ==
  ASSUME NEW p, NEW q, q.modem = p.modem, NEW m
  PROVE  Without(q, m) = Without(p, m)
BY DEF Without

\* The job lets modem m go, if it is one.
Freed(p, q, j, r, m) ==
  Step(p, q, j, r) /\ q.modem = Without(p, m) /\ q.fault = p.fault

\* A destination that a job leaves.
LeftDest(p, q, j) == Dropped(p.di[DestOf[j]], q.di[DestOf[j]], j)

\* The destination forgets the job.
Purged(p, q, j, r) ==
  Step(p, q, j, r) /\ LeftDest(p, q, j) /\ q.modem = p.modem /\ q.fault = p.fault

\* removeDestInfoJob makes the destination forget the job.
LEMMA RemoveDestPurged ==
  ASSUME NEW p, NEW j, NEW r, Here(p, j, r), NEW q, q = RemoveDestInfoJob(p, j)
  PROVE  Purged(p, q, j, r) /\ Here(q, j, r)
<1>1. p \in Memory /\ j \in Jobs /\ p.job[j] = r
  BY DEF Here
<1>2. Purged(p, q, j, r)
  BY <1>1, RemoveDestInfoJobIs DEF LeftDest, Purged
<1> QED  BY <1>2, StepHere DEF Purged

\* Modem::release lets its modem go.
LEMMA ReleaseFreed ==
  ASSUME NEW p, NEW j, NEW r, Here(p, j, r), NEW q, q = ReleaseIfHeld(p, j),
         NEW t, t = [r EXCEPT !.modem = NoModem]
  PROVE  Freed(p, q, j, t, r.modem) /\ SameDest(p, q, j) /\ Here(q, j, t)
<1>1. p \in Memory /\ Plain(p) /\ j \in Jobs /\ p.job[j] = r
  BY DEF Here
<1>2. Freed(p, q, j, t, r.modem) /\ SameDest(p, q, j)
  BY <1>1, ReleaseIfHeldIs DEF Freed
<1> QED  BY <1>2, StepHere DEF Freed

\* The record of a dead job.
LEMMA BuriedIs ==
  ASSUME NEW r \in JobRecord, NEW s, s = (IF r.state = "done" THEN r.state ELSE "failed")
  PROVE  /\ Buried(r) = [r EXCEPT !.tts = FALSE, !.suspendPending = FALSE, !.state = s,
                                  !.on = "deadq", !.modem = NoModem]
         /\ s \in States
<1>1. Buried(r) = [r EXCEPT !.tts = FALSE, !.suspendPending = FALSE, !.state = s,
                            !.on = "deadq", !.modem = NoModem]
  BY Zenon DEF Buried
<1>2. s \in States
  BY RecordPlaces
<1> QED  BY <1>1, <1>2

\* setDead.
LEMMA SetDeadIs ==
  ASSUME NEW p, NEW j, NEW r, Here(p, j, r), NEW q, q = SetDead(p, j), NEW t, t = Buried(r)
  PROVE  Freed(p, q, j, t, r.modem) /\ LeftDest(p, q, j) /\ Here(q, j, t)
<1>1. PICK s : s = IF r.state = "done" THEN r.state ELSE "failed"
  OBVIOUS
<1>2. r \in JobRecord /\ p.job[j] = r /\ p \in Memory /\ j \in Jobs
  BY DEF Here
<1>3. s \in States
  BY <1>1, <1>2, BuriedIs
<1>y. PICK y : y = [r EXCEPT !.tts = FALSE]
  OBVIOUS
<1>z. PICK z : z = [y EXCEPT !.suspendPending = FALSE]
  OBVIOUS
<1>4. PICK u : u = [z EXCEPT !.state = s]
  OBVIOUS
<1>5. PICK v : v = Unlisted(u)
  OBVIOUS
<1>6. PICK w : w = [v EXCEPT !.on = "deadq"]
  OBVIOUS
<1>7. PICK x : x = [w EXCEPT !.modem = NoModem]
  OBVIOUS
<1>8. u \in JobRecord /\ u.modem = r.modem
  BY <1>2, <1>3, <1>4, <1>y, <1>z DEF JobRecord
<1>9. v \in JobRecord /\ v.on \in {"absent", "none"} /\ v = [u EXCEPT !.on = v.on]
  BY <1>5, <1>8, UnlistedIs
<1>10. w.modem = r.modem
  BY <1>6, <1>8, <1>9 DEF JobRecord
<1>11. x = t
  <2>1. w = [u EXCEPT !.on = "deadq"]
    BY <1>6, <1>8, <1>9 DEF JobRecord
  <2>2. x = [[u EXCEPT !.on = "deadq"] EXCEPT !.modem = NoModem]
    BY <1>7, <2>1
  <2>3. x = [[[[[r EXCEPT !.tts = FALSE] EXCEPT !.suspendPending = FALSE] EXCEPT !.state = s]
               EXCEPT !.on = "deadq"] EXCEPT !.modem = NoModem]
    BY <1>4, <1>y, <1>z, <2>2, Zenon
  <2>4. x = [r EXCEPT !.tts = FALSE, !.suspendPending = FALSE, !.state = s, !.on = "deadq",
                      !.modem = NoModem]
    BY <2>3
  <2> QED  BY <1>1, <1>2, <2>4, BuriedIs
<1>f. PICK f : f = [p EXCEPT !.job[j].tts = FALSE]
  OBVIOUS
<1>g. PICK g : g = [f EXCEPT !.job[j].suspendPending = FALSE]
  OBVIOUS
<1>a. PICK a : a = [g EXCEPT !.job[j].state = s]
  OBVIOUS
<1>b. PICK b : b = RemoveDestInfoJob(a, j)
  OBVIOUS
<1>c. PICK c : c = Unlist(b, j)
  OBVIOUS
<1>d. PICK d : d = Insert(c, j, "deadq")
  OBVIOUS
<1>e. PICK e : e = ReleaseIfHeld(d, j)
  OBVIOUS
<1>13. FALSE \in BOOLEAN
  OBVIOUS
<1>m. Moved(p, f, j, y) /\ Here(f, j, y)
  BY <1>f, <1>y, <1>13, TtsSet
<1>n. Moved(f, g, j, z) /\ Here(g, j, z)
  BY <1>g, <1>z, <1>13, <1>m, PendingSet
<1>o. Moved(g, a, j, u) /\ Here(a, j, u)
  BY <1>a, <1>3, <1>4, <1>n, StateSet
<1>12. q = Poke(e)
  <2>1. g.job[j].state = r.state
    BY <1>2, <1>n, <1>y, <1>z DEF Here, JobRecord
  <2>2. a = [g EXCEPT !.job[j].state = IF @ = "done" THEN @ ELSE "failed"]
    BY <1>1, <1>a, <2>1
  <2>3. SetDead(p, j) = Poke(ReleaseIfHeld(Insert(Unlist(RemoveDestInfoJob(
          [g EXCEPT !.job[j].state = IF @ = "done" THEN @ ELSE "failed"], j), j), j, "deadq"), j))
    BY <1>f, <1>g DEF SetDead
  <2> QED  BY <1>b, <1>c, <1>d, <1>e, <2>2, <2>3, Zenon
<1>p. Moved(p, a, j, u)
  BY <1>m, <1>n, <1>o, MovedChain
<1>14. Purged(a, b, j, u) /\ Here(b, j, u)
  BY <1>b, <1>o, RemoveDestPurged
<1>15. Moved(b, c, j, v) /\ Here(c, j, v)
  BY <1>5, <1>c, <1>14, UnlistMoved
<1>16. Moved(c, d, j, w) /\ Here(d, j, w)
  BY <1>6, <1>9, <1>d, <1>15, InsertMoved, RecordPlaces
<1>17. Freed(d, e, j, x, r.modem) /\ SameDest(d, e, j) /\ Here(e, j, x)
  BY <1>7, <1>10, <1>e, <1>16, ReleaseFreed
<1>18. Alike(e, q) /\ q.fault = e.fault
  BY <1>12, <1>17, PokeIs DEF Here
<1>19. Step(p, q, j, x)
  <2>1. Step(p, b, j, u)
    BY <1>p, <1>14, StepChain DEF Moved, Purged
  <2>2. Step(p, c, j, v)
    BY <1>15, <2>1, StepChain DEF Moved
  <2>3. Step(p, d, j, w)
    BY <1>16, <2>2, StepChain DEF Moved
  <2>4. Step(p, e, j, x)
    BY <1>17, <2>3, StepChain DEF Freed
  <2> QED  BY <1>2, <1>18, <2>4, StepAlike
<1>20. LeftDest(p, q, j)
  BY <1>p, <1>14, <1>15, <1>16, <1>17, <1>18 DEF Moved, Purged, LeftDest, SameDest, Alike
<1>21. q.modem = Without(p, r.modem) /\ q.fault = p.fault
  BY <1>p, <1>14, <1>15, <1>16, <1>17, <1>18, WithoutSame DEF Moved, Purged, Freed, Alike
<1> QED  BY <1>11, <1>19, <1>20, <1>21, StepHere DEF Freed

-----------------------------------------------------------------------------
(* The other transitions *)

\* setReadyToRun.
LEMMA SetReadyToRunIs ==
  ASSUME NEW p, NEW j, NEW r, Here(p, j, r), r.on \in {"absent", "none"},
         NEW q, q = SetReadyToRun(p, j), NEW t, t = Readied(r)
  PROVE  Moved(p, q, j, t) /\ Here(q, j, t)
<1>1. PICK a : a = Insert(p, j, "runq")
  OBVIOUS
<1>2. PICK b : b = [a EXCEPT !.job[j].state = "ready"]
  OBVIOUS
<1>3. PICK u : u = [r EXCEPT !.on = "runq"]
  OBVIOUS
<1>4. PICK v : v = [u EXCEPT !.state = "ready"]
  OBVIOUS
<1>5. q = [b EXCEPT !.job[j].pid = "zero"] /\ t = [v EXCEPT !.pid = "zero"]
  BY <1>1, <1>2, <1>3, <1>4 DEF SetReadyToRun, Readied
<1>6. Moved(p, a, j, u) /\ Here(a, j, u)
  BY <1>1, <1>3, InsertMoved, RecordPlaces
<1>7. Moved(a, b, j, v) /\ Here(b, j, v)
  BY <1>2, <1>4, <1>6, StateSet, RecordPlaces
<1>8. Moved(b, q, j, t) /\ Here(q, j, t)
  BY <1>5, <1>7, PidSet
<1> QED  BY <1>6, <1>7, <1>8, MovedChain

\* setSleep.
LEMMA SetSleepIs ==
  ASSUME NEW p, NEW j, NEW r, Here(p, j, r), r.on \in {"absent", "none"}, NEW state \in States,
         NEW q, q = SetSleep(p, j, state), NEW t, t = Asleep(r, state)
  PROVE  Moved(p, q, j, t) /\ Here(q, j, t)
<1>1. PICK a : a = Insert(p, j, "sleepq")
  OBVIOUS
<1>2. PICK b : b = [a EXCEPT !.job[j].state = state]
  OBVIOUS
<1>3. PICK u : u = [r EXCEPT !.on = "sleepq"]
  OBVIOUS
<1>4. PICK v : v = [u EXCEPT !.state = state]
  OBVIOUS
<1>5. q = [b EXCEPT !.job[j].tts = TRUE] /\ t = [v EXCEPT !.tts = TRUE]
  BY <1>1, <1>2, <1>3, <1>4 DEF SetSleep, Asleep
<1>6. Moved(p, a, j, u) /\ Here(a, j, u)
  BY <1>1, <1>3, InsertMoved, RecordPlaces
<1>7. Moved(a, b, j, v) /\ Here(b, j, v)
  BY <1>2, <1>4, <1>6, StateSet
<1>8. TRUE \in BOOLEAN
  OBVIOUS
<1>9. Moved(b, q, j, t) /\ Here(q, j, t)
  BY <1>5, <1>7, <1>8, TtsSet
<1> QED  BY <1>6, <1>7, <1>9, MovedChain

\* setActive.
LEMMA SetActiveIs ==
  ASSUME NEW p, NEW j, NEW r, Here(p, j, r), r.on \in {"absent", "none"},
         NEW q, q = SetActive(p, j), NEW t, t = Activated(r)
  PROVE  Moved(p, q, j, t) /\ Here(q, j, t)
<1>1. PICK a : a = Insert(p, j, "activeq")
  OBVIOUS
<1>2. PICK u : u = [r EXCEPT !.on = "activeq"]
  OBVIOUS
<1>3. q = [a EXCEPT !.job[j].state = "active"] /\ t = [u EXCEPT !.state = "active"]
  BY <1>1, <1>2 DEF SetActive, Activated
<1>4. Moved(p, a, j, u) /\ Here(a, j, u)
  BY <1>1, <1>2, InsertMoved, RecordPlaces
<1>5. Moved(a, q, j, t) /\ Here(q, j, t)
  BY <1>3, <1>4, StateSet, RecordPlaces
<1> QED  BY <1>4, <1>5, MovedChain

\* setSuspend.
LEMMA SetSuspendIs ==
  ASSUME NEW p, NEW j, NEW r, Here(p, j, r), r.on \in {"absent", "none"},
         NEW q, q = SetSuspend(p, j), NEW t, t = Paused(r)
  PROVE  Moved(p, q, j, t) /\ Here(q, j, t)
<1>1. PICK a : a = Insert(p, j, "suspendq")
  OBVIOUS
<1>2. PICK u : u = [r EXCEPT !.on = "suspendq"]
  OBVIOUS
<1>3. q = [a EXCEPT !.job[j].state = "suspended"] /\ t = [u EXCEPT !.state = "suspended"]
  BY <1>1, <1>2 DEF SetSuspend, Paused
<1>4. Moved(p, a, j, u) /\ Here(a, j, u)
  BY <1>1, <1>2, InsertMoved, RecordPlaces
<1>5. Moved(a, q, j, t) /\ Here(q, j, t)
  BY <1>3, <1>4, StateSet, RecordPlaces
<1> QED  BY <1>4, <1>5, MovedChain

\* delayJob.
LEMMA DelayJobIs ==
  ASSUME NEW p, NEW j, NEW r, Here(p, j, r), r.on \in {"absent", "none"},
         NEW q, q = DelayJob(p, j), NEW t, t = Delayed(r)
  PROVE  Freed(p, q, j, t, r.modem) /\ SameDest(p, q, j) /\ Here(q, j, t)
<1>1. PICK a : a = SetSleep(p, j, "sleeping")
  OBVIOUS
<1>2. PICK u : u = Asleep(r, "sleeping")
  OBVIOUS
<1>3. q = ReleaseIfHeld(a, j) /\ t = [u EXCEPT !.modem = NoModem]
  BY <1>1, <1>2 DEF DelayJob, Delayed
<1>4. Moved(p, a, j, u) /\ Here(a, j, u)
  BY <1>1, <1>2, SetSleepIs, RecordPlaces
<1>5. u.modem = r.modem
  BY <1>2 DEF Asleep, Here, JobRecord
<1>6. Freed(a, q, j, t, r.modem) /\ SameDest(a, q, j) /\ Here(q, j, t)
  BY <1>3, <1>4, <1>5, ReleaseFreed
<1>7. Step(p, q, j, t)
  BY <1>4, <1>6, StepChain DEF Moved, Freed
<1> QED  BY <1>4, <1>6, <1>7, WithoutSame DEF Freed, Moved, SameDest

\* deleteRequest.
LEMMA DeleteRequestIs ==
  ASSUME NEW p, NEW j, NEW r, Here(p, j, r), NEW q, q = DeleteRequest(p, j),
         NEW t, t = Reported(r)
  PROVE  Moved(p, q, j, t) /\ Here(q, j, t)
<1>1. PICK n : n = IF r.notices < 2 THEN r.notices + 1 ELSE 2
  OBVIOUS
<1>2. PICK a : a = [p EXCEPT !.job[j].qfile = "doneq"]
  OBVIOUS
<1>3. PICK b : b = [a EXCEPT !.job[j].qlock = FALSE]
  OBVIOUS
<1>4. PICK u : u = [r EXCEPT !.qfile = "doneq"]
  OBVIOUS
<1>5. PICK v : v = [u EXCEPT !.qlock = FALSE]
  OBVIOUS
<1>6. Moved(p, a, j, u) /\ Here(a, j, u)
  BY <1>2, <1>4, QfileSet
<1>7. FALSE \in BOOLEAN
  OBVIOUS
<1>8. Moved(a, b, j, v) /\ Here(b, j, v)
  BY <1>3, <1>5, <1>6, <1>7, QlockSet
<1>9. r.notices \in 0..2 /\ v.notices = r.notices /\ b.job[j] = v
  BY <1>4, <1>5, <1>8 DEF Here, JobRecord
<1>10. n \in 0..2
  BY <1>1, <1>9
<1>11. q = [b EXCEPT !.job[j].notices = n]
  <2>1. q = [b EXCEPT !.job[j].notices = IF @ < 2 THEN @ + 1 ELSE 2]
    BY <1>2, <1>3 DEF DeleteRequest
  <2>2. b.job[j].notices = r.notices
    BY <1>9
  <2> QED  BY <1>1, <2>1, <2>2
<1>12. t = [v EXCEPT !.notices = n]
  <2>1. t = [v EXCEPT !.notices = IF @ < 2 THEN @ + 1 ELSE 2]
    BY <1>4, <1>5 DEF Reported
  <2> QED  BY <1>1, <1>9, <2>1
<1>13. Moved(b, q, j, t) /\ Here(q, j, t)
  BY <1>8, <1>10, <1>11, <1>12, NoticesSet
<1> QED  BY <1>6, <1>8, <1>13, MovedChain

\* What a suspended or killed job leaves.
LEMMA LeaveIs ==
  ASSUME NEW p, NEW j, NEW r, Here(p, j, r), NEW q, q = Leave(p, j), NEW t, t = Departed(r)
  PROVE  Purged(p, q, j, t) /\ Here(q, j, t)
<1>1. PICK a : a = RemoveDestInfoJob(p, j)
  OBVIOUS
<1>2. PICK b : b = Unlist(a, j)
  OBVIOUS
<1>3. PICK u : u = Unlisted(r)
  OBVIOUS
<1>4. q = [b EXCEPT !.job[j].kill = FALSE] /\ t = [u EXCEPT !.kill = FALSE]
  BY <1>1, <1>2, <1>3 DEF Leave, Departed
<1>5. Purged(p, a, j, r) /\ Here(a, j, r)
  BY <1>1, RemoveDestPurged
<1>6. Moved(a, b, j, u) /\ Here(b, j, u)
  BY <1>2, <1>3, <1>5, UnlistMoved
<1>7. FALSE \in BOOLEAN
  OBVIOUS
<1>8. Moved(b, q, j, t) /\ Here(q, j, t)
  BY <1>4, <1>6, <1>7, KillSet
<1>9. Moved(a, q, j, t)
  BY <1>6, <1>8, MovedChain
<1>10. Step(p, q, j, t)
  BY <1>5, <1>9, StepChain DEF Purged, Moved
<1> QED  BY <1>5, <1>8, <1>9, <1>10 DEF Purged, Moved, SameDest, LeftDest

\* The record of a job that a client has taken away.
LEMMA DepartedIs ==
  ASSUME NEW r \in JobRecord, NEW t, t = Departed(r)
  PROVE  /\ t.on \in {"absent", "none"} /\ t \in JobRecord
         /\ t = [r EXCEPT !.on = t.on, !.kill = FALSE]
<1>1. PICK u : u = Unlisted(r)
  OBVIOUS
<1>2. u \in JobRecord /\ u.on \in {"absent", "none"} /\ u = [r EXCEPT !.on = u.on]
  BY <1>1, UnlistedIs
<1>3. t = [u EXCEPT !.kill = FALSE]
  BY <1>1 DEF Departed
<1>4. t.on = u.on /\ t \in JobRecord
  BY <1>2, <1>3 DEF JobRecord
<1>5. t = [[r EXCEPT !.on = u.on] EXCEPT !.kill = FALSE]
  BY <1>2, <1>3, Zenon
<1>6. t = [[r EXCEPT !.on = t.on] EXCEPT !.kill = FALSE]
  BY <1>4, <1>5, Zenon
<1> QED  BY <1>2, <1>4, <1>6

\* suspendJob, of a job without a subprocess.
LEMMA SuspendedIs ==
  ASSUME NEW p, NEW j, NEW r, Here(p, j, r), ~r.qlock, NEW q, q = Suspended(p, j),
         NEW t, t = Paused(Departed(r))
  PROVE  Purged(p, q, j, t) /\ Here(q, j, t)
<1>1. PICK a : a = Leave(p, j)
  OBVIOUS
<1>2. PICK b : b = SetSuspend(a, j)
  OBVIOUS
<1>3. PICK c : c = ReadRequest(b, j)
  OBVIOUS
<1>4. PICK u : u = Departed(r)
  OBVIOUS
<1>5. q = Poke(c) /\ t = Paused(u)
  BY <1>1, <1>2, <1>3, <1>4 DEF Suspended
<1>6. Purged(p, a, j, u) /\ Here(a, j, u)
  BY <1>1, <1>4, LeaveIs
<1>7. r \in JobRecord
  BY DEF Here
<1>8. u.on \in {"absent", "none"} /\ u.qlock = r.qlock
  <2>1. u.on \in {"absent", "none"} /\ u = [r EXCEPT !.on = u.on, !.kill = FALSE]
    BY <1>4, <1>7, DepartedIs
  <2> QED  BY <1>7, <2>1 DEF JobRecord
<1>9. Moved(a, b, j, t) /\ Here(b, j, t)
  BY <1>2, <1>5, <1>6, <1>8, SetSuspendIs
<1>10. t.qlock = r.qlock
  BY <1>5, <1>6, <1>8 DEF Paused, Here, JobRecord
<1>11. Alike(b, c) /\ c.fault = b.fault
  BY <1>3, <1>9, <1>10, ReadRequestIs DEF Here
<1>12. Moved(a, c, j, t) /\ Here(c, j, t)
  BY <1>6, <1>9, <1>11, MovedAlike
<1>13. Alike(c, q) /\ q.fault = c.fault
  BY <1>5, <1>12, PokeIs DEF Here
<1>14. Moved(a, q, j, t) /\ Here(q, j, t)
  BY <1>6, <1>12, <1>13, MovedAlike
<1>15. Step(p, q, j, t)
  BY <1>6, <1>14, StepChain DEF Purged, Moved
<1> QED  BY <1>6, <1>14, <1>15 DEF Purged, Moved, SameDest, LeftDest

\* The end of a job that is told to its sender first.
LEMMA DeadAfter ==
  ASSUME NEW p, NEW j, NEW r, Here(p, j, r), NEW q, q = SetDead(DeleteRequest(p, j), j),
         NEW t, t = Buried(Reported(r))
  PROVE  Freed(p, q, j, t, r.modem) /\ LeftDest(p, q, j) /\ Here(q, j, t)
<1>1. PICK a : a = DeleteRequest(p, j)
  OBVIOUS
<1>2. PICK u : u = Reported(r)
  OBVIOUS
<1>3. Moved(p, a, j, u) /\ Here(a, j, u)
  BY <1>1, <1>2, DeleteRequestIs
<1>4. u.modem = r.modem
  BY <1>2 DEF Reported, Here, JobRecord
<1>5. q = SetDead(a, j) /\ t = Buried(u)
  BY <1>1, <1>2
<1>6. Freed(a, q, j, t, r.modem) /\ LeftDest(a, q, j) /\ Here(q, j, t)
  BY <1>3, <1>4, <1>5, SetDeadIs
<1>7. Step(p, q, j, t)
  BY <1>3, <1>6, StepChain DEF Moved, Freed
<1> QED  BY <1>3, <1>6, <1>7, WithoutSame DEF Freed, Moved, SameDest, LeftDest

\* Dropping a job once more changes nothing.
LEMMA DroppedTwice ==
  ASSUME NEW x, NEW y, NEW z, NEW j, Dropped(x, y, j), Dropped(y, z, j), z \in DestRecord
  PROVE  Dropped(x, z, j)
<1>1. CASE y = NewDest /\ z # NewDest
  <2>1. z.active = {} /\ z.calls = 0 /\ z.blocked = 0 /\ z.pending = FALSE
    BY <1>1 DEF Dropped, NewDest
  <2>2. z = NewDest
    BY <2>1 DEF DestRecord, NewDest
  <2> QED  BY <1>1, <2>2
<1>2. CASE y # NewDest \/ z = NewDest
  BY <1>2 DEF Dropped
<1> QED  BY <1>1, <1>2

\* The entries of a memory.
LEMMA EntryType ==
  ASSUME NEW q \in Memory, NEW d \in Dests
  PROVE  /\ q.di[d] \in DestRecord
         /\ q.di[d].active \in SUBSET Jobs /\ q.di[d].calls \in Nat /\ q.di[d].blocked \in Nat
<1>1. q.di[d] \in DestRecord
  BY DEF Memory
<1> QED  BY <1>1 DEF DestRecord

\* terminateJob, of a job without a subprocess.
LEMMA KilledIs ==
  ASSUME NEW p, NEW j, NEW r, Here(p, j, r), ~r.qlock, NEW q, q = Killed(p, j),
         NEW u, u = FailedNow(r), NEW t, t = Buried(Reported(u))
  PROVE  Freed(p, q, j, t, r.modem) /\ LeftDest(p, q, j) /\ Here(q, j, t)
<1>1. PICK a : a = Leave(p, j)
  OBVIOUS
<1>2. PICK v : v = Departed(r)
  OBVIOUS
<1>3. PICK b : b = [a EXCEPT !.job[j].state = "failed"]
  OBVIOUS
<1>4. PICK c : c = ReadRequest(b, j)
  OBVIOUS
<1>5. q = SetDead(DeleteRequest(c, j), j) /\ u = [v EXCEPT !.state = "failed"]
  BY <1>1, <1>2, <1>3, <1>4 DEF Killed, FailedNow
<1>6. r \in JobRecord
  BY DEF Here
<1>7. Purged(p, a, j, v) /\ Here(a, j, v)
  BY <1>1, <1>2, LeaveIs
<1>8. ~v.qlock /\ v.modem = r.modem /\ v \in JobRecord
  <2>1. v = [r EXCEPT !.on = v.on, !.kill = FALSE] /\ v \in JobRecord
    BY <1>2, <1>6, DepartedIs
  <2> QED  BY <1>6, <2>1 DEF JobRecord
<1>9. Moved(a, b, j, u) /\ Here(b, j, u)
  <2>1. "failed" \in States
    BY RecordPlaces
  <2> QED  BY <1>3, <1>5, <1>7, <2>1, StateSet
<1>10. ~u.qlock /\ u.modem = r.modem
  BY <1>5, <1>8 DEF JobRecord
<1>11. Alike(b, c) /\ c.fault = b.fault
  BY <1>4, <1>9, <1>10, ReadRequestIs DEF Here
<1>12. Moved(a, c, j, u) /\ Here(c, j, u)
  BY <1>7, <1>9, <1>11, MovedAlike
<1>13. Freed(c, q, j, t, r.modem) /\ LeftDest(c, q, j) /\ Here(q, j, t)
  BY <1>5, <1>10, <1>12, DeadAfter
<1>14. Step(p, q, j, t)
  <2>1. Step(p, c, j, u)
    BY <1>7, <1>12, StepChain DEF Purged, Moved
  <2> QED  BY <1>13, <2>1, StepChain DEF Freed
<1>15. LeftDest(p, q, j)
  <2>1. /\ Dropped(p.di[DestOf[j]], a.di[DestOf[j]], j)
        /\ Dropped(a.di[DestOf[j]], q.di[DestOf[j]], j)
    BY <1>7, <1>12, <1>13 DEF Purged, LeftDest, Moved, SameDest
  <2>2. q.di[DestOf[j]] \in DestRecord
    BY <1>13, EntryType, DestOfType DEF Here
  <2> QED  BY <2>1, <2>2, DroppedTwice DEF LeftDest
<1>16. q.modem = Without(p, r.modem) /\ q.fault = p.fault
  BY <1>7, <1>12, <1>13, WithoutSame DEF Purged, Moved, Freed
<1> QED  BY <1>13, <1>14, <1>15, <1>16 DEF Freed

-----------------------------------------------------------------------------
(* Destinations *)

\* The entry of the destination of j becomes y.
Turned(p, q, j, r, y) ==
  Step(p, q, j, r) /\ q.di[DestOf[j]] = y /\ q.modem = p.modem /\ q.fault = p.fault

\* An entry is replaced.
LEMMA EntrySet ==
  ASSUME NEW p, NEW j, NEW r, Here(p, j, r), NEW y \in DestRecord, NEW q,
         q = [p EXCEPT !.di[DestOf[j]] = y]
  PROVE  Turned(p, q, j, r, y) /\ Here(q, j, r)
<1>1. p \in Memory /\ j \in Jobs /\ p.job[j] = r /\ r \in JobRecord
  BY DEF Here
<1>2. DestOf[j] \in Dests
  BY <1>1, DestOfType
<1>3. /\ q \in Memory /\ q.job = p.job /\ q.di = [p.di EXCEPT ![DestOf[j]] = y]
      /\ q.modem = p.modem /\ q.fault = p.fault
      /\ q.running = p.running
      /\ p.di \in [Dests -> DestRecord]
  BY <1>1, <1>2 DEF Memory
<1>4. Turned(p, q, j, r, y)
  BY <1>1, <1>2, <1>3 DEF Turned, Step
<1> QED  BY <1>4, StepHere DEF Turned

\* hangup.
HungUp(x, y) ==
  y \in DestRecord /\ y.active = x.active /\ y.blocked = x.blocked
    /\ y.calls = Minus(x.calls, 1) /\ ~y.pending

\* DestInfo::hangup.
LEMMA HangupIs ==
  ASSUME NEW p, NEW j, NEW r, Here(p, j, r), NEW q, q = Hangup(p, DestOf[j]),
         NEW x, x = p.di[DestOf[j]]
  PROVE  \E y : HungUp(x, y) /\ Turned(p, q, j, r, y) /\ Here(q, j, r)
<1>1. p \in Memory /\ DestOf[j] \in Dests
  BY DestOfType DEF Here
<1>2. x \in DestRecord /\ x.calls \in Nat
  BY <1>1, EntryType
<1>3. PICK n : n = Minus(x.calls, 1)
  OBVIOUS
<1>4. n \in Nat
  BY <1>2, <1>3 DEF Minus
<1>5. PICK y : y = [x EXCEPT !.calls = n, !.pending = FALSE]
  OBVIOUS
<1>6. HungUp(x, y)
  BY <1>2, <1>3, <1>4, <1>5 DEF HungUp, DestRecord
<1>7. q = [p EXCEPT !.di[DestOf[j]] = y]
  BY <1>1, <1>3, <1>5 DEF Hangup, Memory
<1>8. Turned(p, q, j, r, y) /\ Here(q, j, r)
  BY <1>6, <1>7, EntrySet DEF HungUp
<1> QED  BY <1>6, <1>8

\* call.
LEMMA CallIs ==
  ASSUME NEW p, NEW j, NEW r, Here(p, j, r), NEW q, q = Call(p, DestOf[j]),
         NEW x, x = p.di[DestOf[j]]
  PROVE  \E y : /\ y \in DestRecord /\ y.active = x.active /\ y.blocked = x.blocked
                /\ y.calls = x.calls + 1
                /\ Turned(p, q, j, r, y) /\ Here(q, j, r)
<1>1. p \in Memory /\ DestOf[j] \in Dests
  BY DestOfType DEF Here
<1>2. x \in DestRecord /\ x.calls \in Nat
  BY <1>1, EntryType
<1>3. PICK n : n = x.calls + 1
  OBVIOUS
<1>4. n \in Nat
  BY <1>2, <1>3
<1>5. PICK y : y = [x EXCEPT !.calls = n, !.pending = TRUE]
  OBVIOUS
<1>6. y \in DestRecord /\ y.active = x.active /\ y.blocked = x.blocked /\ y.calls = x.calls + 1
  BY <1>2, <1>3, <1>4, <1>5 DEF DestRecord
<1>7. q = [p EXCEPT !.di[DestOf[j]] = y]
  BY <1>1, <1>3, <1>5 DEF Call, Memory
<1>8. Turned(p, q, j, r, y) /\ Here(q, j, r)
  BY <1>6, <1>7, EntrySet
<1> QED  BY <1>6, <1>8

\* connected.
LEMMA ConnectedIs ==
  ASSUME NEW p, NEW j, NEW r, Here(p, j, r), NEW q, q = Connected(p, DestOf[j]),
         NEW x, x = p.di[DestOf[j]]
  PROVE  \E y : /\ y \in DestRecord /\ y.active = x.active /\ y.blocked = x.blocked
                /\ y.calls = x.calls /\ ~y.pending
                /\ Turned(p, q, j, r, y) /\ Here(q, j, r)
<1>1. p \in Memory /\ DestOf[j] \in Dests
  BY DestOfType DEF Here
<1>2. x \in DestRecord
  BY <1>1, EntryType
<1>3. PICK y : y = [x EXCEPT !.pending = FALSE]
  OBVIOUS
<1>4. /\ y \in DestRecord /\ y.active = x.active /\ y.blocked = x.blocked
      /\ y.calls = x.calls /\ ~y.pending
  BY <1>2, <1>3 DEF DestRecord
<1>5. q = [p EXCEPT !.di[DestOf[j]] = y]
  BY <1>1, <1>3 DEF Connected, Memory
<1>6. Turned(p, q, j, r, y) /\ Here(q, j, r)
  BY <1>4, <1>5, EntrySet
<1> QED  BY <1>4, <1>6

\* active.
LEMMA ActiveIs ==
  ASSUME NEW p, NEW j, NEW r, Here(p, j, r), NEW q, q = Active(p, j),
         NEW x, x = p.di[DestOf[j]]
  PROVE  \E y : /\ y \in DestRecord /\ y.active = x.active \cup {j} /\ y.blocked = x.blocked
                /\ y.calls = x.calls /\ y.pending = x.pending
                /\ Turned(p, q, j, r, y) /\ Here(q, j, r)
<1>1. p \in Memory /\ DestOf[j] \in Dests /\ j \in Jobs
  BY DestOfType DEF Here
<1>2. x \in DestRecord
  BY <1>1, EntryType
<1>3. PICK y : y = [x EXCEPT !.active = x.active \cup {j}]
  OBVIOUS
<1>4. /\ y \in DestRecord /\ y.active = x.active \cup {j} /\ y.blocked = x.blocked
      /\ y.calls = x.calls /\ y.pending = x.pending
  BY <1>1, <1>2, <1>3 DEF DestRecord
<1>5. q = [p EXCEPT !.di[DestOf[j]] = y]
  BY <1>1, <1>3 DEF Active, Memory
<1>6. Turned(p, q, j, r, y) /\ Here(q, j, r)
  BY <1>4, <1>5, EntrySet
<1> QED  BY <1>4, <1>6

\* A blocked job is counted no more.
LEMMA UnblockOneIs ==
  ASSUME NEW p, NEW j, NEW r, Here(p, j, r), NEW q, q = UnblockOne(p, DestOf[j]),
         NEW x, x = p.di[DestOf[j]]
  PROVE  \E y : /\ y \in DestRecord /\ y.active = x.active /\ y.blocked = Minus(x.blocked, 1)
                /\ y.calls = x.calls /\ y.pending = x.pending
                /\ Turned(p, q, j, r, y) /\ Here(q, j, r)
<1>1. p \in Memory /\ DestOf[j] \in Dests
  BY DestOfType DEF Here
<1>2. x \in DestRecord /\ x.blocked \in Nat
  BY <1>1, EntryType
<1>3. PICK n : n = Minus(x.blocked, 1)
  OBVIOUS
<1>4. n \in Nat
  BY <1>2, <1>3 DEF Minus
<1>5. PICK y : y = [x EXCEPT !.blocked = n]
  OBVIOUS
<1>6. /\ y \in DestRecord /\ y.active = x.active /\ y.blocked = Minus(x.blocked, 1)
      /\ y.calls = x.calls /\ y.pending = x.pending
  BY <1>2, <1>3, <1>4, <1>5 DEF DestRecord
<1>7. q = [p EXCEPT !.di[DestOf[j]] = y]
  BY <1>1, <1>3, <1>5 DEF UnblockOne, Memory
<1>8. Turned(p, q, j, r, y) /\ Here(q, j, r)
  BY <1>6, <1>7, EntrySet
<1> QED  BY <1>6, <1>8

-----------------------------------------------------------------------------
(* The jobs that wait for a destination *)

\* A blocked job may be woken, or put to sleep.
Woken(r, t) ==
  t = r \/ (r.on = "blocked" /\ (t = Readied(r) \/ t = Asleep(r, "sleeping")))

\* s is q but for jobs that were blocked on d.
Wakes(q, s, d) ==
  /\ s \in Memory
  /\ \A k \in Jobs : Woken(q.job[k], s.job[k])
  /\ \A e \in Dests \ {d} : s.di[e] = q.di[e]
  /\ s.di[d].active = q.di[d].active /\ s.di[d].calls = q.di[d].calls
  /\ s.di[d].pending = q.di[d].pending
  /\ s.modem = q.modem /\ s.fault = q.fault /\ s.running = q.running

\* The record of a job made ready.
LEMMA ReadiedIs ==
  ASSUME NEW r \in JobRecord, NEW t, t = Readied(r)
  PROVE  /\ t \in JobRecord /\ t.on = "runq" /\ t.state = "ready"
         /\ t.modem = r.modem /\ t.child = r.child /\ t.notices = r.notices /\ t.qfile = r.qfile
         /\ t.bprev = r.bprev /\ t.bnext = r.bnext
         /\ (t.tts <=> r.tts) /\ (t.suspendPending <=> r.suspendPending)
         /\ (t.qlock <=> r.qlock) /\ (t.kill <=> r.kill)
<1>1. t = [r EXCEPT !.on = "runq", !.state = "ready", !.pid = "zero"]
  BY DEF Readied
<1>2. t \in JobRecord
  BY <1>1, RecordPlaces DEF JobRecord
<1> QED  BY <1>1, <1>2 DEF JobRecord

\* The record of a job put to sleep.
LEMMA AsleepIs ==
  ASSUME NEW r \in JobRecord, NEW state \in States, NEW t, t = Asleep(r, state)
  PROVE  /\ t \in JobRecord /\ t.on = "sleepq" /\ t.state = state /\ t.tts
         /\ t.modem = r.modem /\ t.child = r.child /\ t.notices = r.notices /\ t.qfile = r.qfile
         /\ t.bprev = r.bprev /\ t.bnext = r.bnext
         /\ (t.suspendPending <=> r.suspendPending)
         /\ (t.qlock <=> r.qlock) /\ (t.kill <=> r.kill)
<1>1. t = [r EXCEPT !.on = "sleepq", !.state = state, !.tts = TRUE]
  BY DEF Asleep
<1>2. t \in JobRecord
  BY <1>1, RecordPlaces DEF JobRecord
<1> QED  BY <1>1, <1>2 DEF JobRecord

\* unblockDestJobs and delayDestJobs touch blocked jobs only.
LEMMA WakesAre ==
  ASSUME NEW q \in Memory, NEW d \in Dests, NEW U \in SUBSET BlockedOn(q, d),
         NEW s, s = Unblock(q, d, U) \/ (U = BlockedOn(q, d) /\ s = DelayBlocked(q, d))
  PROVE  /\ Wakes(q, s, d)
         /\ s.di[d].blocked = Minus(q.di[d].blocked, Cardinality(U))
         /\ \A k \in U : s.job[k].on # "blocked"
         /\ \A k \in Jobs \ U : s.job[k] = q.job[k]
<1>1. PICK f : \/ /\ f = [k \in Jobs |-> IF k \in U THEN Readied(q.job[k]) ELSE q.job[k]]
                  /\ s = [q EXCEPT !.di[d].blocked = Minus(@, Cardinality(U)), !.job = f]
               \/ /\ f = [k \in Jobs |-> IF k \in U THEN Asleep(q.job[k], "sleeping") ELSE q.job[k]]
                  /\ s = [q EXCEPT !.di[d].blocked = Minus(@, Cardinality(U)), !.job = f]
  BY DEF Unblock, DelayBlocked, Readied, Asleep
<1>2. PICK n : n = Minus(q.di[d].blocked, Cardinality(U))
  OBVIOUS
<1>3. PICK y : y = [q.di[d] EXCEPT !.blocked = n]
  OBVIOUS
<1>4. s = [q EXCEPT !.di[d] = y, !.job = f]
  <2>1. s = [q EXCEPT !.di[d].blocked = Minus(@, Cardinality(U)), !.job = f]
    BY <1>1
  <2> QED  BY <1>2, <1>3, <2>1 DEF Memory
<1>5. q.di[d] \in DestRecord /\ n \in Nat
  <2>1. U \in SUBSET Jobs
    BY DEF BlockedOn
  <2> QED  BY <1>2, <2>1, EntryType, CountType, MinusType
<1>6. /\ y \in DestRecord /\ y.active = q.di[d].active /\ y.calls = q.di[d].calls
      /\ y.pending = q.di[d].pending /\ y.blocked = n
  BY <1>3, <1>5 DEF DestRecord
<1>7. ASSUME NEW k \in Jobs
      PROVE  /\ f[k] \in JobRecord /\ Woken(q.job[k], f[k])
             /\ k \in U => f[k].on # "blocked"
             /\ k \notin U => f[k] = q.job[k]
  <2>1. q.job[k] \in JobRecord
    BY DEF Memory
  <2>2. CASE k \notin U
    BY <1>1, <2>1, <2>2 DEF Woken
  <2>3. CASE k \in U
    <3>1. q.job[k].on = "blocked"
      BY <2>3 DEF BlockedOn
    <3>2. f[k] = Readied(q.job[k]) \/ f[k] = Asleep(q.job[k], "sleeping")
      BY <1>1, <2>3
    <3>3. f[k] \in JobRecord /\ f[k].on # "blocked"
      <4>1. CASE f[k] = Readied(q.job[k])
        BY <2>1, <4>1, ReadiedIs
      <4>2. CASE f[k] = Asleep(q.job[k], "sleeping")
        <5>1. "sleeping" \in States
          BY RecordPlaces
        <5> QED  BY <2>1, <4>2, <5>1, AsleepIs
      <4> QED  BY <3>2, <4>1, <4>2
    <3> QED  BY <2>3, <3>1, <3>2, <3>3 DEF Woken
  <2> QED  BY <2>2, <2>3
<1>8. f \in [Jobs -> JobRecord]
  BY <1>1, <1>7
<1>9. /\ s \in Memory /\ s.job = f /\ s.di = [q.di EXCEPT ![d] = y]
      /\ s.modem = q.modem /\ s.fault = q.fault /\ s.running = q.running
      /\ q.di \in [Dests -> DestRecord]
  BY <1>4, <1>6, <1>8 DEF Memory
<1>10. Wakes(q, s, d)
  BY <1>6, <1>7, <1>9 DEF Wakes
<1>11. s.di[d].blocked = n
  BY <1>6, <1>9
<1>12. \A k \in U : k \in Jobs
  BY DEF BlockedOn
<1>13. \A k \in U : s.job[k].on # "blocked"
  BY <1>7, <1>9, <1>12
<1>14. \A k \in Jobs \ U : s.job[k] = q.job[k]
  BY <1>7, <1>9
<1> QED  BY <1>2, <1>10, <1>11, <1>13, <1>14

-----------------------------------------------------------------------------
(* The invariant *)

Free(r) == r.modem = NoModem /\ r.child = "none" /\ ~r.qlock

\* No handler is at the job: it is on a list, in the state of that list, and
\* only a sleeping job has its timer set.
Resting(r) ==
  /\ Free(r) /\ ~r.suspendPending
  /\ r.tts <=> r.on = "sleepq"
  /\ \/ r.on = "absent" /\ ~r.kill
     \/ r.on = "runq" /\ r.state = "ready"
     \/ r.on = "sleepq" /\ r.state \in {"sleeping", "pending"}
     \/ r.on = "blocked" /\ r.state = "blocked"
     \/ r.on = "suspendq" /\ r.state = "suspended" /\ ~r.kill
     \/ r.on = "deadq" /\ r.state \in {"done", "failed"}

\* A subprocess works on the job.
Busy(r) ==
  /\ r.on = "activeq" /\ r.state = "active" /\ ~r.tts /\ r.pid = "set"
  /\ r.modem # NoModem /\ r.child # "none" /\ ~r.qlock

\* Its subprocess has ended for a client that waits to suspend or kill it.
Left(r) ==
  /\ Free(r) /\ ~r.suspendPending /\ ~r.tts /\ ~r.kill
  /\ r.on = "activeq" /\ r.state \in {"active", "sleeping", "ready"}

\* processJob is at the job, before it is prepared and after, and sendJobDone.
Entering(r) ==
  /\ r.on = "none" /\ r.state = "ready" /\ ~r.tts /\ ~r.suspendPending
  /\ r.modem # NoModem /\ r.child = "none" /\ r.qlock
Sending(r) ==
  /\ r.on = "activeq" /\ r.state = "active" /\ ~r.tts /\ ~r.suspendPending
  /\ r.modem # NoModem /\ r.child = "none" /\ r.qlock
Ending(r) == r.on = "activeq" /\ r.state = "active" /\ ~r.tts /\ Free(r)

\* The sender of a job that is not over has heard nothing.
Tale(r) ==
  /\ r.notices <= 1
  /\ r.on \notin {"absent", "deadq"} => r.notices = 0
  /\ r.on = "deadq" \/ r.state = "done" => r.qfile = "doneq"
  /\ r.qfile = "sendq" => r.notices = 0

Handling(k) == (pc = "process" /\ head = k) \/ (pc = "finish" /\ cur = k)

Loops ==
  /\ pc # "batch"
  /\ pc = "scan" \/ (pc = "process" /\ caller = "scan") =>
       \A k \in todo : faxq.job[k].on = "runq"
  /\ pc = "process" =>
       /\ dest \in Dests \/ (dest = NoDest /\ "reject" \in PrepOutcomes)
       /\ \/ cur = NoJob /\ head = NoJob
          \/ /\ head \in Jobs /\ dest = DestOf[head]
             /\ \/ cur = NoJob /\ Sending(faxq.job[head])
                \/ cur = head /\ Entering(faxq.job[head])
  /\ pc = "finish" => Ending(faxq.job[cur])
  /\ ~faxq.running => pc = "idle" /\ \A k \in Jobs : faxq.job[k].child = "none"
  /\ faxq.fault = "none" \/ (faxq.fault = "dangling" /\ "reject" \in PrepOutcomes)

Phases ==
  \A k \in Jobs : \/ Handling(k)
                  \/ Resting(faxq.job[k])
                  \/ Busy(faxq.job[k])
                  \/ Left(faxq.job[k]) /\ frames # <<>> /\ Top.job = k

Waits ==
  /\ \A k \in Jobs : faxq.job[k].suspendPending =>
       frames # <<>> /\ Top.job = k /\ ~faxq.job[k].kill
  /\ frames # <<>> /\ ~Waiting =>
       /\ phase = "reap" /\ pc # "scan"
       /\ pc = "process" => caller = "prepareJobDone"
       /\ pc = "finish" => cur # Top.job
       /\ faxq.job[Top.job].on = "deadq" \/ Left(faxq.job[Top.job])
  /\ frames # <<>> /\ pc = "finish" => phase = "reap"
  /\ Commands \subseteq {"Q"} => frames = <<>>

Members ==
  \A k \in Jobs :
    /\ faxq.job[k].modem # NoModem /\ ~(pc = "process" /\ cur = k)
         => k \in faxq.di[DestOf[k]].active
    /\ faxq.job[k].on \in {"absent", "suspendq", "deadq"}
         => k \notin faxq.di[DestOf[k]].active

LocksHeld ==
  IgnoreModemBusy = {} =>
    \A m \in Modems :
      /\ faxq.modem[m].lock = "faxq" <=> \E j \in Jobs : faxq.job[j].modem = m
      /\ \A i, j \in Jobs : faxq.job[i].modem = m /\ faxq.job[j].modem = m => i = j

\* The jobs with a modem that call d; the call that processJob has yet to
\* hang up; nobody takes a job from a call but its subprocess.
Calling(q, d) == {k \in Jobs : DestOf[k] = d /\ q.job[k].modem # NoModem}
Slack(d) == IF pc = "process" /\ cur = NoJob /\ head = NoJob /\ dest = d THEN 1 ELSE 0
Calm == Commands \subseteq {"Q"} /\ ~KillTimers /\ ~ForkMayFail

CallCounts ==
  \A d \in Dests :
    /\ Cardinality(Calling(faxq, d)) + Slack(d) <= faxq.di[d].calls
    /\ Calm => faxq.di[d].calls = Cardinality(Calling(faxq, d)) + Slack(d)
    /\ MaxConcurrentCalls > 0 => faxq.di[d].calls <= MaxConcurrentCalls
    /\ faxq.di[d].pending => faxq.di[d].calls > 0

BlockedCounts ==
  ~KillTimers => \A d \in Dests : faxq.di[d].blocked = Cardinality(BlockedOn(faxq, d))

Reports == ~KillTimers => \A k \in Jobs : Tale(faxq.job[k])

Shape ==
  /\ Plain(faxq) /\ Loops /\ Phases /\ Waits /\ Members /\ LocksHeld
  /\ CallCounts /\ BlockedCounts /\ Reports

-----------------------------------------------------------------------------
(* The invariant after a step about one job *)

\* Job j becomes t; others may be woken; only the entry of its destination changes.
Effect(j, t) ==
  /\ faxq' \in Memory /\ faxq'.job[j] = t /\ t \in JobRecord
  /\ t.bprev = NoJob /\ t.bnext = NoJob
  /\ \A k \in Jobs \ {j} : Woken(faxq.job[k], faxq'.job[k])
  /\ \A e \in Dests \ {DestOf[j]} : faxq'.di[e] = faxq.di[e]
  /\ faxq'.running = faxq.running /\ faxq'.fault = faxq.fault

\* A step about one job is one whose effect is on one job.
LEMMA StepEffect ==
  ASSUME Plain(faxq), NEW j \in Jobs, NEW t, Step(faxq, faxq', j, t), faxq'.fault = faxq.fault
  PROVE  Effect(j, t)
BY DEF Plain, Step, Effect, Woken

\* It leaves a record.
LEMMA EffectType == ASSUME NEW j, NEW t, Effect(j, t) PROVE t \in JobRecord
BY DEF Effect

\* So is one that then wakes the jobs blocked on the destination.
LEMMA WakeEffect ==
  ASSUME Plain(faxq), NEW j \in Jobs, NEW t, NEW q, Step(faxq, q, j, t), q.fault = faxq.fault,
         Wakes(q, faxq', DestOf[j]), t.on # "blocked"
  PROVE  Effect(j, t)
BY DEF Plain, Step, Effect, Wakes, Woken

\* What waking a job leaves alone.
LEMMA WokenIs ==
  ASSUME NEW r \in JobRecord, NEW t, Woken(r, t)
  PROVE  /\ t \in JobRecord
         /\ t.modem = r.modem /\ t.child = r.child /\ t.notices = r.notices /\ t.qfile = r.qfile
         /\ t.bprev = r.bprev /\ t.bnext = r.bnext
         /\ (t.suspendPending <=> r.suspendPending) /\ (t.kill <=> r.kill)
         /\ (r.on # "blocked" => t = r)
         /\ (t.on = r.on \/ (r.on = "blocked" /\ t.on \in {"runq", "sleepq"}))
         /\ (Resting(r) => Resting(t))
         /\ (Resting(r) /\ r.state = "done" => t.state = "done")
         /\ (Resting(r) /\ Tale(r) => Tale(t))
<1>1. CASE t = r
  BY <1>1
<1>2. CASE r.on = "blocked" /\ t = Readied(r)
  <2>1. /\ t \in JobRecord /\ t.on = "runq" /\ t.state = "ready"
        /\ t.modem = r.modem /\ t.child = r.child /\ t.notices = r.notices /\ t.qfile = r.qfile
        /\ t.bprev = r.bprev /\ t.bnext = r.bnext
        /\ (t.tts <=> r.tts) /\ (t.suspendPending <=> r.suspendPending)
        /\ (t.qlock <=> r.qlock) /\ (t.kill <=> r.kill)
    BY <1>2, ReadiedIs
  <2>2. (Resting(r) => Resting(t)) /\ (Resting(r) => r.state # "done")
    BY <1>2, <2>1 DEF Resting, Free
  <2>3. Resting(r) /\ Tale(r) => Tale(t)
    BY <1>2, <2>1, <2>2 DEF Tale
  <2> QED  BY <1>2, <2>1, <2>2, <2>3
<1>3. CASE r.on = "blocked" /\ t = Asleep(r, "sleeping")
  <2>1. /\ t \in JobRecord /\ t.on = "sleepq" /\ t.state = "sleeping" /\ t.tts
        /\ t.modem = r.modem /\ t.child = r.child /\ t.notices = r.notices /\ t.qfile = r.qfile
        /\ t.bprev = r.bprev /\ t.bnext = r.bnext
        /\ (t.suspendPending <=> r.suspendPending)
        /\ (t.qlock <=> r.qlock) /\ (t.kill <=> r.kill)
    <3>1. "sleeping" \in States
      BY RecordPlaces
    <3> QED  BY <1>3, <3>1, AsleepIs
  <2>2. (Resting(r) => Resting(t)) /\ (Resting(r) => r.state # "done")
    BY <1>3, <2>1 DEF Resting, Free
  <2>3. Resting(r) /\ Tale(r) => Tale(t)
    BY <1>3, <2>1, <2>2 DEF Tale
  <2> QED  BY <1>3, <2>1, <2>2, <2>3
<1> QED  BY <1>1, <1>2, <1>3 DEF Woken

\* Every job has a record.
LEMMA RecordType == ASSUME NEW q \in Memory, NEW k \in Jobs PROVE q.job[k] \in JobRecord
BY DEF Memory

\* No batch comes of it.
LEMMA PlainAfter ==
  ASSUME Plain(faxq), faxq \in Memory, NEW j \in Jobs, NEW t, Effect(j, t)
  PROVE  Plain(faxq')
<1>1. ASSUME NEW k \in Jobs \ {j} PROVE faxq'.job[k].bprev = NoJob /\ faxq'.job[k].bnext = NoJob
  <2>1. Woken(faxq.job[k], faxq'.job[k])
    BY DEF Effect
  <2>2. faxq.job[k] \in JobRecord
    BY RecordType
  <2> QED  BY <2>1, <2>2, WokenIs DEF Plain
<1> QED  BY <1>1 DEF Plain, Effect

\* The loops are at no job, or at j.
At(j) == \A k \in Jobs \ {j} : ~Handling(k)

\* A job is in one phase at a time.
LEMMA Exclusive ==
  ASSUME NEW r
  PROVE  /\ Resting(r) => ~Busy(r) /\ ~Left(r) /\ ~Entering(r) /\ ~Sending(r) /\ ~Ending(r)
         /\ Busy(r) => ~Left(r) /\ ~Entering(r) /\ ~Sending(r) /\ ~Ending(r)
         /\ Left(r) => ~Entering(r) /\ ~Sending(r)
         /\ Sending(r) => ~Entering(r) /\ ~Ending(r)
<1>1. Resting(r) => ~Busy(r) /\ ~Left(r) /\ ~Entering(r) /\ ~Sending(r) /\ ~Ending(r)
  BY DEF Resting, Busy, Left, Entering, Sending, Ending, Free
<1>2. Busy(r) => ~Left(r) /\ ~Entering(r) /\ ~Sending(r) /\ ~Ending(r)
  BY DEF Busy, Left, Entering, Sending, Ending, Free
<1>3. Left(r) => ~Entering(r) /\ ~Sending(r)
  BY DEF Left, Entering, Sending, Free
<1>4. Sending(r) => ~Entering(r) /\ ~Ending(r)
  BY DEF Entering, Sending, Ending, Free
<1> QED  BY <1>1, <1>2, <1>3, <1>4

\* Every job is in some phase after the step.
LEMMA PhasesAfter ==
  ASSUME faxq \in Memory, Phases, NEW j \in Jobs, NEW t, Effect(j, t), At(j),
         \/ Handling(j)' \/ Resting(t) \/ Busy(t)
         \/ Left(t) /\ frames' # <<>> /\ (Top.job)' = j,
         frames' = frames \/ frames = <<>> \/ Top.job = j
  PROVE  Phases'
<1>1. ASSUME NEW k \in Jobs \ {j}
      PROVE  \/ Handling(k)' \/ Resting(faxq'.job[k]) \/ Busy(faxq'.job[k])
             \/ Left(faxq'.job[k]) /\ frames' # <<>> /\ (Top.job)' = k
  <2>1. faxq.job[k] \in JobRecord /\ Woken(faxq.job[k], faxq'.job[k])
    BY RecordType DEF Effect
  <2>2. CASE Resting(faxq.job[k])
    BY <2>1, <2>2, WokenIs
  <2>3. CASE Busy(faxq.job[k])
    <3>1. faxq'.job[k] = faxq.job[k]
      BY <2>1, <2>3, WokenIs DEF Busy
    <3> QED  BY <2>3, <3>1
  <2>4. CASE Left(faxq.job[k]) /\ frames # <<>> /\ Top.job = k
    <3>1. faxq'.job[k] = faxq.job[k]
      BY <2>1, <2>4, WokenIs DEF Left
    <3>2. frames' = frames
      BY <2>4
    <3> QED  BY <2>4, <3>1, <3>2 DEF Top
  <2> QED  BY <2>2, <2>3, <2>4 DEF Phases, At
<1>2. \/ Handling(j)' \/ Resting(faxq'.job[j]) \/ Busy(faxq'.job[j])
      \/ Left(faxq'.job[j]) /\ frames' # <<>> /\ (Top.job)' = j
  BY DEF Effect
<1> QED  BY <1>1, <1>2 DEF Phases

\* What the senders know stays consistent.
LEMMA ReportsAfter ==
  ASSUME faxq \in Memory, Phases, Reports, NEW j \in Jobs, NEW t, Effect(j, t), At(j),
         ~KillTimers => Tale(t)
  PROVE  Reports'
<1> SUFFICES ASSUME ~KillTimers, NEW k \in Jobs PROVE Tale(faxq'.job[k])
  BY DEF Reports
<1>1. CASE k = j
  BY <1>1 DEF Effect
<1>2. CASE k # j
  <2>1. faxq.job[k] \in JobRecord /\ Woken(faxq.job[k], faxq'.job[k]) /\ Tale(faxq.job[k])
    BY <1>2, RecordType DEF Effect, Reports
  <2>2. CASE Resting(faxq.job[k])
    BY <2>1, <2>2, WokenIs
  <2>3. CASE ~Resting(faxq.job[k])
    <3>1. faxq.job[k].on # "blocked"
      BY <1>2, <2>3 DEF Phases, At, Busy, Left
    <3> QED  BY <2>1, <3>1, WokenIs
  <2> QED  BY <2>2, <2>3
<1> QED  BY <1>1, <1>2

\* The wait in suspendJob, if there is one, goes on.
LEMMA WaitingAfter ==
  ASSUME faxq \in Memory, NEW j \in Jobs, NEW t, Effect(j, t), frames' = frames, IInv,
         t.suspendPending <=> faxq.job[j].suspendPending
  PROVE  Waiting' <=> Waiting
<1>1. CASE frames = <<>>
  BY <1>1 DEF Waiting
<1>2. CASE frames # <<>>
  <2>1. Top.job \in Jobs /\ (Top.job)' = Top.job
    BY <1>2, FramesType DEF Top
  <2>2. PICK k : k = Top.job
    OBVIOUS
  <2>3. faxq'.job[k].suspendPending <=> faxq.job[k].suspendPending
    <3>1. CASE k = j
      BY <3>1 DEF Effect
    <3>2. CASE k # j
      <4>1. faxq.job[k] \in JobRecord /\ Woken(faxq.job[k], faxq'.job[k])
        BY <2>1, <2>2, <3>2, RecordType DEF Effect
      <4> QED  BY <4>1, WokenIs
    <3> QED  BY <3>1, <3>2
  <2>4. Waiting <=> faxq.job[k].suspendPending
    BY <1>2, <2>2 DEF Waiting
  <2>5. Waiting' <=> faxq'.job[k].suspendPending
    BY <1>2, <2>1, <2>2 DEF Waiting
  <2> QED  BY <2>3, <2>4, <2>5
<1> QED  BY <1>1, <1>2

\* The first part of Waits.
LEMMA PendingAfter ==
  ASSUME faxq \in Memory, Waits, NEW j \in Jobs, NEW t, Effect(j, t), frames' = frames,
         t.suspendPending => faxq.job[j].suspendPending /\ ~t.kill
  PROVE  \A k \in Jobs : faxq'.job[k].suspendPending =>
           frames' # <<>> /\ (Top.job)' = k /\ ~faxq'.job[k].kill
<1> SUFFICES ASSUME NEW k \in Jobs, faxq'.job[k].suspendPending
             PROVE  frames # <<>> /\ Top.job = k /\ ~faxq'.job[k].kill
  BY DEF Top
<1>1. CASE k = j
  BY <1>1 DEF Effect, Waits
<1>2. CASE k # j
  <2>1. faxq.job[k] \in JobRecord /\ Woken(faxq.job[k], faxq'.job[k])
    BY <1>2, RecordType DEF Effect
  <2> QED  BY <2>1, WokenIs DEF Waits
<1> QED  BY <1>1, <1>2

\* The wait goes on through a step of a handler of input or timers, or of the
\* scheduler pass.
LEMMA WaitsOn ==
  ASSUME faxq \in Memory, IInv, Waits, NEW j \in Jobs, NEW t, Effect(j, t), frames' = frames,
         t.suspendPending <=> faxq.job[j].suspendPending, t.suspendPending => ~t.kill,
         frames = <<>> \/ Waiting, pc' # "finish"
  PROVE  Waits'
<1>1. Waiting' <=> Waiting
  BY WaitingAfter
<1>2. \A k \in Jobs : faxq'.job[k].suspendPending =>
        frames' # <<>> /\ (Top.job)' = k /\ ~faxq'.job[k].kill
  BY PendingAfter
<1> QED  BY <1>1, <1>2 DEF Waits

\* The same for the steps of processJob, sendJobDone and prepareJobDone.
LEMMA WaitsThrough ==
  ASSUME faxq \in Memory, IInv, Waits, NEW j \in Jobs, NEW t, Effect(j, t), frames' = frames,
         t.suspendPending => faxq.job[j].suspendPending /\ ~t.kill,
         frames # <<>> /\ ~Waiting' =>
           /\ phase' = "reap" /\ pc' # "scan"
           /\ pc' = "process" => caller' = "prepareJobDone"
           /\ pc' = "finish" => cur' # Top.job
           /\ Top.job = j => t.on = "deadq" \/ Left(t),
         frames # <<>> /\ pc' = "finish" => phase' = "reap"
  PROVE  Waits'
<1>1. \A k \in Jobs : faxq'.job[k].suspendPending =>
        frames' # <<>> /\ (Top.job)' = k /\ ~faxq'.job[k].kill
  BY PendingAfter
<1>2. ASSUME frames # <<>>, ~Waiting'
      PROVE  faxq'.job[Top.job].on = "deadq" \/ Left(faxq'.job[Top.job])
  <2>1. PICK k : k = Top.job
    OBVIOUS
  <2>2. k \in Jobs
    BY <1>2, <2>1, FramesType
  <2>3. CASE k = j
    BY <1>2, <2>1, <2>3 DEF Effect
  <2>4. CASE k # j
    <3>1. faxq.job[k] \in JobRecord /\ Woken(faxq.job[k], faxq'.job[k])
      BY <2>2, <2>4, RecordType DEF Effect
    <3>2. ~faxq'.job[k].suspendPending
      BY <1>2, <2>1 DEF Waiting, Top
    <3>3. ~faxq.job[k].suspendPending
      BY <3>1, <3>2, WokenIs
    <3>4. ~Waiting
      BY <2>1, <3>3 DEF Waiting
    <3>5. faxq.job[k].on = "deadq" \/ Left(faxq.job[k])
      BY <1>2, <2>1, <3>4 DEF Waits
    <3>6. faxq'.job[k] = faxq.job[k]
      BY <3>1, <3>5, WokenIs DEF Left
    <3> QED  BY <2>1, <3>5, <3>6
  <2> QED  BY <2>1, <2>3, <2>4
<1>3. (Top.job)' = Top.job
  BY DEF Top
<1> QED  BY <1>1, <1>2, <1>3 DEF Waits

\* A job with a modem stays in its entry, one that rests stays out.
LEMMA MembersAfter ==
  ASSUME faxq \in Memory, Members, NEW j \in Jobs, NEW t, Effect(j, t),
         NEW x, NEW y, x = faxq.di[DestOf[j]], y = faxq'.di[DestOf[j]],
         x.active \ {j} \subseteq y.active, y.active \subseteq x.active \cup {j},
         t.modem # NoModem /\ ~(pc' = "process" /\ cur' = j) => j \in y.active,
         t.on \in {"absent", "suspendq", "deadq"} => j \notin y.active,
         pc = "process" => cur \in {j, NoJob}
  PROVE  Members'
<1> SUFFICES ASSUME NEW k \in Jobs
             PROVE  /\ faxq'.job[k].modem # NoModem /\ ~(pc' = "process" /\ cur' = k)
                         => k \in faxq'.di[DestOf[k]].active
                    /\ faxq'.job[k].on \in {"absent", "suspendq", "deadq"}
                         => k \notin faxq'.di[DestOf[k]].active
  BY DEF Members
<1>1. CASE k = j
  BY <1>1 DEF Effect
<1>2. CASE k # j
  <2>1. faxq.job[k] \in JobRecord /\ Woken(faxq.job[k], faxq'.job[k])
    BY <1>2, RecordType DEF Effect
  <2>2. /\ faxq'.job[k].modem = faxq.job[k].modem
        /\ faxq'.job[k].on \in {"absent", "suspendq", "deadq"} => faxq'.job[k].on = faxq.job[k].on
    BY <2>1, WokenIs
  <2>3. k \in faxq'.di[DestOf[k]].active <=> k \in faxq.di[DestOf[k]].active
    <3>1. DestOf[k] \in Dests
      BY DestOfType
    <3>2. CASE DestOf[k] = DestOf[j]
      BY <1>2, <3>2
    <3>3. CASE DestOf[k] # DestOf[j]
      BY <3>1, <3>3 DEF Effect
    <3> QED  BY <3>2, <3>3
  <2>4. ~(pc = "process" /\ cur = k)
    BY <1>2, Constants
  <2> QED  BY <2>2, <2>3, <2>4 DEF Members
<1> QED  BY <1>1, <1>2

\* What a step about j does to the locks of the modems.
LocksSame == \A m \in Modems : faxq'.modem[m].lock = "faxq" <=> faxq.modem[m].lock = "faxq"
LockGiven(n) == faxq'.modem = Without(faxq, n)
LockTaken(n) ==
  n \in Modems /\ (IgnoreModemBusy = {} =>
    /\ faxq.modem[n].lock # "faxq" /\ faxq'.modem[n].lock = "faxq"
    /\ \A m \in Modems \ {n} : faxq'.modem[m].lock = "faxq" <=> faxq.modem[m].lock = "faxq")

\* Releasing a modem gives back one lock.
LEMMA WithoutLocks ==
  ASSUME faxq \in Memory, NEW n, LockGiven(n), NEW m \in Modems
  PROVE  faxq'.modem[m].lock = "faxq" <=> faxq.modem[m].lock = "faxq" /\ m # n
<1>1. faxq'.modem[m] = IF m = n THEN Released(faxq.modem[m]) ELSE faxq.modem[m]
  BY DEF LockGiven, Without
<1>2. Released(faxq.modem[m]).lock # "faxq"
  <2>1. faxq.modem[m] \in ModemRecord
    BY DEF Memory
  <2> QED  BY <2>1 DEF Released, ModemRecord
<1> QED  BY <1>1, <1>2

\* Every lock still has one job.
LEMMA LocksAfter ==
  ASSUME faxq \in Memory, LocksHeld, NEW j \in Jobs, NEW t, Effect(j, t),
         NEW r, r = faxq.job[j],
         \/ t.modem = r.modem /\ LocksSame
         \/ t.modem = NoModem /\ LockGiven(r.modem)
         \/ r.modem = NoModem /\ t.modem # NoModem /\ LockTaken(t.modem)
  PROVE  LocksHeld'
<1> SUFFICES ASSUME IgnoreModemBusy = {}, NEW m \in Modems
             PROVE  /\ faxq'.modem[m].lock = "faxq" <=> \E i \in Jobs : faxq'.job[i].modem = m
                    /\ \A i, k \in Jobs : faxq'.job[i].modem = m /\ faxq'.job[k].modem = m => i = k
  BY DEF LocksHeld
<1>1. \A k \in Jobs \ {j} : faxq'.job[k].modem = faxq.job[k].modem
  <2> TAKE k \in Jobs \ {j}
  <2>1. faxq.job[k] \in JobRecord /\ Woken(faxq.job[k], faxq'.job[k])
    BY RecordType DEF Effect
  <2> QED  BY <2>1, WokenIs
<1>2. faxq'.job[j].modem = t.modem
  BY DEF Effect
<1>3. /\ faxq.modem[m].lock = "faxq" <=> \E i \in Jobs : faxq.job[i].modem = m
      /\ \A i, k \in Jobs : faxq.job[i].modem = m /\ faxq.job[k].modem = m => i = k
  BY DEF LocksHeld
<1>4. m # NoModem
  BY Constants
<1>5. CASE t.modem = r.modem /\ LocksSame
  <2>1. \A k \in Jobs : faxq'.job[k].modem = faxq.job[k].modem
    BY <1>1, <1>2, <1>5
  <2>2. faxq'.modem[m].lock = "faxq" <=> faxq.modem[m].lock = "faxq"
    BY <1>5 DEF LocksSame
  <2> QED  BY <1>3, <2>1, <2>2
<1>6. CASE t.modem = NoModem /\ LockGiven(r.modem)
  <2>1. faxq'.modem[m].lock = "faxq" <=> faxq.modem[m].lock = "faxq" /\ m # r.modem
    BY <1>6, WithoutLocks
  <2>2. faxq'.job[j].modem # m
    BY <1>2, <1>4, <1>6
  <2> QED  BY <1>1, <1>3, <2>1, <2>2
<1>7. CASE r.modem = NoModem /\ t.modem # NoModem /\ LockTaken(t.modem)
  <2>1. CASE m = t.modem
    <3>1. faxq'.modem[m].lock = "faxq" /\ faxq.modem[m].lock # "faxq"
      BY <1>7, <2>1 DEF LockTaken
    <3>2. \A k \in Jobs : faxq.job[k].modem # m
      BY <1>3, <3>1
    <3> QED  BY <1>1, <1>2, <2>1, <3>1, <3>2
  <2>2. CASE m # t.modem
    <3>1. faxq'.modem[m].lock = "faxq" <=> faxq.modem[m].lock = "faxq"
      BY <1>7, <2>2 DEF LockTaken
    <3> QED  BY <1>1, <1>2, <1>3, <1>4, <1>7, <2>2, <3>1
  <2> QED  BY <2>1, <2>2
<1> QED  BY <1>5, <1>6, <1>7

\* Calls can be counted.
LEMMA CallingType ==
  ASSUME NEW q, NEW d
  PROVE  IsFiniteSet(Calling(q, d)) /\ Cardinality(Calling(q, d)) \in Nat
<1>1. Calling(q, d) \in SUBSET Jobs
  BY DEF Calling
<1> QED  BY <1>1, FS_Subset, FS_CardinalityType, Constants

\* What a job adds to the calls of its destination.
Cost(r) == IF r.modem = NoModem THEN 0 ELSE 1

\* The calls of a destination, with and without the job.
LEMMA CallingCost ==
  ASSUME NEW q, NEW j \in Jobs, NEW d, d = DestOf[j], NEW r, r = q.job[j]
  PROVE  /\ Cardinality(Calling(q, d)) = Cardinality(Calling(q, d) \ {j}) + Cost(r)
         /\ Cardinality(Calling(q, d) \ {j}) \in Nat
<1>1. IsFiniteSet(Calling(q, d)) /\ Cardinality(Calling(q, d)) \in Nat
  BY CallingType
<1>2. IsFiniteSet(Calling(q, d) \ {j})
  BY <1>1, FS_RemoveElement
<1>3. Cardinality(Calling(q, d) \ {j}) \in Nat
  BY <1>2, FS_CardinalityType
<1>4. Cardinality(Calling(q, d) \ {j}) =
        IF j \in Calling(q, d) THEN Cardinality(Calling(q, d)) - 1 ELSE Cardinality(Calling(q, d))
  BY <1>1, FS_RemoveElement
<1>5. j \in Calling(q, d) <=> r.modem # NoModem
  BY DEF Calling
<1> QED  BY <1>1, <1>3, <1>4, <1>5 DEF Cost

\* Only the job changes the number of calls.
LEMMA CallingAfter ==
  ASSUME faxq \in Memory, NEW j \in Jobs, NEW r, r = faxq.job[j], NEW t, Effect(j, t),
         NEW d \in Dests
  PROVE  /\ d # DestOf[j] => Calling(faxq', d) = Calling(faxq, d)
         /\ d = DestOf[j] => Cardinality(Calling(faxq', d)) + Cost(r)
                             = Cardinality(Calling(faxq, d)) + Cost(t)
<1>1. \A k \in Jobs \ {j} : faxq'.job[k].modem = faxq.job[k].modem
  <2> TAKE k \in Jobs \ {j}
  <2>1. faxq.job[k] \in JobRecord /\ Woken(faxq.job[k], faxq'.job[k])
    BY RecordType DEF Effect
  <2> QED  BY <2>1, WokenIs
<1>2. Calling(faxq', d) \ {j} = Calling(faxq, d) \ {j}
  BY <1>1 DEF Calling
<1>3. CASE d # DestOf[j]
  BY <1>1, <1>3 DEF Calling
<1>4. CASE d = DestOf[j]
  <2>1. t = faxq'.job[j]
    BY DEF Effect
  <2>2. /\ Cardinality(Calling(faxq', d)) = Cardinality(Calling(faxq', d) \ {j}) + Cost(t)
        /\ Cardinality(Calling(faxq', d) \ {j}) \in Nat
    BY <1>4, <2>1, CallingCost
  <2>3. Cardinality(Calling(faxq, d)) = Cardinality(Calling(faxq, d) \ {j}) + Cost(r)
    BY <1>4, CallingCost
  <2> QED  BY <1>2, <1>4, <2>2, <2>3 DEF Cost
<1> QED  BY <1>3, <1>4

\* The entry of the destination of j goes from x to y and j from r to t; s and
\* u are the calls yet to be hung up.
Dealt(j, r, t, x, y, s, u) ==
  \/ y = NewDest /\ x.active \subseteq {j} /\ t.modem = NoModem /\ u = 0
  \/ /\ y.calls \in Nat
     /\ x.calls + Cost(t) + u <= y.calls + Cost(r) + s
     /\ Calm => x.calls + Cost(t) + u = y.calls + Cost(r) + s
     /\ y.calls <= x.calls \/ (MaxConcurrentCalls > 0 => y.calls <= MaxConcurrentCalls)
     /\ y.pending => y.calls > 0

\* The counts of calls bound the calls after the step.
LEMMA CountsAfter ==
  ASSUME faxq \in Memory, Members, CallCounts, NEW j \in Jobs, NEW r, r = faxq.job[j],
         NEW t, Effect(j, t),
         NEW x, NEW y, x = faxq.di[DestOf[j]], y = faxq'.di[DestOf[j]],
         Dealt(j, r, t, x, y, Slack(DestOf[j]), Slack(DestOf[j])'),
         \A e \in Dests \ {DestOf[j]} : Slack(e)' = Slack(e),
         pc = "process" => cur \in {j, NoJob}
  PROVE  CallCounts'
<1> SUFFICES ASSUME NEW d \in Dests
             PROVE  /\ Cardinality(Calling(faxq', d)) + Slack(d)' <= faxq'.di[d].calls
                    /\ Calm => faxq'.di[d].calls = Cardinality(Calling(faxq', d)) + Slack(d)'
                    /\ MaxConcurrentCalls > 0 => faxq'.di[d].calls <= MaxConcurrentCalls
                    /\ faxq'.di[d].pending => faxq'.di[d].calls > 0
  BY DEF CallCounts, Calm
<1>1. /\ Cardinality(Calling(faxq, d)) + Slack(d) <= faxq.di[d].calls
      /\ Calm => faxq.di[d].calls = Cardinality(Calling(faxq, d)) + Slack(d)
      /\ MaxConcurrentCalls > 0 => faxq.di[d].calls <= MaxConcurrentCalls
      /\ faxq.di[d].pending => faxq.di[d].calls > 0
  BY DEF CallCounts
<1>2. CASE d # DestOf[j]
  <2>1. Calling(faxq', d) = Calling(faxq, d) /\ faxq'.di[d] = faxq.di[d] /\ Slack(d)' = Slack(d)
    BY <1>2, CallingAfter DEF Effect
  <2> QED  BY <1>1, <2>1
<1>3. CASE d = DestOf[j]
  <2>1. PICK n, m, s, u : /\ n = Cardinality(Calling(faxq, d)) /\ m = Cardinality(Calling(faxq', d))
                          /\ s = Slack(d) /\ u = Slack(d)'
    OBVIOUS
  <2>2. n \in Nat /\ m \in Nat
    BY <2>1, CallingType
  <2>3. s \in {0, 1} /\ u \in {0, 1}
    BY <2>1 DEF Slack
  <2>4. m + Cost(r) = n + Cost(t) /\ Cost(r) \in {0, 1} /\ Cost(t) \in {0, 1}
    BY <1>3, <2>1, CallingAfter DEF Cost
  <2>5. x.calls \in Nat /\ (Calm => x.calls = n + s) /\ n + s <= x.calls
    <3>1. x.calls \in Nat
      BY <1>3, EntryType
    <3> QED  BY <1>1, <1>3, <2>1, <3>1
  <2>6. CASE y = NewDest /\ x.active \subseteq {j} /\ t.modem = NoModem /\ u = 0
    <3>1. \A k \in Jobs \ {j} : DestOf[k] = d => faxq'.job[k].modem = NoModem
      <4> SUFFICES ASSUME NEW k \in Jobs \ {j}, DestOf[k] = d PROVE faxq'.job[k].modem = NoModem
        OBVIOUS
      <4>1. faxq.job[k] \in JobRecord /\ Woken(faxq.job[k], faxq'.job[k])
        BY RecordType DEF Effect
      <4>2. faxq'.job[k].modem = faxq.job[k].modem
        BY <4>1, WokenIs
      <4>3. ~(pc = "process" /\ cur = k)
        BY Constants
      <4>4. k \notin faxq.di[DestOf[k]].active
        BY <1>3, <2>6
      <4> QED  BY <4>2, <4>3, <4>4 DEF Members
    <3>2. Calling(faxq', d) = {}
      BY <2>6, <3>1 DEF Calling, Effect
    <3>3. m = 0
      BY <2>1, <3>2, FS_EmptySet
    <3>4. y.calls = 0 /\ ~y.pending
      BY <2>6 DEF NewDest
    <3> QED  BY <1>3, <2>1, <2>6, <3>3, <3>4, Constants
  <2>7. CASE /\ y.calls \in Nat
             /\ x.calls + Cost(t) + u <= y.calls + Cost(r) + s
             /\ Calm => x.calls + Cost(t) + u = y.calls + Cost(r) + s
             /\ y.calls <= x.calls \/ (MaxConcurrentCalls > 0 => y.calls <= MaxConcurrentCalls)
             /\ y.pending => y.calls > 0
    <3>1. m + u <= y.calls
      BY <2>2, <2>3, <2>4, <2>5, <2>7
    <3>2. Calm => y.calls = m + u
      BY <2>2, <2>3, <2>4, <2>5, <2>7
    <3>3. MaxConcurrentCalls > 0 => y.calls <= MaxConcurrentCalls
      BY <1>1, <1>3, <2>5, <2>7, Constants
    <3> QED  BY <1>3, <2>1, <2>7, <3>1, <3>2, <3>3
  <2> QED  BY <1>3, <2>1, <2>6, <2>7 DEF Dealt
<1> QED  BY <1>2, <1>3

\* Each destination counts its blocked jobs.
BlockedFor(q) == \A d \in Dests : q.di[d].blocked = Cardinality(BlockedOn(q, d))

\* Blocked jobs can be counted.
LEMMA BlockedType ==
  ASSUME NEW q, NEW d
  PROVE  IsFiniteSet(BlockedOn(q, d)) /\ Cardinality(BlockedOn(q, d)) \in Nat
<1>1. BlockedOn(q, d) \in SUBSET Jobs
  BY DEF BlockedOn
<1> QED  BY <1>1, FS_Subset, FS_CardinalityType, Constants

Blocks(r) == IF r.on = "blocked" THEN 1 ELSE 0

\* The blocked jobs of a destination, with and without the job.
LEMMA BlockedCost ==
  ASSUME NEW q, NEW j \in Jobs, NEW d, d = DestOf[j], NEW r, r = q.job[j]
  PROVE  /\ Cardinality(BlockedOn(q, d)) = Cardinality(BlockedOn(q, d) \ {j}) + Blocks(r)
         /\ Cardinality(BlockedOn(q, d) \ {j}) \in Nat
<1>1. IsFiniteSet(BlockedOn(q, d)) /\ Cardinality(BlockedOn(q, d)) \in Nat
  BY BlockedType
<1>2. IsFiniteSet(BlockedOn(q, d) \ {j})
  BY <1>1, FS_RemoveElement
<1>3. Cardinality(BlockedOn(q, d) \ {j}) \in Nat
  BY <1>2, FS_CardinalityType
<1>4. Cardinality(BlockedOn(q, d) \ {j}) =
        IF j \in BlockedOn(q, d) THEN Cardinality(BlockedOn(q, d)) - 1
        ELSE Cardinality(BlockedOn(q, d))
  BY <1>1, FS_RemoveElement
<1>5. j \in BlockedOn(q, d) <=> r.on = "blocked"
  BY DEF BlockedOn
<1> QED  BY <1>1, <1>3, <1>4, <1>5 DEF Blocks

\* The count of blocked jobs follows the step.
LEMMA BlockedStep ==
  ASSUME NEW p \in Memory, BlockedFor(p), NEW q, NEW j \in Jobs, NEW t, Step(p, q, j, t),
         NEW r, r = p.job[j], NEW x, NEW y, x = p.di[DestOf[j]], y = q.di[DestOf[j]],
         \/ y.blocked + Blocks(r) = x.blocked + Blocks(t)
         \/ y.blocked = Minus(x.blocked, 1) /\ Blocks(r) = 1 /\ Blocks(t) = 0
  PROVE  BlockedFor(q)
<1> SUFFICES ASSUME NEW d \in Dests PROVE q.di[d].blocked = Cardinality(BlockedOn(q, d))
  BY DEF BlockedFor
<1>1. p.di[d].blocked = Cardinality(BlockedOn(p, d))
  BY DEF BlockedFor
<1>2. \A k \in Jobs \ {j} : q.job[k] = p.job[k]
  BY DEF Step
<1>3. CASE d # DestOf[j]
  <2>1. BlockedOn(q, d) = BlockedOn(p, d)
    BY <1>2, <1>3 DEF BlockedOn
  <2> QED  BY <1>1, <1>3, <2>1 DEF Step
<1>4. CASE d = DestOf[j]
  <2>1. BlockedOn(q, d) \ {j} = BlockedOn(p, d) \ {j}
    BY <1>2 DEF BlockedOn
  <2>2. PICK n : n = Cardinality(BlockedOn(p, d) \ {j})
    OBVIOUS
  <2>3. Cardinality(BlockedOn(p, d)) = n + Blocks(r) /\ n \in Nat
    BY <1>4, <2>2, BlockedCost
  <2>4. t = q.job[j]
    BY DEF Step
  <2>5. Cardinality(BlockedOn(q, d)) = n + Blocks(t)
    BY <1>4, <2>1, <2>2, <2>4, BlockedCost
  <2>6. y.blocked \in Nat /\ x.blocked = n + Blocks(r)
    BY <1>1, <1>4, <2>3, EntryType DEF Step
  <2>7. Blocks(r) \in {0, 1} /\ Blocks(t) \in {0, 1}
    BY DEF Blocks
  <2>8. y.blocked = n + Blocks(t)
    BY <2>3, <2>6, <2>7 DEF Minus
  <2> QED  BY <1>4, <2>5, <2>8
<1> QED  BY <1>3, <1>4

\* And the jobs that are woken.
LEMMA BlockedWake ==
  ASSUME NEW q \in Memory, BlockedFor(q), NEW d \in Dests, NEW U \in SUBSET BlockedOn(q, d),
         NEW s, s = Unblock(q, d, U) \/ (U = BlockedOn(q, d) /\ s = DelayBlocked(q, d))
  PROVE  BlockedFor(s)
<1>1. /\ Wakes(q, s, d)
      /\ s.di[d].blocked = Minus(q.di[d].blocked, Cardinality(U))
      /\ \A k \in U : s.job[k].on # "blocked"
      /\ \A k \in Jobs \ U : s.job[k] = q.job[k]
  <2>1. CASE s = Unblock(q, d, U)
    BY <2>1, WakesAre
  <2>2. CASE U = BlockedOn(q, d) /\ s = DelayBlocked(q, d)
    BY <2>2, WakesAre
  <2> QED  BY <2>1, <2>2
<1> SUFFICES ASSUME NEW e \in Dests PROVE s.di[e].blocked = Cardinality(BlockedOn(s, e))
  BY DEF BlockedFor
<1>2. q.di[e].blocked = Cardinality(BlockedOn(q, e))
  BY DEF BlockedFor
<1>3. CASE e # d
  <2>1. \A k \in Jobs : DestOf[k] = e => s.job[k] = q.job[k]
    BY <1>1, <1>3 DEF BlockedOn
  <2>2. BlockedOn(s, e) = BlockedOn(q, e)
    BY <2>1 DEF BlockedOn
  <2> QED  BY <1>1, <1>2, <1>3, <2>2 DEF Wakes
<1>4. CASE e = d
  <2>1. BlockedOn(s, d) = BlockedOn(q, d) \ U
    BY <1>1 DEF BlockedOn
  <2>2. IsFiniteSet(BlockedOn(q, d)) /\ Cardinality(BlockedOn(q, d)) \in Nat
    BY BlockedType
  <2>3. Cardinality(BlockedOn(q, d) \ U) = Cardinality(BlockedOn(q, d)) - Cardinality(BlockedOn(q, d) \cap U)
    BY <2>2, FS_Difference
  <2>4. BlockedOn(q, d) \cap U = U
    OBVIOUS
  <2>5. IsFiniteSet(U) /\ Cardinality(U) \in Nat /\ Cardinality(U) <= Cardinality(BlockedOn(q, d))
    BY <2>2, FS_Subset, FS_CardinalityType
  <2>6. PICK n, m : n = Cardinality(BlockedOn(q, d)) /\ m = Cardinality(U)
    OBVIOUS
  <2>7. Cardinality(BlockedOn(s, d)) = n - m /\ n \in Nat /\ m \in Nat /\ m <= n
    BY <2>1, <2>2, <2>3, <2>4, <2>5, <2>6
  <2>8. s.di[d].blocked = Minus(n, m)
    BY <1>1, <1>2, <1>4, <2>6
  <2>9. Minus(n, m) = n - m
    BY <2>7 DEF Minus
  <2> QED  BY <1>4, <2>7, <2>8, <2>9
<1> QED  BY <1>3, <1>4

\* What the loops know of the job they are at.
AtJob(j, t) ==
  /\ pc # "batch"
  /\ pc = "process" =>
       /\ dest \in Dests \/ (dest = NoDest /\ "reject" \in PrepOutcomes)
       /\ \/ cur = NoJob /\ head = NoJob
          \/ /\ head = j /\ dest = DestOf[j]
             /\ (cur = NoJob /\ Sending(t)) \/ (cur = j /\ Entering(t))
  /\ pc = "finish" => cur = j /\ Ending(t)

\* The loops still work on jobs they may work on.
LEMMA LoopsAfter ==
  ASSUME IInv, faxq \in Memory, Loops, NEW j \in Jobs, NEW t, Effect(j, t), faxq.running,
         AtJob(j, t)',
         pc' = "scan" \/ (pc' = "process" /\ caller' = "scan") =>
           /\ pc = "scan" \/ (pc = "process" /\ caller = "scan")
           /\ todo' \subseteq todo \ {j}
  PROVE  Loops'
<1>1. faxq'.running /\ faxq'.fault = faxq.fault /\ faxq'.job[j] = t
  BY DEF Effect
<1>2. pc' = "scan" \/ (pc' = "process" /\ caller' = "scan") =>
        \A k \in todo' : faxq'.job[k].on = "runq"
  <2> SUFFICES ASSUME pc' = "scan" \/ (pc' = "process" /\ caller' = "scan"), NEW k \in todo'
               PROVE  faxq'.job[k].on = "runq"
    OBVIOUS
  <2>1. k \in todo /\ k # j /\ faxq.job[k].on = "runq"
    BY DEF Loops
  <2>2. k \in Jobs
    BY <2>1 DEF IInv, TypeOK
  <2>3. faxq.job[k] \in JobRecord /\ Woken(faxq.job[k], faxq'.job[k])
    BY <2>1, <2>2, RecordType DEF Effect
  <2> QED  BY <2>1, <2>3, WokenIs
<1>3. pc' # "batch"
  BY DEF AtJob
<1>4. pc' = "process" =>
        /\ dest' \in Dests \/ (dest' = NoDest /\ "reject" \in PrepOutcomes)
        /\ \/ cur' = NoJob /\ head' = NoJob
           \/ /\ head' \in Jobs /\ dest' = DestOf[head']
              /\ \/ cur' = NoJob /\ Sending(faxq'.job[head'])
                 \/ cur' = head' /\ Entering(faxq'.job[head'])
  BY <1>1 DEF AtJob
<1>5. pc' = "finish" => Ending(faxq'.job[cur'])
  BY <1>1 DEF AtJob
<1>6. faxq'.fault = "none" \/ (faxq'.fault = "dangling" /\ "reject" \in PrepOutcomes)
  BY <1>1 DEF Loops
<1> QED  BY <1>1, <1>2, <1>3, <1>4, <1>5, <1>6 DEF Loops

\* What a step about j does to its entry.
Listed(j, t, x, y) ==
  /\ x.active \ {j} \subseteq y.active /\ y.active \subseteq x.active \cup {j}
  /\ t.modem # NoModem /\ ~(pc' = "process" /\ cur' = j) => j \in y.active
  /\ t.on \in {"absent", "suspendq", "deadq"} => j \notin y.active

\* What it does to the locks.
Locking(r, t) ==
  \/ t.modem = r.modem /\ LocksSame
  \/ t.modem = NoModem /\ LockGiven(r.modem)
  \/ r.modem = NoModem /\ t.modem # NoModem /\ LockTaken(t.modem)

\* A job that was sent stays so, but for kill times.
DoneStays ==
  ~KillTimers =>
    \A k \in Jobs : faxq.job[k].state = "done" => faxq'.job[k].state = "done"

\* A step about one job leaves the others, unless it wakes those that are blocked.
Spared(j) == \A k \in Jobs \ {j} : Woken(faxq.job[k], faxq'.job[k])

\* A step about one job keeps the invariant if it keeps these parts.
LEMMA StepShape ==
  ASSUME IInv, Shape, NEW j \in Jobs, NEW r, r = faxq.job[j], NEW t, Effect(j, t),
         NEW x, NEW y, x = faxq.di[DestOf[j]], y = faxq'.di[DestOf[j]],
         faxq.running, At(j), pc = "process" => cur \in {j, NoJob},
         \/ Handling(j)' \/ Resting(t) \/ Busy(t)
         \/ Left(t) /\ frames' # <<>> /\ (Top.job)' = j,
         frames' = frames \/ frames = <<>> \/ Top.job = j,
         Loops', Waits', Listed(j, t, x, y), Locking(r, t),
         Dealt(j, r, t, x, y, Slack(DestOf[j]), Slack(DestOf[j])'),
         \A e \in Dests \ {DestOf[j]} : Slack(e)' = Slack(e),
         ~KillTimers => BlockedFor(faxq') /\ Tale(t) /\ r.state # "done"
  PROVE  Shape' /\ DoneStays /\ Spared(j)
<1>1. faxq \in Memory /\ Plain(faxq) /\ Phases /\ Members /\ LocksHeld /\ CallCounts /\ Reports
  BY MemoryType DEF Shape
<1>2. Plain(faxq')
  BY <1>1, PlainAfter
<1>3. Phases'
  BY <1>1, PhasesAfter
<1>4. Members'
  BY <1>1, MembersAfter DEF Listed
<1>5. LocksHeld'
  BY <1>1, LocksAfter DEF Locking
<1>6. CallCounts'
  BY <1>1, CountsAfter
<1>7. BlockedCounts'
  BY DEF BlockedCounts, BlockedFor
<1>8. Reports'
  BY <1>1, ReportsAfter
<1>9. DoneStays
  <2> SUFFICES ASSUME ~KillTimers, NEW k \in Jobs, faxq.job[k].state = "done"
               PROVE  faxq'.job[k].state = "done"
    BY DEF DoneStays
  <2>1. k # j
    OBVIOUS
  <2>2. faxq.job[k] \in JobRecord /\ Woken(faxq.job[k], faxq'.job[k])
    BY <2>1, RecordType, MemoryType DEF Effect
  <2>3. CASE Resting(faxq.job[k])
    BY <2>2, <2>3, WokenIs
  <2>4. CASE ~Resting(faxq.job[k])
    <3>1. faxq.job[k].on # "blocked"
      BY <1>1, <2>1, <2>4 DEF Phases, At, Busy, Left
    <3> QED  BY <2>2, <3>1, WokenIs
  <2> QED  BY <2>3, <2>4
<1>10. Spared(j)
  BY DEF Effect, Spared
<1> QED  BY <1>2, <1>3, <1>4, <1>5, <1>6, <1>7, <1>8, <1>9, <1>10 DEF Shape

\* Handlers of input and timers, and the scheduler pass, run only outside the
\* waits that are over.
LEMMA Open ==
  ASSUME Waits, Input \/ pc = "scan" PROVE frames = <<>> \/ Waiting
BY DEF Waits, Input

\* A step of one of them that takes a job from one place of rest to another.
LEMMA RestStep ==
  ASSUME IInv, Shape, NEW j \in Jobs, NEW r, r = faxq.job[j], NEW t, Effect(j, t),
         NEW x, NEW y, x = faxq.di[DestOf[j]], y = faxq'.di[DestOf[j]],
         Resting(r), Resting(t), faxq.running,
         Input \/ pc = "scan", UNCHANGED <<pc, caller, cur, head, dest, frames>>,
         pc = "scan" => todo' \subseteq todo \ {j},
         y.active = x.active \ {j} \/ y.active = x.active,
         t.on \in {"absent", "suspendq", "deadq"} => j \notin y.active,
         y = NewDest \/ (y.calls = x.calls /\ y.pending = x.pending), y \in DestRecord,
         LocksSame, ~KillTimers => BlockedFor(faxq') /\ Tale(t) /\ r.state # "done"
  PROVE  Shape' /\ DoneStays /\ Spared(j)
<1>1. faxq \in Memory /\ Loops /\ Waits /\ CallCounts
  BY MemoryType DEF Shape
<1>2. /\ r.modem = NoModem /\ t.modem = NoModem
      /\ ~r.suspendPending /\ ~t.suspendPending
  BY DEF Resting, Free
<1>3. pc \in {"idle", "scan"} /\ pc' = pc
  BY DEF Input, Idle
<1>4. At(j) /\ ~(pc = "process")
  BY <1>3 DEF At, Handling
<1>5. frames = <<>> \/ Waiting
  BY <1>1, Open
<1>6. Loops'
  <2>1. AtJob(j, t)'
    BY <1>3 DEF AtJob
  <2> QED  BY <1>1, <1>3, <2>1, LoopsAfter
<1>7. Waits'
  BY <1>1, <1>2, <1>3, <1>5, WaitsOn
<1>8. Listed(j, t, x, y)
  BY <1>2 DEF Listed
<1>9. Locking(r, t)
  BY <1>2 DEF Locking
<1>10. \A e \in Dests : Slack(e) = 0 /\ Slack(e)' = 0
  BY <1>3 DEF Slack
<1>11. Dealt(j, r, t, x, y, Slack(DestOf[j]), Slack(DestOf[j])')
  <2>1. Slack(DestOf[j]) = 0 /\ Slack(DestOf[j])' = 0 /\ Cost(r) = 0 /\ Cost(t) = 0
    BY <1>2, <1>10, DestOfType DEF Cost
  <2>2. CASE y = NewDest
    <3>1. x.active \subseteq {j}
      BY <2>2 DEF NewDest
    <3> QED  BY <1>2, <2>1, <2>2, <3>1 DEF Dealt
  <2>3. CASE y.calls = x.calls /\ y.pending = x.pending
    <3>1. y.calls \in Nat
      BY DEF DestRecord
    <3>2. y.pending => y.calls > 0
      BY <1>1, <2>3, DestOfType DEF CallCounts
    <3> QED  BY <2>1, <2>3, <3>1, <3>2 DEF Dealt
  <2> QED  BY <2>2, <2>3
<1>12. /\ Handling(j)' \/ Resting(t) \/ Busy(t) \/ (Left(t) /\ frames' # <<>> /\ (Top.job)' = j)
       /\ frames' = frames \/ frames = <<>> \/ Top.job = j
       /\ pc = "process" => cur \in {j, NoJob}
       /\ \A e \in Dests \ {DestOf[j]} : Slack(e)' = Slack(e)
  BY <1>4, <1>10
<1> QED  BY <1>4, <1>6, <1>7, <1>8, <1>9, <1>11, <1>12, StepShape

\* A step that leaves the jobs and destinations alone.
LEMMA SameJobs ==
  ASSUME IInv, Shape, faxq'.job = faxq.job, faxq'.di = faxq.di, LocksSame,
         faxq'.fault = faxq.fault, UNCHANGED <<caller, cur, head, dest, frames>>,
         Input \/ pc = "scan" \/ (Idle /\ UNCHANGED <<pc, phase>>),
         \/ pc' = pc /\ (pc = "scan" => todo' \subseteq todo)
         \/ pc' = "scan" /\ \A k \in todo' : faxq.job[k].on = "runq",
         \/ faxq'.running /\ faxq.running
         \/ pc' = "idle" /\ \A k \in Jobs : faxq.job[k].child = "none"
  PROVE  Shape' /\ DoneStays
<1>1. faxq \in Memory
  BY MemoryType
<1>2. pc \in {"idle", "scan"} /\ pc' \in {"idle", "scan"}
  BY DEF Input, Idle
<1>3. frames = <<>> \/ Waiting \/ UNCHANGED <<pc, phase>>
  BY Open DEF Shape
<1>4. Plain(faxq')
  BY DEF Shape, Plain
<1>5. Loops'
  BY <1>2 DEF Shape, Loops
<1>6. Phases'
  BY <1>2 DEF Shape, Phases, Handling, Top
<1>7. Waits'
  BY <1>2, <1>3 DEF Shape, Waits, Waiting, Top
<1>8. Members'
  BY <1>2 DEF Shape, Members
<1>9. LocksHeld'
  BY DEF Shape, LocksHeld, LocksSame
<1>10. CallCounts'
  <2>1. \A d \in Dests : Slack(d) = 0 /\ Slack(d)' = 0
    BY <1>2 DEF Slack
  <2>2. \A d \in Dests : Calling(faxq', d) = Calling(faxq, d)
    BY DEF Calling
  <2> QED  BY <2>1, <2>2 DEF Shape, CallCounts, Calm
<1>11. BlockedCounts'
  <2>1. \A d \in Dests : BlockedOn(faxq', d) = BlockedOn(faxq, d)
    BY DEF BlockedOn
  <2> QED  BY <2>1 DEF Shape, BlockedCounts
<1>12. Reports'
  BY DEF Shape, Reports
<1> QED  BY <1>4, <1>5, <1>6, <1>7, <1>8, <1>9, <1>10, <1>11, <1>12 DEF Shape, DoneStays
=============================================================================
