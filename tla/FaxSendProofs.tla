--------------------------- MODULE FaxSendProofs ---------------------------
(***************************************************************************)
(* FaxSend, for any jobs, documents, limits and faults: PagesAccounted,    *)
(* DoneMeansSent, BatchOutcome and LimitsKept.                             *)
(*                                                                         *)
(* The memory of faxsend and a queue file are records of which most steps  *)
(* change several fields; Shape and Fields name what the proofs look at,   *)
(* with one lemma for each field that is set.  A second layer says what    *)
(* each action does, in these terms: all that end a job are one kind of    *)
(* step, Ending.  The invariants are then proved from the effects.         *)
(***************************************************************************)
EXTENDS FaxSend, FiniteSetTheorems, SequenceTheorems, TLAPS

Pcs == {"file", "dial", "prologue", "document", "page", "exit"}
Statuses == {"retry", "done", "failed", "reformat"}
Items == Seq([doc : Nat, dirnum : Nat])

\* The memory of a faxsend that runs.
Call ==
  [pc : Pcs, batch : Seq(Jobs), cur : Nat, status : Statuses, callFailed : BOOLEAN,
   req : Request, page : Nat, setup : BOOLEAN, locked : BOOLEAN, connected : BOOLEAN,
   abort : BOOLEAN]

Off == [pc |-> "off", batch |-> <<>>]
OnCall == fs.pc \in {"dial", "prologue", "document", "page"}

Shape(g, p, b, c, s, r, n, l, k, a) ==
  /\ g \in Call /\ g.pc = p /\ g.batch = b /\ g.cur = c /\ g.status = s /\ g.req = r
  /\ g.page = n /\ g.locked = l /\ g.connected = k /\ g.abort = a

Fields(q, i, s, n, d, t) ==
  /\ q \in Request /\ q.items = i /\ q.status = s /\ q.npages = n
  /\ q.totdials = d /\ q.tottries = t
-----------------------------------------------------------------------------
(* The invariant the others rest on *)

\* The current call has not yet come to the job.
Coming(j) ==
  \/ fs = Off
  \/ \A i \in 1..Len(fs.batch) :
       fs.batch[i] = j => i > fs.cur \/ (i = fs.cur /\ fs.pc \in {"file", "dial"})

\* Where a call is in its batch.
Placed ==
  /\ fs.batch # <<>> /\ IsInjective(fs.batch)
  /\ \A i \in 1..Len(fs.batch) : state[fs.batch[i]] = "ready"
  /\ fs.cur \in 1..Len(fs.batch) + 1
  /\ fs.pc # "exit" => fs.cur \in 1..Len(fs.batch)
  /\ OnCall => fs.status = "done"
  /\ fs.pc = "dial" => fs.req = qfile[Job]
  /\ fs.pc = "document" => fs.req.status \in {"retry", "done"}
  /\ fs.pc = "page" => fs.req.status = "done" /\ fs.req.items # <<>>
  /\ fs.abort => "abort" \in faults

\* A child that has still to write: for a job the call has come to.
Writing(w) ==
  /\ fs # Off /\ w.job \in Jobs /\ w.req \in Request /\ w.req.status = "done"
  /\ \E i \in 1..Len(fs.batch) :
       w.job = fs.batch[i] /\ i <= fs.cur /\ (fs.pc \in {"file", "dial"} => i < fs.cur)

Base ==
  /\ TypeOK
  /\ fs = Off \/ (fs \in Call /\ Placed)
  /\ \A w \in writers : Writing(w)
  /\ writers # {} => "slow" \in faults
  /\ \A j \in Jobs : state[j] = "ready" /\ Coming(j) => qfile[j].status = "retry"
  /\ "format" \notin faults => \A j \in Jobs : qfile[j].status # "reformat"
-----------------------------------------------------------------------------
(* A field is set *)

LEMMA SetPc ==
  ASSUME NEW g, NEW p, NEW b, NEW c, NEW s, NEW r, NEW n, NEW l, NEW k, NEW a,
         Shape(g, p, b, c, s, r, n, l, k, a), NEW v \in Pcs
  PROVE  Shape([g EXCEPT !.pc = v], v, b, c, s, r, n, l, k, a)
BY DEF Shape, Call

LEMMA SetCur ==
  ASSUME NEW g, NEW p, NEW b, NEW c, NEW s, NEW r, NEW n, NEW l, NEW k, NEW a,
         Shape(g, p, b, c, s, r, n, l, k, a), NEW v \in Nat
  PROVE  Shape([g EXCEPT !.cur = v], p, b, v, s, r, n, l, k, a)
BY DEF Shape, Call

LEMMA SetStatus ==
  ASSUME NEW g, NEW p, NEW b, NEW c, NEW s, NEW r, NEW n, NEW l, NEW k, NEW a,
         Shape(g, p, b, c, s, r, n, l, k, a), NEW v \in Statuses
  PROVE  Shape([g EXCEPT !.status = v], p, b, c, v, r, n, l, k, a)
BY DEF Shape, Call

LEMMA SetCallFailed ==
  ASSUME NEW g, NEW p, NEW b, NEW c, NEW s, NEW r, NEW n, NEW l, NEW k, NEW a,
         Shape(g, p, b, c, s, r, n, l, k, a), NEW v \in BOOLEAN
  PROVE  Shape([g EXCEPT !.callFailed = v], p, b, c, s, r, n, l, k, a)
BY DEF Shape, Call

LEMMA SetReq ==
  ASSUME NEW g, NEW p, NEW b, NEW c, NEW s, NEW r, NEW n, NEW l, NEW k, NEW a,
         Shape(g, p, b, c, s, r, n, l, k, a), NEW v \in Request
  PROVE  Shape([g EXCEPT !.req = v], p, b, c, s, v, n, l, k, a)
BY DEF Shape, Call

LEMMA SetPage ==
  ASSUME NEW g, NEW p, NEW b, NEW c, NEW s, NEW r, NEW n, NEW l, NEW k, NEW a,
         Shape(g, p, b, c, s, r, n, l, k, a), NEW v \in Nat
  PROVE  Shape([g EXCEPT !.page = v], p, b, c, s, r, v, l, k, a)
BY DEF Shape, Call

LEMMA SetSetup ==
  ASSUME NEW g, NEW p, NEW b, NEW c, NEW s, NEW r, NEW n, NEW l, NEW k, NEW a,
         Shape(g, p, b, c, s, r, n, l, k, a), NEW v \in BOOLEAN
  PROVE  Shape([g EXCEPT !.setup = v], p, b, c, s, r, n, l, k, a)
BY DEF Shape, Call

LEMMA SetLocked ==
  ASSUME NEW g, NEW p, NEW b, NEW c, NEW s, NEW r, NEW n, NEW l, NEW k, NEW a,
         Shape(g, p, b, c, s, r, n, l, k, a), NEW v \in BOOLEAN
  PROVE  Shape([g EXCEPT !.locked = v], p, b, c, s, r, n, v, k, a)
BY DEF Shape, Call

LEMMA SetConnected ==
  ASSUME NEW g, NEW p, NEW b, NEW c, NEW s, NEW r, NEW n, NEW l, NEW k, NEW a,
         Shape(g, p, b, c, s, r, n, l, k, a), NEW v \in BOOLEAN
  PROVE  Shape([g EXCEPT !.connected = v], p, b, c, s, r, n, l, v, a)
BY DEF Shape, Call

LEMMA SetAbort ==
  ASSUME NEW g, NEW p, NEW b, NEW c, NEW s, NEW r, NEW n, NEW l, NEW k, NEW a,
         Shape(g, p, b, c, s, r, n, l, k, a), NEW v \in BOOLEAN
  PROVE  Shape([g EXCEPT !.abort = v], p, b, c, s, r, n, l, k, v)
BY DEF Shape, Call

LEMMA PutItems ==
  ASSUME NEW q, NEW i, NEW s, NEW n, NEW d, NEW t,
         Fields(q, i, s, n, d, t), NEW v \in Items
  PROVE  Fields([q EXCEPT !.items = v], v, s, n, d, t)
BY DEF Fields, Request, Statuses, Items

LEMMA PutStatus ==
  ASSUME NEW q, NEW i, NEW s, NEW n, NEW d, NEW t,
         Fields(q, i, s, n, d, t), NEW v \in Statuses
  PROVE  Fields([q EXCEPT !.status = v], i, v, n, d, t)
BY DEF Fields, Request, Statuses, Items

LEMMA PutNpages ==
  ASSUME NEW q, NEW i, NEW s, NEW n, NEW d, NEW t,
         Fields(q, i, s, n, d, t), NEW v \in Nat
  PROVE  Fields([q EXCEPT !.npages = v], i, s, v, d, t)
BY DEF Fields, Request, Statuses, Items

LEMMA PutNtries ==
  ASSUME NEW q, NEW i, NEW s, NEW n, NEW d, NEW t,
         Fields(q, i, s, n, d, t), NEW v \in Nat
  PROVE  Fields([q EXCEPT !.ntries = v], i, s, n, d, t)
BY DEF Fields, Request, Statuses, Items

LEMMA PutNdials ==
  ASSUME NEW q, NEW i, NEW s, NEW n, NEW d, NEW t,
         Fields(q, i, s, n, d, t), NEW v \in Nat
  PROVE  Fields([q EXCEPT !.ndials = v], i, s, n, d, t)
BY DEF Fields, Request, Statuses, Items

LEMMA PutTotdials ==
  ASSUME NEW q, NEW i, NEW s, NEW n, NEW d, NEW t,
         Fields(q, i, s, n, d, t), NEW v \in Nat
  PROVE  Fields([q EXCEPT !.totdials = v], i, s, n, v, t)
BY DEF Fields, Request, Statuses, Items

LEMMA PutTottries ==
  ASSUME NEW q, NEW i, NEW s, NEW n, NEW d, NEW t,
         Fields(q, i, s, n, d, t), NEW v \in Nat
  PROVE  Fields([q EXCEPT !.tottries = v], i, s, n, d, v)
BY DEF Fields, Request, Statuses, Items

LEMMA PutErrorcode ==
  ASSUME NEW q, NEW i, NEW s, NEW n, NEW d, NEW t,
         Fields(q, i, s, n, d, t), NEW v \in {"call", "other"}
  PROVE  Fields([q EXCEPT !.errorcode = v], i, s, n, d, t)
BY DEF Fields, Request, Statuses, Items

LEMMA Own ==
  ASSUME NEW q \in Request
  PROVE  Fields(q, q.items, q.status, q.npages, q.totdials, q.tottries)
BY DEF Fields

LEMMA OwnShape ==
  ASSUME fs \in Call
  PROVE  Shape(fs, fs.pc, fs.batch, fs.cur, fs.status, fs.req, fs.page, fs.locked,
               fs.connected, fs.abort)
BY DEF Shape
-----------------------------------------------------------------------------
(* What the actions do *)

LEMMA CallFacts ==
  ASSUME Base, fs.pc # "off"
  PROVE  /\ fs \in Call /\ Placed /\ fs # Off /\ fs.pc \in Pcs
         /\ fs.batch \in Seq(Jobs) /\ fs.cur \in Nat /\ Len(fs.batch) \in Nat
         /\ fs.req \in Request /\ fs.page \in Nat
         /\ fs.pc # "exit" => Job \in Jobs /\ fs.cur \in 1..Len(fs.batch)
<1>1. fs \in Call /\ Placed /\ fs # Off
  BY DEF Base, Off
<1>2. fs.batch \in Seq(Jobs) /\ fs.cur \in Nat /\ fs.req \in Request /\ fs.page \in Nat /\ fs.pc \in Pcs
  BY <1>1 DEF Call
<1>3. Len(fs.batch) \in Nat
  BY <1>2
<1>4. fs.pc # "exit" => Job \in Jobs /\ fs.cur \in 1..Len(fs.batch)
  BY <1>1, <1>2 DEF Placed, Job
<1> QED  BY <1>1, <1>2, <1>3, <1>4

LEMMA OffFacts ==
  ASSUME Base, fs.pc = "off"
  PROVE  fs = Off /\ writers = {}
<1>1. fs = Off
  BY DEF Base, Call, Pcs
<1> QED  BY <1>1 DEF Base, Writing

\* The request of the job at hand.
Current == IF At("file") THEN qfile[Job] ELSE fs.req

\* A job may be counted calls of others for, past its limit of dials.
Below(q) == (~Share => q.totdials < MaxDials) /\ q.tottries < MaxTries
Within(q) == (~Share => q.totdials <= MaxDials) /\ q.tottries <= MaxTries
NoExcess == faults \cap {"abort", "format"} = {}

\* The items when a call ends, of which some pages may have been sent.
Rest(items) ==
  IF At("page") /\ fs.page # 0 THEN [items EXCEPT ![1].dirnum = @ + fs.page] ELSE items

\* The calls made for the job at hand are counted, and maybe others.
Tallied(q, r) ==
  \/ UNCHANGED made /\ r.totdials \in {q.totdials, q.totdials + 1} /\ r.tottries = q.tottries
  \/ /\ At("dial") /\ IsFirst /\ \A k \in Jobs \ {Job} : made'[k] = made[k]
     /\ made'[Job].dials <= made[Job].dials + 1 /\ made'[Job].tries = made[Job].tries
     /\ r.totdials = q.totdials + 1 /\ r.tottries = q.tottries

\* What may become of the request when its job ends.
Outcome(q, r) ==
  /\ r \in Request /\ r.npages = q.npages /\ r.items = Rest(q.items)
  /\ r.status = "done" => q.items = <<>> /\ q.status = "done" /\ At("document")
  /\ r.status = "reformat" => "format" \in faults'
  /\ At("file") => r.status = "retry"
  /\ NoExcess' /\ Within(q) /\ (fs.pc \in {"file", "dial"} => Below(q)) =>
       Within(r) /\ (r.status = "retry" => Below(r))
  /\ NoExcess' => Tallied(q, r)

Tallies == [Jobs -> [dials : Nat, tries : Nat]]

Env ==
  /\ info' \in [called : BOOLEAN, batching : BOOLEAN] /\ made' \in Tallies
  /\ faults \subseteq faults' /\ faults' \subseteq Faults

\* The job at hand ends, with r in its queue file.
Ended(r) ==
  LET over == IsLast \/ r.status # "done" IN
  /\ qfile' = [qfile EXCEPT ![Job] = r]
  /\ Shape(fs', IF IsLast THEN "exit" ELSE "file", fs.batch, fs.cur + 1, r.status, fs.req,
           fs.page, fs.locked /\ ~over, fs.connected /\ ~over, fs.abort)

Ending ==
  /\ fs.pc \notin {"off", "exit"}
  /\ At("file") => fs.status # "done" \/ IsFirst
  /\ \E r \in Request : Ended(r) /\ Outcome(Current, r)
  /\ UNCHANGED <<state, writers, got>> /\ Env

\* The job at hand goes on, at p.
Moved(p, n, l, k) ==
  Shape(fs', p, fs.batch, fs.cur, fs.status, fs'.req, n, l, k, fs.abort)

LEMMA FinishEnds ==
  ASSUME fs \in Call, NEW r \in Request, NEW f \in BOOLEAN, Finish(r, f)
  PROVE  Ended(r)
<1> DEFINE over == IsLast \/ r.status # "done"
           p == IF IsLast THEN "exit" ELSE "file"
           l == fs.locked /\ ~over
           k == fs.connected /\ ~over
           g1 == [fs EXCEPT !.pc = p]
           g2 == [g1 EXCEPT !.cur = fs.cur + 1]
           g3 == [g2 EXCEPT !.status = r.status]
           g0 == [g3 EXCEPT !.callFailed = f]
           g4 == [g0 EXCEPT !.locked = l]
           g5 == [g4 EXCEPT !.connected = k]
<1>1. p \in Pcs /\ fs.cur + 1 \in Nat /\ r.status \in Statuses /\ l \in BOOLEAN /\ k \in BOOLEAN
  BY DEF Pcs, Call, Request, Statuses
<1>2. fs' = g5
  BY DEF Finish, Call
<1>3. qfile' = [qfile EXCEPT ![Job] = r]
  BY DEF Finish, Write
<1> HIDE DEF over, p, l, k
<1>4. Shape(g1, p, fs.batch, fs.cur, fs.status, fs.req, fs.page, fs.locked, fs.connected, fs.abort)
  BY <1>1, OwnShape, SetPc
<1> HIDE DEF g1
<1>5. Shape(g2, p, fs.batch, fs.cur + 1, fs.status, fs.req, fs.page, fs.locked, fs.connected, fs.abort)
  BY <1>1, <1>4, SetCur
<1> HIDE DEF g2
<1>6. Shape(g3, p, fs.batch, fs.cur + 1, r.status, fs.req, fs.page, fs.locked, fs.connected, fs.abort)
  BY <1>1, <1>5, SetStatus
<1> HIDE DEF g3
<1>9. Shape(g0, p, fs.batch, fs.cur + 1, r.status, fs.req, fs.page, fs.locked, fs.connected, fs.abort)
  BY <1>6, SetCallFailed
<1> HIDE DEF g0
<1>7. Shape(g4, p, fs.batch, fs.cur + 1, r.status, fs.req, fs.page, l, fs.connected, fs.abort)
  BY <1>1, <1>9, SetLocked
<1> HIDE DEF g4
<1>8. Shape(g5, p, fs.batch, fs.cur + 1, r.status, fs.req, fs.page, l, k, fs.abort)
  BY <1>1, <1>7, SetConnected
<1> QED  BY <1>2, <1>3, <1>8 DEF Ended, over, p, l, k

LEMMA JudgedFacts ==
  ASSUME NEW q, NEW i, NEW s, NEW n, NEW d, NEW t, Fields(q, i, s, n, d, t),
         fs.req \in Request, MaxDials \in Nat, MaxTries \in Nat
  PROVE  /\ Fields(Judged(q), i, Judged(q).status, n, d, t)
         /\ Judged(q).status = "done" => s = "done"
         /\ Judged(q).status = "reformat" => s = "reformat"
         /\ ~fs.abort /\ Within(q) /\ Judged(q).status = "retry" => Below(q)
<1>1. CASE fs.abort
  <2> DEFINE u == [q EXCEPT !.status = "retry"]
             e == fs.req.errorcode
             v == [u EXCEPT !.errorcode = e]
  <2>1. Fields(u, i, "retry", n, d, t)
    BY PutStatus DEF Statuses
  <2>2. e \in {"call", "other"}
    BY DEF Request
  <2>3. Judged(q) = v
    BY <1>1 DEF Judged, Fields, Request
  <2> HIDE DEF u, e
  <2>4. Fields(v, i, "retry", n, d, t)
    BY <2>1, <2>2, PutErrorcode
  <2> HIDE DEF v
  <2> QED  BY <1>1, <2>3, <2>4 DEF Fields
<1>2. CASE ~fs.abort /\ q.status = "retry" /\ (q.totdials = MaxDials \/ q.tottries = MaxTries)
  <2>1. Fields([q EXCEPT !.status = "failed"], i, "failed", n, d, t)
    BY PutStatus DEF Statuses
  <2> QED  BY <1>2, <2>1 DEF Judged, Fields
<1>3. CASE ~fs.abort /\ ~(q.status = "retry" /\ (q.totdials = MaxDials \/ q.tottries = MaxTries))
  <2>1. Judged(q) = q
    BY <1>3 DEF Judged
  <2> QED  BY <1>3, <2>1 DEF Fields, Request, Within, Below
<1> QED  BY <1>1, <1>2, <1>3

LEMMA EnvSame ==
  ASSUME Base, UNCHANGED <<info, made, faults>>
  PROVE  Env
BY DEF Base, TypeOK, Env, Tallies

LEMMA EnvMay ==
  ASSUME Base, NEW f, May(f), UNCHANGED <<info, made>>
  PROVE  Env /\ f \in faults' /\ f \notin faults /\ faults' = faults \cup {f}
BY DEF Base, TypeOK, Env, May, Tallies

LEMMA QfileType ==
  ASSUME Base, fs.pc \notin {"off", "exit"}
  PROVE  Job \in Jobs /\ qfile[Job] \in Request /\ qfile \in [Jobs -> Request]
BY CallFacts DEF Base, TypeOK

\* Jobs that end without a call.
LEMMA BlockedEnds ==
  ASSUME Base, Blocked
  PROVE  Ending
<1> DEFINE q == qfile[Job]
           q1 == [q EXCEPT !.status = "retry"]
           q2 == [q1 EXCEPT !.totdials = q.totdials + 1]
           q3 == [q2 EXCEPT !.errorcode = "call"]
           r == IF fs.callFailed /\ Share THEN q3 ELSE q1
<1>1. At("file") /\ fs.status # "done" /\ fs.pc \notin {"off", "exit"}
  BY DEF Blocked, At
<1>2. fs \in Call /\ q \in Request
  BY <1>1, CallFacts, QfileType
<1>3. Finish(r, fs.callFailed) /\ fs.callFailed \in BOOLEAN /\ UNCHANGED made
  BY <1>2 DEF Blocked, Request, Call
<1>4. Fields(q1, q.items, "retry", q.npages, q.totdials, q.tottries)
  BY <1>2, Own, PutStatus DEF Statuses
<1>5. Fields(q2, q.items, "retry", q.npages, q.totdials + 1, q.tottries)
  <2>1. q.totdials + 1 \in Nat
    BY <1>2 DEF Request
  <2> HIDE DEF q1
  <2> QED  BY <2>1, <1>4, PutTotdials
<1>6. Fields(q3, q.items, "retry", q.npages, q.totdials + 1, q.tottries)
  <2> HIDE DEF q2
  <2> QED  BY <1>5, PutErrorcode
<1> HIDE DEF q1, q3
<1>7. Ended(r)
  BY <1>2, <1>3, <1>4, <1>6, FinishEnds DEF Fields
<1>8. Outcome(Current, r)
  <2>1. Current = q /\ Rest(q.items) = q.items
    BY <1>1 DEF Current, Rest, At
  <2>2. CASE fs.callFailed /\ Share
    <3>1. q.totdials \in Nat /\ UNCHANGED made
      BY <1>2, <1>3 DEF Request
    <3> QED
      BY <3>1, <2>1, <2>2, <1>1, <1>6 DEF Outcome, Fields, Within, Below, At, Tallied
  <2>3. CASE ~(fs.callFailed /\ Share)
    BY <2>1, <2>3, <1>1, <1>3, <1>4 DEF Outcome, Fields, Within, Below, At, Tallied
  <2> QED  BY <2>2, <2>3
<1>9. r \in Request
  BY <1>4, <1>6 DEF Fields
<1>10. UNCHANGED <<state, writers, got>> /\ Env
  BY EnvSame DEF Blocked
<1> QED  BY <1>1, <1>7, <1>8, <1>9, <1>10 DEF Ending

LEMMA CannotLockEnds ==
  ASSUME Base, CannotLock
  PROVE  Ending
<1> DEFINE q == qfile[Job]
           r == [q EXCEPT !.status = "retry"]
<1>1. At("file") /\ IsFirst /\ fs.pc \notin {"off", "exit"}
  BY DEF CannotLock, At
<1>2. fs \in Call /\ q \in Request
  BY <1>1, CallFacts, QfileType
<1>3. Finish(r, FALSE) /\ UNCHANGED made
  BY DEF CannotLock
<1>4. Fields(r, q.items, "retry", q.npages, q.totdials, q.tottries)
  BY <1>2, Own, PutStatus DEF Statuses
<1> HIDE DEF r
<1>5. r \in Request /\ Ended(r)
  BY <1>2, <1>3, <1>4, FinishEnds DEF Fields
<1>6. Outcome(Current, r)
  <2>1. Current = q /\ Rest(q.items) = q.items
    BY <1>1 DEF Current, Rest, At
  <2> QED  BY <2>1, <1>1, <1>3, <1>4 DEF Outcome, Fields, Within, Below, At, Tallied
<1>7. UNCHANGED <<state, writers, got>> /\ Env
  BY EnvSame DEF CannotLock
<1> QED  BY <1>1, <1>5, <1>6, <1>7 DEF Ending

LEMMA SetupFailsEnds ==
  ASSUME Base, SetupFails
  PROVE  Ending
<1>1. At("dial") /\ fs.pc \notin {"off", "exit"} /\ ~At("file") /\ ~At("page")
  BY DEF SetupFails, At
<1>2. fs \in Call /\ fs.req \in Request
  BY <1>1, CallFacts
<1>3. PICK e \in {fs.req.errorcode, "other"} :
        Finish([fs.req EXCEPT !.status = "failed", !.errorcode = e], FALSE)
  BY DEF SetupFails
<1> DEFINE q == fs.req
           u == [q EXCEPT !.status = "failed"]
           r == [u EXCEPT !.errorcode = e]
<1>4. Fields(u, q.items, "failed", q.npages, q.totdials, q.tottries)
  BY <1>2, Own, PutStatus DEF Statuses
<1>8. e \in {"call", "other"}
  BY <1>2 DEF Request
<1>9. Finish(r, FALSE)
  BY <1>2, <1>3 DEF Request
<1> HIDE DEF u
<1>10. Fields(r, q.items, "failed", q.npages, q.totdials, q.tottries)
  BY <1>4, <1>8, PutErrorcode
<1> HIDE DEF r
<1>5. r \in Request /\ Ended(r)
  BY <1>2, <1>9, <1>10, FinishEnds DEF Fields
<1>6. Outcome(Current, r)
  <2>1. Current = q /\ Rest(q.items) = q.items /\ UNCHANGED made
    BY <1>1 DEF Current, Rest, SetupFails
  <2> QED  BY <2>1, <1>1, <1>10 DEF Outcome, Fields, Within, Below, Tallied
<1>7. UNCHANGED <<state, writers, got>> /\ Env
  BY EnvSame DEF SetupFails
<1> QED  BY <1>1, <1>5, <1>6, <1>7 DEF Ending

\* A call that stops with a status.
LEMMA StopEnds ==
  ASSUME Base, OnCall, NEW r \in Request, NEW st \in {"retry", "failed", "reformat"},
         NEW f \in BOOLEAN, Finish(Judged([r EXCEPT !.status = st]), f),
         NoExcess' => Tallied(fs.req, r), r.npages = fs.req.npages, r.items = Rest(fs.req.items),
         st = "reformat" => "format" \in faults', UNCHANGED <<state, writers, got>>, Env,
         NoExcess' /\ Within(fs.req) /\ (At("dial") => Below(fs.req)) => Within(r)
  PROVE  Ending
<1> DEFINE q == [r EXCEPT !.status = st]
           x == Judged(q)
<1>1. fs.pc \notin {"off", "exit"} /\ ~At("file") /\ Current = fs.req /\ (fs.pc = "dial" <=> At("dial"))
  BY DEF OnCall, At, Current
<1>2. fs \in Call /\ fs.req \in Request /\ (fs.abort => "abort" \in faults)
  BY <1>1, CallFacts DEF Placed
<1>3. Fields(q, r.items, st, r.npages, r.totdials, r.tottries)
  <2>1. st \in Statuses /\ Fields(r, r.items, r.status, r.npages, r.totdials, r.tottries)
    BY Own DEF Statuses
  <2> QED  BY <2>1, PutStatus
<1>4. Finish(x, f)
  OBVIOUS
<1> HIDE DEF q
<1>5. /\ Fields(x, r.items, x.status, r.npages, r.totdials, r.tottries)
      /\ x.status # "done"
      /\ x.status = "reformat" => st = "reformat"
      /\ ~fs.abort /\ Within(q) /\ x.status = "retry" => Below(q)
  BY <1>2, <1>3, JudgedFacts, SendAssumptions
<1> HIDE DEF x
<1>6. x \in Request /\ Ended(x)
  BY <1>2, <1>4, <1>5, FinishEnds DEF Fields
<1>7. ASSUME NoExcess', Within(fs.req), At("dial") => Below(fs.req)
      PROVE  Within(x) /\ (x.status = "retry" => Below(x))
  <2>1. ~fs.abort
    BY <1>2, <1>7 DEF NoExcess, Env
  <2>2. Within(r)
    BY <1>7
  <2> QED  BY <2>1, <2>2, <1>3, <1>5 DEF Fields, Within, Below
<1>8. Outcome(Current, x)
  BY <1>1, <1>5, <1>6, <1>7 DEF Outcome, Fields, Tallied
<1> QED  BY <1>1, <1>6, <1>8 DEF Ending

LEMMA RestSame ==
  ASSUME ~At("page")
  PROVE  \A items : Rest(items) = items
BY DEF Rest

LEMMA DialFailsEnds ==
  ASSUME Base, NEW callstat \in CallStatuses, DialFails(callstat)
  PROVE  Ending
<1> USE DEF At
<1>1. OnCall /\ ~At("page") /\ At("dial") /\ fs.pc \notin {"off", "exit"}
  BY DEF DialFails, OnCall
<1>2. fs.req \in Request /\ Job \in Jobs
  BY <1>1, CallFacts
<1> DEFINE counted == callstat # "BUSY" \/ ~NoFailBusy
           c == IF counted THEN 1 ELSE 0
           e == IF callstat \in CallErrors THEN "call" ELSE "other"
           q == fs.req
           q1 == [q EXCEPT !.ndials = q.ndials + c]
           q2 == [q1 EXCEPT !.totdials = q.totdials + c]
           r == [q2 EXCEPT !.errorcode = e]
           st == IF ~info'.called /\ r.ndials > RetryMax THEN "failed" ELSE "retry"
           f == callstat \in CallErrors
<1>4. /\ e \in {"call", "other"} /\ q.ndials + c \in Nat /\ q.totdials + c \in Nat
      /\ f \in BOOLEAN
  BY <1>2 DEF Request
<1>5. Finish(Judged([r EXCEPT !.status = st]), f)
  BY <1>2 DEF Request, DialFails
<1>3. \/ counted /\ made' = [made EXCEPT ![Job].dials = Tally(@, MaxDials)]
      \/ ~counted /\ UNCHANGED made
  BY DEF DialFails
<1>15. (c = 1 /\ counted) \/ (c = 0 /\ ~counted)
  OBVIOUS
<1>6. st \in {"retry", "failed", "reformat"} /\ st # "reformat"
  OBVIOUS
<1> HIDE DEF c, counted, f
<1>7. Fields(q1, q.items, q.status, q.npages, q.totdials, q.tottries)
  BY <1>2, <1>4, Own, PutNdials
<1> HIDE DEF q1, e, st
<1>8. Fields(q2, q.items, q.status, q.npages, q.totdials + c, q.tottries)
  BY <1>4, <1>7, PutTotdials
<1> HIDE DEF q2
<1>9. Fields(r, q.items, q.status, q.npages, q.totdials + c, q.tottries)
  BY <1>4, <1>8, PutErrorcode
<1> HIDE DEF r
<1>16. made \in Tallies /\ MaxDials \in Nat /\ q.totdials \in Nat
  BY <1>2, SendAssumptions DEF Base, TypeOK, Tallies, Request
<1>17. made' \in Tallies
  BY <1>2, <1>3, <1>16 DEF Tallies, Tally
<1>18. Tallied(q, r)
  <2>1. CASE counted
    <3>1. made' = [made EXCEPT ![Job].dials = Tally(@, MaxDials)] /\ c = 1
      BY <2>1, <1>3, <1>15
    <3>2. /\ \A k \in Jobs \ {Job} : made'[k] = made[k]
          /\ made'[Job].dials <= made[Job].dials + 1 /\ made'[Job].tries = made[Job].tries
      BY <3>1, <1>2, <1>16 DEF Tallies, Tally
    <3> QED  BY <3>1, <3>2, <1>1, <1>9 DEF Tallied, Fields, DialFails
  <2>2. CASE ~counted
    <3>1. UNCHANGED made /\ c = 0
      BY <2>2, <1>3, <1>15
    <3> QED  BY <3>1, <1>9, <1>16 DEF Tallied, Fields
  <2> QED  BY <2>1, <2>2
<1>10. UNCHANGED <<state, writers, got>> /\ Env
  BY <1>17 DEF DialFails, Env, Base, TypeOK
<1>11. Below(q) => Within(r)
  BY <1>2, <1>9, <1>15, SendAssumptions DEF Fields, Below, Within, Request
<1>12. r \in Request /\ r.npages = q.npages /\ r.items = Rest(q.items)
  BY <1>1, <1>9, RestSame DEF Fields
<1> HIDE DEF q
<1>13. q = fs.req
  BY DEF q
<1> QED  BY <1>1, <1>4, <1>5, <1>6, <1>10, <1>11, <1>12, <1>13, <1>18, StopEnds

LEMMA AbortedDialEnds ==
  ASSUME Base, AbortedDial
  PROVE  Ending
<1>1. OnCall /\ ~At("page") /\ fs.pc \notin {"off", "exit"}
  BY DEF AbortedDial, OnCall, At
<1>2. /\ fs.req \in Request /\ Finish(Judged([fs.req EXCEPT !.status = "retry"]), FALSE)
      /\ fs.req.items = Rest(fs.req.items) /\ Job \in Jobs
  BY <1>1, CallFacts, RestSame DEF AbortedDial, Stop
<1>3. UNCHANGED <<state, writers, got>> /\ Env
  <2>1. made \in Tallies /\ MaxDials \in Nat
    BY SendAssumptions DEF Base, TypeOK, Tallies
  <2>2. made' \in Tallies
    BY <2>1, <1>2 DEF AbortedDial, Tallies, Tally
  <2> QED  BY <2>2 DEF AbortedDial, Env, Base, TypeOK
<1>4. ~NoExcess'
  <2>1. fs.abort => "abort" \in faults
    BY <1>1, CallFacts DEF Placed
  <2> QED  BY <2>1, <1>3 DEF AbortedDial, NoExcess, Env
<1> QED  BY <1>1, <1>2, <1>3, <1>4, StopEnds

\* The prologue fails, or the two sides have no format in common.
LEMMA PrologueEnds ==
  ASSUME Base, PrologueFails \/ Incapable
  PROVE  Ending
<1> DEFINE q == fs.req
           r == [q EXCEPT !.errorcode = "other"]
<1>1. OnCall /\ ~At("page") /\ fs.pc \notin {"off", "exit"}
  BY DEF PrologueFails, Incapable, OnCall, At
<1>2. q \in Request
  BY <1>1, CallFacts
<1>3. PICK st \in {"retry", "failed"} : Finish(Judged([r EXCEPT !.status = st]), FALSE)
  BY DEF PrologueFails, Incapable, Stop
<1>4. Fields(r, q.items, q.status, q.npages, q.totdials, q.tottries)
  BY <1>2, Own, PutErrorcode
<1> HIDE DEF r
<1>5. /\ r \in Request /\ r.npages = q.npages /\ r.items = Rest(q.items)
      /\ (Within(q) => Within(r)) /\ Tallied(q, r)
  <2>1. UNCHANGED made
    BY DEF PrologueFails, Incapable
  <2> QED  BY <2>1, <1>1, <1>4, RestSame DEF Fields, Within, Tallied
<1>6. UNCHANGED <<state, writers, got>> /\ Env
  BY EnvSame DEF PrologueFails, Incapable
<1> QED  BY <1>1, <1>3, <1>5, <1>6, StopEnds

LEMMA FormatRefusedEnds ==
  ASSUME Base, FormatRefused
  PROVE  Ending
<1>1. OnCall /\ ~At("page") /\ fs.pc \notin {"off", "exit"}
  BY DEF FormatRefused, OnCall, At
<1>2. PICK st \in {"reformat", "failed"} : Finish(Judged([fs.req EXCEPT !.status = st]), FALSE)
  BY DEF FormatRefused, Stop
<1>5. Tallied(fs.req, fs.req)
  BY DEF FormatRefused, Tallied
<1>3. fs.req \in Request /\ fs.req.items = Rest(fs.req.items)
  BY <1>1, CallFacts, RestSame
<1>4. UNCHANGED <<state, writers, got>> /\ Env /\ "format" \in faults'
  BY EnvMay DEF FormatRefused
<1> QED  BY <1>1, <1>2, <1>3, <1>4, <1>5, StopEnds

LEMMA VanishedEnds ==
  ASSUME Base, DocumentVanished, fs.req.status # "done"
  PROVE  Ending
<1>1. OnCall /\ ~At("page") /\ fs.pc \notin {"off", "exit"}
  BY DEF DocumentVanished, OnCall, At
<1>2. /\ Finish(Judged([fs.req EXCEPT !.status = "retry"]), FALSE)
      /\ Tallied(fs.req, fs.req)
  BY DEF DocumentVanished, Stop, Tallied
<1>3. fs.req \in Request /\ fs.req.items = Rest(fs.req.items)
  BY <1>1, CallFacts, RestSame
<1>4. UNCHANGED <<state, writers, got>> /\ Env
  BY EnvMay DEF DocumentVanished
<1> QED  BY <1>1, <1>2, <1>3, <1>4, StopEnds

LEMMA NoMoreDocumentsEnds ==
  ASSUME Base, NoMoreDocuments
  PROVE  Ending
<1> DEFINE q == fs.req
           x == Judged(q)
<1>1. /\ At("document") /\ ~At("page") /\ ~At("file") /\ fs.pc \notin {"off", "exit"}
      /\ q.items = <<>> /\ Current = q /\ fs.pc \notin {"file", "dial"}
  BY DEF NoMoreDocuments, At, Current
<1>2. /\ fs \in Call /\ q \in Request /\ q.status \in {"retry", "done"}
      /\ fs.abort => "abort" \in faults
  BY <1>1, CallFacts DEF Placed, At
<1>3. /\ Fields(x, q.items, x.status, q.npages, q.totdials, q.tottries)
      /\ x.status = "done" => q.status = "done"
      /\ x.status # "reformat"
      /\ ~fs.abort /\ Within(q) /\ x.status = "retry" => Below(q)
  BY <1>2, Own, JudgedFacts, SendAssumptions
<1>4. Finish(x, FALSE) /\ UNCHANGED <<state, writers, got, made>> /\ Env
  BY EnvSame DEF NoMoreDocuments
<1> HIDE DEF x
<1>5. x \in Request /\ Ended(x)
  BY <1>2, <1>3, <1>4, FinishEnds DEF Fields
<1>6. ASSUME NoExcess', Within(q)
      PROVE  Within(x) /\ (x.status = "retry" => Below(x))
  <2>1. ~fs.abort
    BY <1>2, <1>4, <1>6 DEF NoExcess, Env
  <2> QED  BY <2>1, <1>3, <1>6 DEF Fields, Within, Below
<1>7. Outcome(Current, x)
  BY <1>1, <1>3, <1>4, <1>5, <1>6, RestSame DEF Outcome, Fields, Tallied
<1> QED  BY <1>1, <1>4, <1>5, <1>7 DEF Ending

LEMMA ItemsAdvanced ==
  ASSUME NEW items \in Items, items # <<>>, NEW n \in Nat
  PROVE  [items EXCEPT ![1].dirnum = @ + n] \in Items
<1> DEFINE e == [items[1] EXCEPT !.dirnum = @ + n]
<1>1. Len(items) \in Nat /\ 1 \in 1..Len(items) /\ DOMAIN items = 1..Len(items)
  BY EmptySeq, LenProperties DEF Items
<1>2. items[1] \in [doc : Nat, dirnum : Nat]
  BY <1>1, ElementOfSeq DEF Items
<1>3. e \in [doc : Nat, dirnum : Nat]
  BY <1>2
<1> HIDE DEF e
<1>4. [items EXCEPT ![1] = e] \in Items
  BY <1>1, <1>3, ExceptSeq DEF Items
<1> QED  BY <1>4 DEF e

LEMMA PhaseBFailsEnds ==
  ASSUME Base, PhaseBFails
  PROVE  Ending
<1> DEFINE q == fs.req
           a == Advanced(q)
           r == [a EXCEPT !.errorcode = "other"]
<1>1. OnCall /\ At("page") /\ ~At("dial") /\ fs.pc \notin {"off", "exit"} /\ fs.pc = "page"
  BY DEF PhaseBFails, OnCall, At
<1>2. fs \in Call /\ q \in Request /\ fs.page \in Nat /\ q.items # <<>> /\ q.items \in Items
  BY <1>1, CallFacts DEF Placed, Items, Request
<1>3. Fields(a, Rest(q.items), q.status, q.npages, q.totdials, q.tottries)
  <2>1. CASE fs.page = 0
    <3>1. Rest(q.items) = q.items
      BY <2>1 DEF Rest
    <3>2. q.ntries + 1 \in Nat
      BY <1>2 DEF Request
    <3>3. a = [q EXCEPT !.ntries = q.ntries + 1]
      BY <2>1 DEF Advanced
    <3> QED  BY <1>2, <3>1, <3>2, <3>3, Own, PutNtries
  <2>2. CASE fs.page # 0
    <3> DEFINE q1 == [q EXCEPT !.ntries = 0]
               i == [q.items EXCEPT ![1].dirnum = @ + fs.page]
    <3>1. Rest(q.items) = i
      BY <1>1, <2>2 DEF Rest
    <3>2. Fields(q1, q.items, q.status, q.npages, q.totdials, q.tottries)
      BY <1>2, Own, PutNtries
    <3>3. a = [q1 EXCEPT !.items = i]
      BY <1>2, <2>2 DEF Advanced, Request
    <3>4. i \in Items
      BY <1>2, ItemsAdvanced
    <3> HIDE DEF q1, i
    <3> QED  BY <3>1, <3>2, <3>3, <3>4, PutItems
  <2> QED  BY <2>1, <2>2
<1> HIDE DEF a
<1>4. Fields(r, Rest(q.items), q.status, q.npages, q.totdials, q.tottries)
  BY <1>3, PutErrorcode
<1>5. PICK status \in {"retry", "failed", "trouble", "batchfail"} :
        /\ Stop(r, IF status = "failed" \/ r.ntries > 2 THEN "failed" ELSE "retry")
        /\ info' = [info EXCEPT !.batching = @ /\ (status # "batchfail" \/ r.ntries > 2)]
  BY DEF PhaseBFails, a
<1>6. PICK st \in {"retry", "failed"} : Finish(Judged([r EXCEPT !.status = st]), FALSE)
  BY <1>5 DEF Stop
<1>7. UNCHANGED <<state, writers, got>> /\ Env
  BY <1>5 DEF PhaseBFails, Env, Base, TypeOK, Tallies
<1> HIDE DEF r
<1>8. /\ r \in Request /\ r.npages = q.npages /\ r.items = Rest(q.items)
      /\ (Within(q) => Within(r)) /\ Tallied(q, r)
  BY <1>4 DEF Fields, Within, Tallied, PhaseBFails
<1> QED  BY <1>1, <1>6, <1>7, <1>8, StopEnds
-----------------------------------------------------------------------------
(* The steps of a call, in the same terms *)

Starting ==
  /\ fs = Off
  /\ \E b \in Seq(Jobs) :
       /\ b # <<>> /\ IsInjective(b) /\ \A i \in 1..Len(b) : state[b[i]] = "ready"
       /\ ~(qfile[b[1]].totdials >= MaxDials)
       /\ Shape(fs', "file", b, 1, "done", qfile[b[1]], 0, FALSE, FALSE, FALSE)
  /\ UNCHANGED <<qfile, state, writers, got, made, faults>> /\ Env

Reading ==
  /\ fs.pc = "file" /\ fs.status = "done"
  /\ Moved("dial", fs.page, TRUE, fs.connected) /\ fs'.req = qfile[Job]
  /\ UNCHANGED <<qfile, state, writers, got, made, faults>> /\ Env

Dialing ==
  /\ fs.pc = "dial" /\ Moved("prologue", fs.page, fs.locked, TRUE)
  /\ Fields(fs'.req, fs.req.items, fs.req.status, fs.req.npages, fs.req.totdials + 1,
            fs.req.tottries + 1)
  /\ \A j \in Jobs \ {Job} : made'[j] = made[j]
  /\ made'[Job].dials <= made[Job].dials + (IF IsFirst THEN 1 ELSE 0)
  /\ made'[Job].tries <= made[Job].tries + 1
  /\ UNCHANGED <<qfile, state, writers, got, faults>> /\ Env

SettingUp ==
  /\ fs.pc = "prologue" /\ Moved("document", fs.page, fs.locked, fs.connected)
  /\ Fields(fs'.req, fs.req.items, "retry", fs.req.npages, fs.req.totdials, fs.req.tottries)
  /\ UNCHANGED <<qfile, state, writers, got, made, faults>> /\ Env

Opening ==
  /\ fs.pc = "document" /\ fs.req.items # <<>>
  /\ Moved("page", 0, fs.locked, fs.connected)
  /\ Fields(fs'.req, fs.req.items, "done", fs.req.npages, fs.req.totdials, fs.req.tottries)
  /\ UNCHANGED <<qfile, state, writers, got, made, faults>> /\ Env

Delivering ==
  /\ \/ fs.pc = "page" /\ fs.page = PagesToSend
     \/ fs.pc = "document" /\ "vanish" \in faults'
  /\ fs.req.items # <<>> /\ fs.req.status = "done"
  /\ Moved("document", fs.page, fs.locked, fs.connected)
  /\ Fields(fs'.req, Tail(fs.req.items), "done", fs.req.npages, fs.req.totdials,
            fs.req.tottries)
  /\ qfile' = [qfile EXCEPT ![Job] = fs'.req]
  /\ UNCHANGED <<state, writers, got, made>> /\ Env

Confirming ==
  /\ fs.pc = "page" /\ fs.page < PagesToSend
  /\ Moved("page", fs.page + 1, fs.locked, fs.connected)
  /\ Fields(fs'.req, fs.req.items, "done", fs.req.npages + 1, fs.req.totdials,
            fs.req.tottries)
  /\ got' = [got EXCEPT ![Job][<<Document.doc, Document.dirnum + fs.page + 1>>] = @ + 1]
  /\ \E w \in Request :
       /\ Fields(w, fs.req.items, "done", fs.req.npages + 1, fs.req.totdials,
                 fs.req.tottries)
       /\ \/ qfile' = [qfile EXCEPT ![Job] = w] /\ UNCHANGED <<writers, faults>>
          \/ /\ writers' = writers \cup {[job |-> Job, req |-> w, page |-> w.npages]}
             /\ "slow" \in faults' /\ UNCHANGED qfile
  /\ UNCHANGED <<state, made>> /\ Env

Aborting ==
  /\ OnCall /\ "abort" \in faults'
  /\ Shape(fs', fs.pc, fs.batch, fs.cur, fs.status, fs.req, fs.page, fs.locked,
           fs.connected, TRUE)
  /\ UNCHANGED <<qfile, state, writers, got, made>> /\ Env

\* faxsend dies, or leaves because the modem does not get ready.
Crashing ==
  /\ \/ fs.pc \notin {"off", "exit"} /\ "crash" \in faults' /\ "crash" \notin faults
     \/ fs.pc = "file" /\ fs.cur = 1 /\ UNCHANGED faults
  /\ Shape(fs', "exit", fs.batch, fs.cur, fs.status, fs.req, fs.page, fs.locked,
           fs.connected, fs.abort)
  /\ UNCHANGED <<qfile, state, writers, got, made>> /\ Env

LEMMA StartStarts ==
  ASSUME Base, Start
  PROVE  Starting
<1>1. fs.pc = "off" /\ fs = Off
  BY OffFacts DEF Start, At
<1>2. PICK b \in Batches :
        fs' = [pc |-> "file", batch |-> b, cur |-> 1, status |-> "done",
               callFailed |-> FALSE, req |-> qfile[b[1]], page |-> 0, setup |-> FALSE,
               locked |-> FALSE, connected |-> FALSE, abort |-> FALSE]
  BY DEF Start
<1>3. b \in Seq(Ready) /\ b # <<>> /\ IsInjective(b)
  <2>1. PICK m \in Nat : b \in [1..m -> Ready]
    BY SendAssumptions DEF Batches, SeqOf
  <2> QED  BY <2>1, SeqDef DEF Batches
<1>4. Ready \subseteq Jobs
  BY DEF Ready
<1>5. b \in Seq(Jobs)
  BY <1>3, <1>4, SeqMonotonic
<1>6. \A i \in 1..Len(b) : state[b[i]] = "ready" /\ b[i] \in Jobs
  BY <1>3, ElementOfSeq DEF Ready
<1>7. qfile[b[1]] \in Request
  <2>1. 1 \in 1..Len(b)
    BY <1>5, <1>3, EmptySeq
  <2> QED  BY <2>1, <1>6 DEF Base, TypeOK
<1>8. Shape(fs', "file", b, 1, "done", qfile[b[1]], 0, FALSE, FALSE, FALSE)
  BY <1>2, <1>5, <1>7 DEF Shape, Call, Pcs, Statuses
<1>9. UNCHANGED <<qfile, state, writers, got, made, faults>> /\ Env
  BY EnvSame DEF Start
<1>10. ~(qfile[b[1]].totdials >= MaxDials)
  BY DEF Batches, Exhausted
<1> QED  BY <1>1, <1>3, <1>5, <1>6, <1>8, <1>9, <1>10 DEF Starting

LEMMA ReadQFileReads ==
  ASSUME Base, ReadQFile
  PROVE  Reading
<1> DEFINE q == qfile[Job]
           g == [fs EXCEPT !.pc = "dial"]
           h == [g EXCEPT !.req = q]
           f == [h EXCEPT !.locked = TRUE]
<1>1. fs.pc = "file" /\ fs.status = "done" /\ fs.pc \notin {"off", "exit"}
  BY DEF ReadQFile, At
<1>2. fs \in Call /\ q \in Request
  BY <1>1, CallFacts, QfileType
<1>3. fs' = f
  BY <1>2 DEF ReadQFile, Call
<1> HIDE DEF q
<1>4. Shape(g, "dial", fs.batch, fs.cur, fs.status, fs.req, fs.page, fs.locked, fs.connected, fs.abort)
  BY <1>2, OwnShape, SetPc DEF Pcs
<1> HIDE DEF g
<1>5. Shape(h, "dial", fs.batch, fs.cur, fs.status, q, fs.page, fs.locked, fs.connected, fs.abort)
  BY <1>2, <1>4, SetReq
<1> HIDE DEF h
<1>6. Shape(f, "dial", fs.batch, fs.cur, fs.status, q, fs.page, TRUE, fs.connected, fs.abort)
  BY <1>5, SetLocked
<1>7. UNCHANGED <<qfile, state, writers, got, made, faults>> /\ Env
  BY EnvSame DEF ReadQFile
<1> QED  BY <1>1, <1>3, <1>6, <1>7 DEF Reading, Moved, Shape, q

LEMMA DialDials ==
  ASSUME Base, Dial
  PROVE  Dialing
<1> DEFINE q == fs.req
           d == q.totdials + 1
           t == q.tottries + 1
           r1 == [q EXCEPT !.ndials = 0]
           r2 == [r1 EXCEPT !.tottries = t]
           r3 == [r2 EXCEPT !.totdials = d]
           g == [fs EXCEPT !.pc = "prologue"]
           h == [g EXCEPT !.connected = TRUE]
           f == [h EXCEPT !.req = r3]
<1>1. fs.pc = "dial" /\ fs.pc \notin {"off", "exit"}
  BY DEF Dial, At
<1>2. fs \in Call /\ q \in Request
  BY <1>1, CallFacts
<1>3. d \in Nat /\ t \in Nat
  BY <1>2 DEF Request
<1>14. made \in Tallies /\ Job \in Jobs /\ MaxDials \in Nat /\ MaxTries \in Nat
  BY <1>1, CallFacts, SendAssumptions DEF Base, TypeOK, Tallies
<1>15. MadeCall
  BY DEF Dial
<1>4. fs' = f
  BY <1>2 DEF Dial, Call, Request
<1>5. Fields(r1, q.items, q.status, q.npages, q.totdials, q.tottries)
  BY <1>2, Own, PutNdials
<1> HIDE DEF r1, d, t
<1>6. Fields(r2, q.items, q.status, q.npages, q.totdials, t)
  BY <1>3, <1>5, PutTottries
<1> HIDE DEF r2
<1>7. Fields(r3, q.items, q.status, q.npages, d, t)
  BY <1>3, <1>6, PutTotdials
<1> HIDE DEF r3
<1>8. Shape(g, "prologue", fs.batch, fs.cur, fs.status, fs.req, fs.page, fs.locked, fs.connected, fs.abort)
  BY <1>2, OwnShape, SetPc DEF Pcs
<1> HIDE DEF g
<1>9. Shape(h, "prologue", fs.batch, fs.cur, fs.status, fs.req, fs.page, fs.locked, TRUE, fs.abort)
  BY <1>8, SetConnected
<1> HIDE DEF h
<1>10. Shape(f, "prologue", fs.batch, fs.cur, fs.status, r3, fs.page, fs.locked, TRUE, fs.abort)
  BY <1>7, <1>9, SetReq DEF Fields
<1> HIDE DEF f
<1>11. Moved("prologue", fs.page, fs.locked, TRUE) /\ fs'.req = r3
  BY <1>4, <1>10 DEF Moved, Shape
<1>13. made' \in Tallies /\ \A j \in Jobs \ {Job} : made'[j] = made[j]
  BY <1>14, <1>15 DEF Tallies, MadeCall, Tally
<1>16. /\ made'[Job].dials <= made[Job].dials + (IF IsFirst THEN 1 ELSE 0)
       /\ made'[Job].tries <= made[Job].tries + 1
  BY <1>14, <1>15 DEF Tallies, MadeCall, Tally
<1>12. UNCHANGED <<qfile, state, writers, got, faults>> /\ Env
  BY <1>13 DEF Dial, Env, Base, TypeOK
<1> QED  BY <1>1, <1>7, <1>11, <1>12, <1>13, <1>16 DEF Dialing, d, t

LEMMA PrologueSetsUp ==
  ASSUME Base, Prologue
  PROVE  SettingUp
<1> DEFINE q == fs.req
           r == [q EXCEPT !.status = "retry"]
           g == [fs EXCEPT !.pc = "document"]
           h == [g EXCEPT !.req = r]
           f == [h EXCEPT !.setup = TRUE]
<1>1. fs.pc = "prologue" /\ fs.pc \notin {"off", "exit"}
  BY DEF Prologue, At
<1>2. fs \in Call /\ q \in Request
  BY <1>1, CallFacts
<1>3. fs' = f
  BY <1>2 DEF Prologue, Call, Request
<1>4. Fields(r, q.items, "retry", q.npages, q.totdials, q.tottries)
  BY <1>2, Own, PutStatus DEF Statuses
<1> HIDE DEF r
<1>5. Shape(g, "document", fs.batch, fs.cur, fs.status, fs.req, fs.page, fs.locked, fs.connected, fs.abort)
  BY <1>2, OwnShape, SetPc DEF Pcs
<1> HIDE DEF g
<1>6. Shape(h, "document", fs.batch, fs.cur, fs.status, r, fs.page, fs.locked, fs.connected, fs.abort)
  BY <1>4, <1>5, SetReq DEF Fields
<1> HIDE DEF h
<1>7. Shape(f, "document", fs.batch, fs.cur, fs.status, r, fs.page, fs.locked, fs.connected, fs.abort)
  BY <1>6, SetSetup
<1> HIDE DEF f
<1>8. Moved("document", fs.page, fs.locked, fs.connected) /\ fs'.req = r
  BY <1>3, <1>7 DEF Moved, Shape
<1>9. UNCHANGED <<qfile, state, writers, got, made, faults>> /\ Env
  BY EnvSame DEF Prologue
<1> QED  BY <1>1, <1>4, <1>8, <1>9 DEF SettingUp

LEMMA OpenDocumentOpens ==
  ASSUME Base, OpenDocument
  PROVE  Opening
<1> DEFINE q == fs.req
           r == [q EXCEPT !.status = "done"]
           g == [fs EXCEPT !.pc = "page"]
           h == [g EXCEPT !.page = 0]
           f == [h EXCEPT !.req = r]
<1>1. fs.pc = "document" /\ fs.pc \notin {"off", "exit"} /\ fs.req.items # <<>>
  BY DEF OpenDocument, At
<1>2. fs \in Call /\ q \in Request
  BY <1>1, CallFacts
<1>3. fs' = f
  BY <1>2 DEF OpenDocument, Call, Request
<1>4. Fields(r, q.items, "done", q.npages, q.totdials, q.tottries)
  BY <1>2, Own, PutStatus DEF Statuses
<1> HIDE DEF r
<1>5. Shape(g, "page", fs.batch, fs.cur, fs.status, fs.req, fs.page, fs.locked, fs.connected, fs.abort)
  BY <1>2, OwnShape, SetPc DEF Pcs
<1> HIDE DEF g
<1>6. Shape(h, "page", fs.batch, fs.cur, fs.status, fs.req, 0, fs.locked, fs.connected, fs.abort)
  BY <1>5, SetPage
<1> HIDE DEF h
<1>7. Shape(f, "page", fs.batch, fs.cur, fs.status, r, 0, fs.locked, fs.connected, fs.abort)
  BY <1>4, <1>6, SetReq DEF Fields
<1> HIDE DEF f
<1>8. Moved("page", 0, fs.locked, fs.connected) /\ fs'.req = r
  BY <1>3, <1>7 DEF Moved, Shape
<1>9. UNCHANGED <<qfile, state, writers, got, made, faults>> /\ Env
  BY EnvSame DEF OpenDocument
<1> QED  BY <1>1, <1>4, <1>8, <1>9 DEF Opening

LEMMA TailItems ==
  ASSUME NEW items \in Items, items # <<>>
  PROVE  Tail(items) \in Items
BY HeadTailProperties DEF Items

LEMMA DeliveredFacts ==
  ASSUME fs \in Call, NEW r, NEW i \in Items, NEW n, NEW d, NEW t,
         Fields(r, i, "done", n, d, t), i # <<>>, Delivered(r)
  PROVE  /\ Moved("document", fs.page, fs.locked, fs.connected)
         /\ Fields(fs'.req, Tail(i), "done", n, d, t)
         /\ qfile' = [qfile EXCEPT ![Job] = fs'.req]
<1> DEFINE r1 == [r EXCEPT !.items = Tail(i)]
           r2 == [r1 EXCEPT !.errorcode = "other"]
           g == [fs EXCEPT !.req = r2]
           h == [g EXCEPT !.setup = FALSE]
           f == [h EXCEPT !.pc = "document"]
<1>1. Tail(i) \in Items
  BY TailItems
<1>2. fs' = f /\ qfile' = [qfile EXCEPT ![Job] = r2]
  BY DEF Delivered, Write, Call, Fields, Request
<1>3. Fields(r1, Tail(i), "done", n, d, t)
  BY <1>1, PutItems
<1> HIDE DEF r1
<1>4. Fields(r2, Tail(i), "done", n, d, t)
  BY <1>3, PutErrorcode
<1> HIDE DEF r2
<1>5. Shape(g, fs.pc, fs.batch, fs.cur, fs.status, r2, fs.page, fs.locked, fs.connected, fs.abort)
  BY <1>4, OwnShape, SetReq DEF Fields
<1> HIDE DEF g
<1>6. Shape(h, fs.pc, fs.batch, fs.cur, fs.status, r2, fs.page, fs.locked, fs.connected, fs.abort)
  BY <1>5, SetSetup
<1> HIDE DEF h
<1>7. Shape(f, "document", fs.batch, fs.cur, fs.status, r2, fs.page, fs.locked, fs.connected, fs.abort)
  BY <1>6, SetPc DEF Pcs
<1> HIDE DEF f
<1>8. Moved("document", fs.page, fs.locked, fs.connected) /\ fs'.req = r2
  BY <1>2, <1>7 DEF Moved, Shape
<1> QED  BY <1>2, <1>4, <1>8

LEMMA VanishedDelivers ==
  ASSUME Base, DocumentVanished, fs.req.status = "done"
  PROVE  Delivering
<1>1. fs.pc = "document" /\ fs.pc \notin {"off", "exit"} /\ fs.req.items # <<>>
  BY DEF DocumentVanished, At
<1>2. fs \in Call /\ fs.req \in Request /\ fs.req.items \in Items
  BY <1>1, CallFacts DEF Request, Items
<1>3. Fields(fs.req, fs.req.items, "done", fs.req.npages, fs.req.totdials, fs.req.tottries)
  BY <1>2, Own
<1>4. Delivered(fs.req)
  BY DEF DocumentVanished
<1>5. UNCHANGED <<state, writers, got, made>> /\ Env /\ "vanish" \in faults'
  BY EnvMay DEF DocumentVanished
<1> QED  BY <1>1, <1>2, <1>3, <1>4, <1>5, DeliveredFacts DEF Delivering

LEMMA DocumentSentDelivers ==
  ASSUME Base, DocumentSent
  PROVE  Delivering
<1> DEFINE q == fs.req
           r == [q EXCEPT !.ntries = 0]
<1>1. fs.pc = "page" /\ fs.pc \notin {"off", "exit"} /\ fs.page = PagesToSend
  BY DEF DocumentSent, At
<1>2. /\ fs \in Call /\ q \in Request /\ q.items \in Items
      /\ q.items # <<>> /\ q.status = "done"
  BY <1>1, CallFacts DEF Request, Items, Placed
<1>3. Fields(r, q.items, "done", q.npages, q.totdials, q.tottries)
  BY <1>2, Own, PutNtries
<1>4. Delivered(r)
  BY DEF DocumentSent
<1>5. UNCHANGED <<state, writers, got, made>> /\ Env
  BY EnvSame DEF DocumentSent
<1> HIDE DEF r
<1> QED  BY <1>1, <1>2, <1>3, <1>4, <1>5, DeliveredFacts DEF Delivering

LEMMA PageConfirms ==
  ASSUME Base, PageConfirmed
  PROVE  Confirming
<1> DEFINE q == fs.req
           n == q.npages + 1
           r == [q EXCEPT !.npages = n]
           w == [r EXCEPT !.errorcode = "other"]
           g == [fs EXCEPT !.page = fs.page + 1]
           f == [g EXCEPT !.req = r]
<1>1. fs.pc = "page" /\ fs.pc \notin {"off", "exit"} /\ fs.page < PagesToSend
  BY DEF PageConfirmed, At
<1>2. /\ fs \in Call /\ q \in Request /\ fs.page \in Nat
      /\ q.items # <<>> /\ q.status = "done"
  BY <1>1, CallFacts DEF Placed
<1>3. n \in Nat /\ fs.page + 1 \in Nat
  <2>1. q.npages \in Nat
    BY <1>2 DEF Request
  <2> HIDE DEF q
  <2> QED  BY <1>2, <2>1
<1>4. fs' = f /\ PageSent = r
  BY <1>2 DEF PageConfirmed, PageSent, Call, Request
<1>5. /\ \/ qfile' = [qfile EXCEPT ![Job] = w] /\ UNCHANGED <<writers, faults>>
         \/ /\ writers' = writers \cup {[job |-> Job, req |-> w, page |-> w.npages]}
            /\ May("slow") /\ UNCHANGED qfile
      /\ got' = [got EXCEPT ![Job][<<Document.doc, Document.dirnum + fs.page + 1>>] = @ + 1]
      /\ UNCHANGED <<state, info, made>>
  BY <1>4 DEF PageConfirmed, Write
<1>6. Fields(r, q.items, "done", n, q.totdials, q.tottries)
  BY <1>2, <1>3, Own, PutNpages
<1> HIDE DEF r, n
<1>7. Fields(w, q.items, "done", n, q.totdials, q.tottries)
  BY <1>6, PutErrorcode
<1> HIDE DEF w
<1>8. Shape(g, "page", fs.batch, fs.cur, fs.status, fs.req, fs.page + 1, fs.locked, fs.connected, fs.abort)
  BY <1>1, <1>2, <1>3, OwnShape, SetPage
<1> HIDE DEF g
<1>9. Shape(f, "page", fs.batch, fs.cur, fs.status, r, fs.page + 1, fs.locked, fs.connected, fs.abort)
  BY <1>6, <1>8, SetReq DEF Fields
<1> HIDE DEF f
<1>10. Moved("page", fs.page + 1, fs.locked, fs.connected) /\ fs'.req = r
  BY <1>4, <1>9 DEF Moved, Shape
<1>11. Env /\ (May("slow") => "slow" \in faults')
  BY <1>5, EnvSame, EnvMay
<1>12. w \in Request
  BY <1>7 DEF Fields
<1> QED  BY <1>1, <1>5, <1>6, <1>7, <1>10, <1>11, <1>12 DEF Confirming, n

LEMMA AbortAborts ==
  ASSUME Base, Abort
  PROVE  Aborting
<1>1. OnCall /\ fs.pc # "off"
  BY DEF Abort, OnCall
<1>2. fs' = [fs EXCEPT !.abort = TRUE] /\ fs \in Call
  BY <1>1, CallFacts DEF Abort
<1>3. Shape(fs', fs.pc, fs.batch, fs.cur, fs.status, fs.req, fs.page, fs.locked, fs.connected, TRUE)
  BY <1>2, OwnShape, SetAbort
<1>4. UNCHANGED <<qfile, state, writers, got, made>> /\ Env /\ "abort" \in faults'
  BY EnvMay DEF Abort
<1> QED  BY <1>1, <1>3, <1>4 DEF Aborting

LEMMA CrashCrashes ==
  ASSUME Base, Crash \/ NotReady
  PROVE  Crashing
<1>1. fs.pc \notin {"off", "exit"} /\ fs' = [fs EXCEPT !.pc = "exit"] /\ fs \in Call
  BY CallFacts DEF Crash, NotReady, At
<1>2. Shape(fs', "exit", fs.batch, fs.cur, fs.status, fs.req, fs.page, fs.locked, fs.connected, fs.abort)
  BY <1>1, OwnShape, SetPc DEF Pcs
<1>3. CASE Crash
  <2>1. /\ UNCHANGED <<qfile, state, writers, got, made>> /\ Env
        /\ "crash" \in faults' /\ "crash" \notin faults
    BY <1>3, EnvMay DEF Crash
  <2> QED  BY <2>1, <1>1, <1>2 DEF Crashing
<1>4. CASE NotReady
  <2>1. UNCHANGED <<qfile, state, writers, got, made, faults>> /\ Env /\ fs.pc = "file" /\ fs.cur = 1
    BY <1>4, EnvSame DEF NotReady, At, IsFirst
  <2> QED  BY <2>1, <1>1, <1>2 DEF Crashing
<1> QED  BY <1>3, <1>4

\* Every step is of one of these kinds.
LEMMA Effects ==
  ASSUME Base, [Next]_vars
  PROVE  \/ Starting \/ Reject \/ Reading \/ Dialing \/ SettingUp \/ Opening \/ Delivering
         \/ Confirming \/ Ending \/ Aborting \/ Crashing \/ SlowWrite \/ SendJobDone
         \/ UNCHANGED vars
<1>1. CASE Start  BY <1>1, StartStarts
<1>2. CASE Send
  <2>1. CASE Blocked  BY <2>1, BlockedEnds
  <2>2. CASE ReadQFile  BY <2>2, ReadQFileReads
  <2>3. CASE SetupFails  BY <2>3, SetupFailsEnds
  <2>4. CASE Dial  BY <2>4, DialDials
  <2>5. ASSUME NEW callstat \in CallStatuses, DialFails(callstat) PROVE Ending
    BY <2>5, DialFailsEnds
  <2>6. CASE AbortedDial  BY <2>6, AbortedDialEnds
  <2>7. CASE Prologue  BY <2>7, PrologueSetsUp
  <2>8. CASE PrologueFails \/ Incapable  BY <2>8, PrologueEnds
  <2>9. CASE OpenDocument  BY <2>9, OpenDocumentOpens
  <2>10. CASE DocumentSent  BY <2>10, DocumentSentDelivers
  <2>11. CASE PageConfirmed  BY <2>11, PageConfirms
  <2>12. CASE PhaseBFails  BY <2>12, PhaseBFailsEnds
  <2>13. CASE NoMoreDocuments  BY <2>13, NoMoreDocumentsEnds
  <2> QED
    BY <1>2, <2>1, <2>2, <2>3, <2>4, <2>5, <2>6, <2>7, <2>8, <2>9, <2>10, <2>11, <2>12,
       <2>13 DEF Send
<1>3. CASE CannotLock  BY <1>3, CannotLockEnds
<1>4. CASE FormatRefused  BY <1>4, FormatRefusedEnds
<1>5. CASE DocumentVanished  BY <1>5, VanishedEnds, VanishedDelivers
<1>6. CASE Abort  BY <1>6, AbortAborts
<1>7. CASE Crash  BY <1>7, CrashCrashes
<1>8. CASE AllOver  BY <1>8 DEF AllOver
<1>9. CASE NotReady  BY <1>9, CrashCrashes
<1> QED  BY <1>1, <1>2, <1>3, <1>4, <1>5, <1>6, <1>7, <1>8, <1>9 DEF Next
-----------------------------------------------------------------------------
(* Base is an invariant *)

LEMMA TypeKept ==
  ASSUME Base, Env, fs' \in Call, qfile' \in [Jobs -> Request], UNCHANGED <<state, got>>,
         \A w \in writers' : w.job \in Jobs /\ w.req \in Request
  PROVE  TypeOK'
BY DEF Base, TypeOK, Env, Call, Pcs, Tallies

LEMMA WritersTyped ==
  ASSUME Base
  PROVE  \A w \in writers : w.job \in Jobs /\ w.req \in Request
BY DEF Base, TypeOK

LEMMA EndingKeepsBase ==
  ASSUME Base, Ending
  PROVE  Base'
<1>1. fs.pc \notin {"off", "exit"}
  BY DEF Ending
<1>2. PICK r \in Request : Ended(r) /\ Outcome(Current, r)
  BY DEF Ending
<1>3. UNCHANGED <<state, writers, got>> /\ Env
  BY DEF Ending
<1>4. /\ fs \in Call /\ Placed /\ fs # Off /\ Job \in Jobs
      /\ fs.cur \in 1..Len(fs.batch) /\ Len(fs.batch) \in Nat /\ fs.cur \in Nat
  BY <1>1, CallFacts
<1>5. /\ fs' \in Call /\ fs'.pc = (IF IsLast THEN "exit" ELSE "file")
      /\ fs'.batch = fs.batch /\ fs'.cur = fs.cur + 1 /\ fs'.abort = fs.abort
      /\ fs'.pc \notin {"dial", "prologue", "document", "page"}
  BY <1>2 DEF Ended, Shape
<1>6. qfile' \in [Jobs -> Request] /\ qfile' = [qfile EXCEPT ![Job] = r] /\ qfile \in [Jobs -> Request]
  BY <1>2 DEF Ended, Base, TypeOK
<1>7. fs' # Off /\ ~OnCall'
  BY <1>5 DEF Call, Pcs, Off, OnCall
<1>8. TypeOK'
  BY <1>3, <1>5, <1>6, TypeKept, WritersTyped
<1>9. Placed'
  <2>1. fs'.pc # "exit" => fs'.cur \in 1..Len(fs'.batch)
    BY <1>4, <1>5 DEF IsLast
  <2>2. fs'.cur \in 1..Len(fs'.batch) + 1
    BY <1>4, <1>5
  <2>3. fs'.abort => "abort" \in faults'
    BY <1>3, <1>4, <1>5 DEF Placed, Env
  <2> QED  BY <2>1, <2>2, <2>3, <1>3, <1>4, <1>5, <1>7 DEF Placed
<1>10. \A w \in writers' : Writing(w)'
  BY <1>3, <1>4, <1>5, <1>7 DEF Base, Writing
<1>11. writers' # {} => "slow" \in faults'
  BY <1>3 DEF Base, Env
<1>12. ASSUME NEW j \in Jobs, state'[j] = "ready", Coming(j)'
       PROVE  qfile'[j].status = "retry"
  <2>1. \A i \in 1..Len(fs.batch) : fs.batch[i] = j => i > fs.cur
    BY <1>4, <1>5, <1>7, <1>12 DEF Coming
  <2>2. j # Job
    BY <1>4, <2>1 DEF Job
  <2>3. qfile[j].status = "retry"
    BY <2>1, <1>3, <1>12 DEF Base, Coming
  <2> QED  BY <2>2, <2>3, <1>6
<1>13. "format" \notin faults' => \A j \in Jobs : qfile'[j].status # "reformat"
  BY <1>2, <1>3, <1>4, <1>6 DEF Base, Outcome, Env
<1> QED  BY <1>5, <1>8, <1>9, <1>10, <1>11, <1>12, <1>13 DEF Base

GotOK == DOMAIN got = Jobs /\ \A j \in Jobs : got[j] \in [Pages(j) -> Nat]

\* A step within the call of a job.  It writes no queue file but that of the job.
Going ==
  /\ fs.pc \notin {"off", "exit"}
  /\ fs' \in Call /\ fs'.batch = fs.batch /\ fs'.cur = fs.cur /\ fs'.status = fs.status
  /\ fs'.pc \in {"dial", "prologue", "document", "page"}
  /\ fs.pc = "file" => fs'.pc = "dial" /\ fs.status = "done"
  /\ fs'.pc = "dial" => fs.pc \in {"file", "dial"} /\ UNCHANGED qfile /\ fs'.req = qfile[Job]
  /\ fs'.pc = "document" => fs'.req.status \in {"retry", "done"}
  /\ fs'.pc = "page" => fs'.req.status = "done" /\ fs'.req.items # <<>>
  /\ fs'.abort => fs.abort \/ "abort" \in faults'
  /\ UNCHANGED state /\ Env
  /\ \/ UNCHANGED qfile
     \/ \E q \in Request : qfile' = [qfile EXCEPT ![Job] = q] /\ q.status = "done"
  /\ \/ UNCHANGED writers
     \/ /\ fs'.pc \notin {"dial"} /\ "slow" \in faults'
        /\ \E w : /\ writers' = writers \cup {w}
                  /\ w.job = Job /\ w.req \in Request /\ w.req.status = "done"
  /\ GotOK'

LEMMA GoingKeepsBase ==
  ASSUME Base, Going
  PROVE  Base'
<1>1. fs.pc \notin {"off", "exit"}
  BY DEF Going
<1>2. /\ fs \in Call /\ Placed /\ fs # Off /\ Job \in Jobs
      /\ fs.cur \in 1..Len(fs.batch) /\ Len(fs.batch) \in Nat /\ fs.cur \in Nat
  BY <1>1, CallFacts
<1>3. /\ fs' \in Call /\ fs'.batch = fs.batch /\ fs'.cur = fs.cur /\ fs'.status = fs.status
      /\ fs' # Off /\ Job' = Job /\ fs'.pc \in {"dial", "prologue", "document", "page"}
      /\ UNCHANGED state /\ Env
  BY DEF Going, Call, Pcs, Off, Job
<1>4. qfile \in [Jobs -> Request] /\ qfile' \in [Jobs -> Request]
  <2>1. qfile \in [Jobs -> Request]
    BY DEF Base, TypeOK
  <2> QED  BY <2>1, <1>2 DEF Going
<1>5. ASSUME NEW w \in writers'
      PROVE  Writing(w)'
  <2>1. CASE w \in writers
    <3>1. Writing(w)
      BY <2>1 DEF Base
    <3>2. PICK i \in 1..Len(fs.batch) :
            w.job = fs.batch[i] /\ i <= fs.cur /\ (fs.pc \in {"file", "dial"} => i < fs.cur)
      BY <3>1 DEF Writing
    <3>3. fs'.pc \in {"file", "dial"} => fs.pc \in {"file", "dial"}
      BY <1>3 DEF Going
    <3> QED  BY <3>1, <3>2, <3>3, <1>2, <1>3 DEF Writing
  <2>2. CASE w \notin writers
    <3>1. fs'.pc # "dial" /\ w.job = Job /\ w.req \in Request /\ w.req.status = "done"
      BY <2>2, <1>5 DEF Going
    <3> QED  BY <3>1, <1>2, <1>3 DEF Writing, Job
  <2> QED  BY <2>1, <2>2
<1>6. TypeOK'
  <2>1. \A w \in writers' : w.job \in Jobs /\ w.req \in Request
    BY <1>5, WritersTyped DEF Writing
  <2> QED  BY <2>1, <1>3, <1>4 DEF TypeOK, Base, Going, Env, Call, Pcs, GotOK, Tallies
<1>7. Placed'
  <2>1. fs'.pc = "dial" => fs'.req = qfile'[Job']
    BY <1>3 DEF Going
  <2>2. fs'.abort => "abort" \in faults'
    BY <1>2, <1>3 DEF Going, Placed, Env
  <2>3. fs'.status = "done"
    BY <1>1, <1>2, <1>3 DEF Going, Placed, OnCall, Call, Pcs
  <2>4. /\ fs'.pc = "document" => fs'.req.status \in {"retry", "done"}
        /\ fs'.pc = "page" => fs'.req.status = "done" /\ fs'.req.items # <<>>
    BY DEF Going
  <2> QED  BY <2>1, <2>2, <2>3, <2>4, <1>2, <1>3 DEF Placed
<1>8. writers' # {} => "slow" \in faults'
  BY <1>3 DEF Base, Env, Going
<1>9. ASSUME NEW j \in Jobs, state'[j] = "ready", Coming(j)'
      PROVE  qfile'[j].status = "retry"
  <2>1. \A i \in 1..Len(fs.batch) :
          fs.batch[i] = j => i > fs.cur \/ (i = fs.cur /\ fs'.pc \in {"file", "dial"})
    BY <1>3, <1>9 DEF Coming
  <2>2. Coming(j)
    BY <2>1, <1>3 DEF Coming, Going
  <2>3. qfile[j].status = "retry"
    BY <2>2, <1>3, <1>9 DEF Base
  <2>4. CASE j = Job
    <3>1. fs'.pc \in {"file", "dial"}
      BY <2>1, <2>4, <1>2 DEF Job
    <3> QED  BY <2>3, <3>1, <1>3 DEF Going
  <2>5. CASE j # Job
    BY <2>3, <2>5, <1>2, <1>4 DEF Going
  <2> QED  BY <2>4, <2>5
<1>10. "format" \notin faults' => \A j \in Jobs : qfile'[j].status # "reformat"
  BY <1>2, <1>3, <1>4 DEF Base, Going, Env
<1> QED  BY <1>3, <1>5, <1>6, <1>7, <1>8, <1>9, <1>10 DEF Base

LEMMA GotSame ==
  ASSUME Base, UNCHANGED got
  PROVE  GotOK'
BY DEF Base, TypeOK, GotOK

LEMMA CallStatus ==
  ASSUME Base, fs.pc \in {"dial", "prologue", "document", "page"}
  PROVE  /\ fs.pc = "dial" => fs.req = qfile[Job]
         /\ fs.pc = "document" => fs.req.status \in {"retry", "done"}
         /\ fs.pc = "page" => fs.req.status = "done" /\ fs.req.items # <<>>
BY CallFacts DEF Placed

LEMMA ReadingGoes ==
  ASSUME Base, Reading
  PROVE  Going
<1>1. Shape(fs', "dial", fs.batch, fs.cur, fs.status, qfile[Job], fs.page, TRUE, fs.connected, fs.abort)
  BY DEF Reading, Moved, Shape
<1> QED  BY <1>1, GotSame DEF Reading, Shape, Going

LEMMA DialingGoes ==
  ASSUME Base, Dialing
  PROVE  Going
BY GotSame DEF Dialing, Moved, Shape, Going

LEMMA SettingUpGoes ==
  ASSUME Base, SettingUp
  PROVE  Going
BY GotSame DEF SettingUp, Moved, Shape, Fields, Going

LEMMA OpeningGoes ==
  ASSUME Base, Opening
  PROVE  Going
BY GotSame DEF Opening, Moved, Shape, Fields, Going

LEMMA DeliveringGoes ==
  ASSUME Base, Delivering
  PROVE  Going
<1>1. fs'.req \in Request /\ fs'.req.status = "done" /\ qfile' = [qfile EXCEPT ![Job] = fs'.req]
  BY DEF Delivering, Fields
<1> QED  BY <1>1, GotSame DEF Delivering, Moved, Shape, Going

LEMMA ConfirmingGoes ==
  ASSUME Base, Confirming
  PROVE  Going
<1>1. /\ fs.pc = "page" /\ UNCHANGED state /\ Env /\ Job \in Jobs
      /\ fs.req.items # <<>>
  BY CallFacts, CallStatus DEF Confirming
<1>2. /\ fs' \in Call /\ fs'.batch = fs.batch /\ fs'.cur = fs.cur /\ fs'.status = fs.status
      /\ fs'.pc = "page" /\ fs'.abort = fs.abort
      /\ fs'.req.status = "done" /\ fs'.req.items = fs.req.items
  BY DEF Confirming, Moved, Shape, Fields
<1>3. PICK w \in Request :
       /\ w.status = "done"
       /\ \/ qfile' = [qfile EXCEPT ![Job] = w] /\ UNCHANGED <<writers, faults>>
          \/ /\ writers' = writers \cup {[job |-> Job, req |-> w, page |-> w.npages]}
             /\ "slow" \in faults' /\ UNCHANGED qfile
  BY DEF Confirming, Fields
<1>4. GotOK'
  <2> DEFINE pg == <<Document.doc, Document.dirnum + fs.page + 1>>
             g == [got[Job] EXCEPT ![pg] = @ + 1]
  <2>1. got' = [got EXCEPT ![Job] = g]
    BY DEF Confirming
  <2> HIDE DEF pg
  <2>2. GotOK
    BY DEF Base, TypeOK, GotOK
  <2>3. g \in [Pages(Job) -> Nat]
    <3>1. got[Job] \in [Pages(Job) -> Nat]
      BY <2>2, <1>1 DEF GotOK
    <3>2. \A x \in Pages(Job) : got[Job][x] \in Nat /\ got[Job][x] + 1 \in Nat
      BY <3>1
    <3> QED  BY <3>1, <3>2
  <2> HIDE DEF g
  <2> QED  BY <2>1, <2>2, <2>3, <1>1 DEF GotOK
<1>5. \/ UNCHANGED qfile
      \/ \E q \in Request : qfile' = [qfile EXCEPT ![Job] = q] /\ q.status = "done"
  BY <1>3
<1>6. \/ UNCHANGED writers
      \/ /\ "slow" \in faults'
         /\ \E v : /\ writers' = writers \cup {v}
                   /\ v.job = Job /\ v.req \in Request /\ v.req.status = "done"
  BY <1>3
<1> QED  BY <1>1, <1>2, <1>4, <1>5, <1>6 DEF Going

LEMMA AbortingGoes ==
  ASSUME Base, Aborting
  PROVE  Going
BY GotSame, CallStatus DEF Aborting, OnCall, Shape, Going

LEMMA CrashingKeepsBase ==
  ASSUME Base, Crashing
  PROVE  Base'
<1>1. fs.pc \notin {"off", "exit"}
  BY DEF Crashing
<1>2. /\ fs \in Call /\ Placed /\ fs # Off
      /\ fs.cur \in 1..Len(fs.batch) /\ Len(fs.batch) \in Nat /\ fs.cur \in Nat
  BY <1>1, CallFacts
<1>3. /\ fs' \in Call /\ fs'.pc = "exit" /\ fs'.batch = fs.batch /\ fs'.cur = fs.cur
      /\ fs'.abort = fs.abort /\ UNCHANGED <<qfile, state, writers, got>> /\ Env
  BY DEF Crashing, Shape
<1>4. fs' # Off /\ ~OnCall'
  BY <1>3 DEF Off, OnCall
<1>5. TypeOK'
  <2>1. qfile' \in [Jobs -> Request]
    BY <1>3 DEF Base, TypeOK
  <2> QED  BY <2>1, <1>3, TypeKept, WritersTyped
<1>6. Placed'
  BY <1>2, <1>3, <1>4 DEF Placed, Env
<1>7. \A w \in writers' : Writing(w)'
  BY <1>2, <1>3, <1>4 DEF Base, Writing
<1>8. ASSUME NEW j \in Jobs, state'[j] = "ready", Coming(j)'
      PROVE  qfile'[j].status = "retry"
  BY <1>2, <1>3, <1>4, <1>8 DEF Base, Coming
<1> QED  BY <1>3, <1>5, <1>6, <1>7, <1>8 DEF Base, Env

LEMMA StartingKeepsBase ==
  ASSUME Base, Starting
  PROVE  Base'
<1>1. fs = Off /\ UNCHANGED <<qfile, state, writers, got, faults>> /\ Env
  BY DEF Starting
<1>2. PICK b \in Seq(Jobs) :
       /\ b # <<>> /\ IsInjective(b) /\ \A i \in 1..Len(b) : state[b[i]] = "ready"
       /\ Shape(fs', "file", b, 1, "done", qfile[b[1]], 0, FALSE, FALSE, FALSE)
  BY DEF Starting
<1>3. /\ fs' \in Call /\ fs'.pc = "file" /\ fs'.batch = b /\ fs'.cur = 1 /\ fs'.abort = FALSE
      /\ fs' # Off /\ ~OnCall'
  BY <1>2 DEF Shape, Off, OnCall
<1>4. writers = {}
  BY <1>1, OffFacts DEF Off
<1>5. TypeOK'
  <2>1. qfile' \in [Jobs -> Request]
    BY <1>1 DEF Base, TypeOK
  <2> QED  BY <2>1, <1>1, <1>3, TypeKept, WritersTyped
<1>6. Placed'
  <2>1. Len(b) \in Nat \ {0}
    BY <1>2, EmptySeq
  <2> QED  BY <2>1, <1>1, <1>2, <1>3 DEF Placed
<1>7. \A j \in Jobs : state'[j] = "ready" => qfile'[j].status = "retry"
  BY <1>1 DEF Base, Coming
<1> QED  BY <1>1, <1>3, <1>4, <1>5, <1>6, <1>7 DEF Base

LEMMA RejectKeepsBase ==
  ASSUME Base, Reject
  PROVE  Base'
<1>1. fs = Off /\ writers = {} /\ UNCHANGED <<qfile, info, fs, writers, got, made, faults>>
  BY OffFacts DEF Reject, At
<1>2. PICK j \in Jobs : state' = [state EXCEPT ![j] = "failed"]
  BY DEF Reject, Ready
<1>3. TypeOK'
  BY <1>1, <1>2 DEF Base, TypeOK
<1>4. \A k \in Jobs : state'[k] = "ready" => state[k] = "ready"
  BY <1>2 DEF Base, TypeOK
<1> QED  BY <1>1, <1>3, <1>4 DEF Base, Coming

LEMMA SlowWriteKeepsBase ==
  ASSUME Base, SlowWrite
  PROVE  Base'
<1>1. PICK w \in writers : qfile' = [qfile EXCEPT ![w.job] = w.req] /\ writers' = writers \ {w}
  BY DEF SlowWrite, Write
<1>2. UNCHANGED <<state, info, fs, got, made, faults>>
  BY DEF SlowWrite
<1>3. Writing(w)
  BY DEF Base
<1>4. fs.pc # "off" /\ fs \in Call /\ fs # Off
  BY <1>3 DEF Base, Writing, Call, Pcs
<1>5. /\ Placed /\ Len(fs.batch) \in Nat /\ fs.cur \in Nat /\ fs.batch \in Seq(Jobs)
      /\ DOMAIN fs.batch = 1..Len(fs.batch)
  BY <1>4, CallFacts, LenProperties
<1>6. PICK i \in 1..Len(fs.batch) :
        w.job = fs.batch[i] /\ i <= fs.cur /\ (fs.pc \in {"file", "dial"} => i < fs.cur)
  BY <1>3 DEF Writing
<1>7. qfile' \in [Jobs -> Request]
  BY <1>1, <1>3 DEF Base, TypeOK, Writing
<1>8. TypeOK'
  BY <1>1, <1>2, <1>7 DEF Base, TypeOK
<1>9. fs.pc = "dial" => qfile'[Job] = qfile[Job]
  <2> SUFFICES ASSUME fs.pc = "dial"  PROVE qfile'[Job] = qfile[Job]
    OBVIOUS
  <2>1. i # fs.cur /\ fs.cur \in 1..Len(fs.batch)
    BY <1>5, <1>6 DEF Placed
  <2>2. w.job # Job
    BY <2>1, <1>5, <1>6 DEF Placed, IsInjective, Job
  <2> QED  BY <2>2, <1>1
<1>10. Placed'
  BY <1>2, <1>5, <1>9 DEF Placed, Job, OnCall
<1>11. \A v \in writers' : Writing(v)'
  BY <1>1, <1>2 DEF Base, Writing
<1>12. ASSUME NEW j \in Jobs, state'[j] = "ready", Coming(j)'
       PROVE  qfile'[j].status = "retry"
  <2>1. Coming(j) /\ qfile[j].status = "retry"
    BY <1>2, <1>12 DEF Base, Coming
  <2>2. w.job # j
    BY <2>1, <1>4, <1>5, <1>6 DEF Coming
  <2> QED  BY <2>1, <2>2, <1>1 DEF Base, TypeOK
<1>13. "format" \notin faults' => \A j \in Jobs : qfile'[j].status # "reformat"
  BY <1>1, <1>2, <1>3 DEF Base, TypeOK, Writing
<1> QED  BY <1>1, <1>2, <1>4, <1>8, <1>10, <1>11, <1>12, <1>13 DEF Base

\* What sendJobDone does for a job of the batch, and for another.
Reported(j) ==
  /\ qfile'[j] \in Request /\ qfile'[j].status # "reformat"
  /\ qfile'[j].npages = qfile[j].npages
  /\ qfile'[j].totdials = qfile[j].totdials /\ qfile'[j].tottries = qfile[j].tottries
  /\ IF qfile[j].status = "reformat"
     THEN qfile'[j].items = AllItems(j) /\ qfile'[j].status = "retry"
     ELSE /\ qfile'[j].items = qfile[j].items
          /\ \/ qfile'[j].status = qfile[j].status
             \/ /\ "abort" \in faults /\ qfile[j].status # "done"
                /\ qfile'[j].status = "retry"
  /\ state'[j] = IF qfile'[j].status = "retry" THEN "ready" ELSE qfile'[j].status

LeftAlone(j) ==
  /\ state'[j] = state[j]
  /\ \/ qfile'[j] = qfile[j]
     \/ /\ Share /\ qfile[j].status = "retry"
        /\ Fields(qfile'[j], qfile[j].items, "retry", qfile[j].npages,
                  qfile[j].totdials + 1, qfile[j].tottries)

Reporting ==
  /\ fs.pc = "exit" /\ fs' = Off /\ writers = {}
  /\ UNCHANGED <<info, writers, got, made, faults>>
  /\ qfile' \in [Jobs -> Request] /\ state' \in [Jobs -> {"ready", "done", "failed"}]
  /\ \A j \in Jobs : IF \E i \in 1..Len(fs.batch) : fs.batch[i] = j
                     THEN Reported(j) ELSE LeftAlone(j)

LEMMA AllItemsTyped ==
  ASSUME NEW j \in Jobs
  PROVE  /\ AllItems(j) \in Items /\ Len(AllItems(j)) = Len(Docs[j])
         /\ \A i \in 1..Len(Docs[j]) : AllItems(j)[i] = [doc |-> i, dirnum |-> 0]
<1>1. Docs[j] \in Seq(Nat \ {0})
  BY SendAssumptions
<1>2. DOMAIN Docs[j] = 1..Len(Docs[j]) /\ Len(Docs[j]) \in Nat
  BY <1>1, LenProperties
<1>3. AllItems(j) = [d \in 1..Len(Docs[j]) |-> [doc |-> d, dirnum |-> 0]]
  BY <1>2 DEF AllItems
<1>4. AllItems(j) \in [1..Len(Docs[j]) -> [doc : Nat, dirnum : Nat]]
  BY <1>2, <1>3
<1>5. AllItems(j) \in Items
  <2>1. \A S : \A n \in Nat : \A f \in [1..n -> S] : f \in Seq(S)
    BY SeqDef
  <2> QED  BY <1>2, <1>4, <2>1 DEF Items
<1>6. Len(AllItems(j)) = Len(Docs[j])
  <2>1. Len(AllItems(j)) \in Nat /\ 1..Len(AllItems(j)) = 1..Len(Docs[j])
    BY <1>3, <1>5, LenProperties DEF Items
  <2>2. \A a, b \in Nat : 1..a = 1..b => a <= b
    <3> SUFFICES ASSUME NEW a \in Nat, NEW b \in Nat, 1..a = 1..b, a > b
                 PROVE  FALSE
      OBVIOUS
    <3>1. a \in 1..a /\ a \notin 1..b
      OBVIOUS
    <3> QED  BY <3>1
  <2> QED  BY <2>1, <2>2, <1>2
<1> QED  BY <1>3, <1>5, <1>6

LEMMA RereadFacts ==
  ASSUME NEW j \in Jobs, NEW suspended, qfile[j] \in Request
  PROVE  LET r == Reread(j, suspended) IN
         /\ r \in Request /\ r.status # "reformat" /\ r.npages = qfile[j].npages
         /\ r.totdials = qfile[j].totdials /\ r.tottries = qfile[j].tottries
         /\ IF qfile[j].status = "reformat"
            THEN r.items = AllItems(j) /\ r.status = "retry"
            ELSE /\ r.items = qfile[j].items
                 /\ \/ r.status = qfile[j].status
                    \/ j = suspended /\ qfile[j].status # "done" /\ r.status = "retry"
<1> DEFINE q == qfile[j]
           r == Reread(j, suspended)
<1>0. Fields(q, q.items, q.status, q.npages, q.totdials, q.tottries)
  BY Own
<1>1. CASE q.status = "reformat"
  <2> DEFINE q1 == [q EXCEPT !.items = AllItems(j)]
             q2 == [q1 EXCEPT !.status = "retry"]
  <2>1. r = q2
    <3>1. r = [q EXCEPT !.items = AllItems(j), !.status = "retry"]
      BY <1>1 DEF Reread
    <3> QED  BY <3>1 DEF Request
  <2>2. Fields(q1, AllItems(j), q.status, q.npages, q.totdials, q.tottries)
    BY <1>0, AllItemsTyped, PutItems
  <2> HIDE DEF q1
  <2>3. Fields(q2, AllItems(j), "retry", q.npages, q.totdials, q.tottries)
    BY <2>2, PutStatus DEF Statuses
  <2> HIDE DEF q2, r
  <2>4. /\ r \in Request /\ r.status = "retry" /\ r.items = AllItems(j) /\ r.npages = q.npages
        /\ r.totdials = q.totdials /\ r.tottries = q.tottries
    BY <2>1, <2>3 DEF Fields
  <2> QED  BY <1>1, <2>4 DEF r
<1>2. CASE q.status # "reformat" /\ q.status # "done" /\ j = suspended
  <2> DEFINE q1 == [q EXCEPT !.status = "retry"]
  <2>1. r = q1
    <3>1. q.status \in {"retry", "failed"}
      BY <1>2 DEF Request
    <3> QED  BY <3>1, <1>2 DEF Reread
  <2>2. Fields(q1, q.items, "retry", q.npages, q.totdials, q.tottries)
    BY <1>0, PutStatus DEF Statuses
  <2> HIDE DEF q1, r
  <2>3. /\ r \in Request /\ r.status = "retry" /\ r.items = q.items /\ r.npages = q.npages
        /\ r.totdials = q.totdials /\ r.tottries = q.tottries
    BY <2>1, <2>2 DEF Fields
  <2> QED  BY <1>2, <2>3 DEF r
<1>3. CASE q.status # "reformat" /\ ~(q.status # "done" /\ j = suspended)
  <2>1. r = q
    BY <1>3 DEF Reread
  <2> QED  BY <1>3, <2>1
<1> QED  BY <1>1, <1>2, <1>3

LEMMA DelayedFacts ==
  ASSUME NEW j \in Jobs, NEW first, qfile[j] \in Request, qfile[j].status = "retry"
  PROVE  \/ Delayed(j, first) = qfile[j]
         \/ /\ Share
            /\ Fields(Delayed(j, first), qfile[j].items, "retry", qfile[j].npages,
                      qfile[j].totdials + 1, qfile[j].tottries)
<1> DEFINE q == qfile[j]
           q1 == [q EXCEPT !.status = "retry"]
           q2 == [q1 EXCEPT !.totdials = q.totdials + 1]
<1>1. CASE first.errorcode = "call" /\ Share
  <2>1. Delayed(j, first) = q2
    BY <1>1 DEF Delayed, Request
  <2>2. Fields(q1, q.items, "retry", q.npages, q.totdials, q.tottries)
    BY Own, PutStatus DEF Statuses
  <2>4. q.totdials + 1 \in Nat
    BY DEF Request
  <2> HIDE DEF q1
  <2>3. Fields(q2, q.items, "retry", q.npages, q.totdials + 1, q.tottries)
    BY <2>2, <2>4, PutTotdials
  <2> QED  BY <1>1, <2>1, <2>3
<1>2. CASE ~(first.errorcode = "call" /\ Share)
  BY <1>2 DEF Delayed
<1> QED  BY <1>1, <1>2

LEMMA SendJobDoneReports ==
  ASSUME Base, SendJobDone
  PROVE  Reporting
<1>1. fs.pc = "exit" /\ fs' = Off /\ UNCHANGED <<info, writers, got, made, faults>>
  BY DEF SendJobDone, At, Off
<1>2. /\ fs \in Call /\ Placed /\ fs.batch \in Seq(Jobs) /\ Len(fs.batch) \in Nat
      /\ fs # Off /\ DOMAIN fs.batch = 1..Len(fs.batch)
  BY <1>1, CallFacts, LenProperties
<1> DEFINE B == ToSet(fs.batch)
<1>3. /\ B \subseteq Jobs
      /\ \A j : j \in B <=> \E i \in 1..Len(fs.batch) : fs.batch[i] = j
  BY <1>2, ElementOfSeq DEF ToSet
<1>4. writers = {}
  <2>1. \A w \in writers : w.job \notin B /\ w.job \in B
    BY <1>3 DEF SendJobDone, Base, Writing
  <2> QED  BY <2>1
<1>5. PICK suspended \in (IF fs.abort THEN B ELSE {"none"}), blocked \in SUBSET (Ready \ B) :
        LET first == qfile[fs.batch[1]]
            req == [j \in B |-> Reread(j, suspended)]
            delay == first.status \notin {"done", "reformat"}
        IN /\ qfile' = [j \in Jobs |-> CASE j \in DOMAIN req -> req[j]
                          [] j \in blocked /\ delay -> Delayed(j, first)
                          [] OTHER -> qfile[j]]
           /\ state' = [j \in Jobs |-> IF j \notin DOMAIN req THEN state[j]
                          ELSE IF req[j].status = "retry" THEN "ready" ELSE req[j].status]
  BY DEF SendJobDone
<1> DEFINE first == qfile[fs.batch[1]]
<1> HIDE DEF B, first
<1>6. /\ \A j \in B : qfile'[j] = Reread(j, suspended)
      /\ \A j \in Jobs \ B : \/ qfile'[j] = qfile[j]
                             \/ j \in Ready /\ qfile'[j] = Delayed(j, first)
      /\ \A j \in B : state'[j] = IF qfile'[j].status = "retry" THEN "ready" ELSE qfile'[j].status
      /\ \A j \in Jobs \ B : state'[j] = state[j]
  BY <1>3, <1>5 DEF first
<1>7. DOMAIN qfile' = Jobs /\ DOMAIN state' = Jobs
      /\ qfile' = [j \in Jobs |-> qfile'[j]] /\ state' = [j \in Jobs |-> state'[j]]
  BY <1>5
<1>8. qfile \in [Jobs -> Request] /\ state \in [Jobs -> {"ready", "done", "failed"}]
  BY DEF Base, TypeOK
<1>9. ASSUME NEW j \in B
      PROVE  Reported(j)
  <2>1. j \in Jobs /\ qfile[j] \in Request
    BY <1>3, <1>8
  <2>2. j = suspended => "abort" \in faults
    BY <1>2, <1>5, <2>1, SendAssumptions DEF Placed
  <2> DEFINE r == Reread(j, suspended)
  <2>3. /\ r \in Request /\ r.status # "reformat" /\ r.npages = qfile[j].npages
        /\ r.totdials = qfile[j].totdials /\ r.tottries = qfile[j].tottries
        /\ IF qfile[j].status = "reformat"
           THEN r.items = AllItems(j) /\ r.status = "retry"
           ELSE /\ r.items = qfile[j].items
                /\ \/ r.status = qfile[j].status
                   \/ j = suspended /\ qfile[j].status # "done" /\ r.status = "retry"
    BY <2>1, RereadFacts
  <2>4. qfile'[j] = r
    BY <1>6
  <2> HIDE DEF r
  <2> QED  BY <2>2, <2>3, <2>4, <1>6 DEF Reported
<1>10. ASSUME NEW j \in Jobs \ B
       PROVE  LeftAlone(j) /\ qfile'[j] \in Request
  <2>1. CASE qfile'[j] = qfile[j]
    BY <2>1, <1>6, <1>8 DEF LeftAlone
  <2>2. CASE j \in Ready /\ qfile'[j] = Delayed(j, first)
    <3>1. Coming(j)
      BY <1>2, <1>3 DEF Coming
    <3>2. qfile[j].status = "retry" /\ qfile[j] \in Request
      BY <2>2, <3>1, <1>8 DEF Base, Ready
    <3>3. \/ qfile'[j] = qfile[j]
          \/ /\ Share
             /\ Fields(qfile'[j], qfile[j].items, "retry", qfile[j].npages,
                       qfile[j].totdials + 1, qfile[j].tottries)
      BY <2>2, <3>2, DelayedFacts
    <3>4. qfile'[j] \in Request
      BY <3>2, <3>3 DEF Fields
    <3> QED  BY <3>2, <3>3, <3>4, <1>6 DEF LeftAlone
  <2> QED  BY <2>1, <2>2, <1>6
<1>11. qfile' \in [Jobs -> Request]
  BY <1>7, <1>9, <1>10 DEF Reported
<1>12. state' \in [Jobs -> {"ready", "done", "failed"}]
  <2>1. ASSUME NEW j \in B
        PROVE  state'[j] \in {"ready", "done", "failed"}
    <3>1. qfile'[j] \in Request /\ qfile'[j].status # "reformat"
      BY <2>1, <1>9 DEF Reported
    <3>2. qfile'[j].status \in {"retry", "done", "failed"}
      BY <3>1 DEF Request
    <3> QED  BY <3>2, <1>6
  <2> QED  BY <2>1, <1>6, <1>7, <1>8
<1> QED  BY <1>1, <1>3, <1>4, <1>9, <1>10, <1>11, <1>12 DEF Reporting

LEMMA ReportingKeepsBase ==
  ASSUME Base, Reporting
  PROVE  Base'
<1>1. /\ fs' = Off /\ writers' = {} /\ UNCHANGED <<info, got, made, faults>>
      /\ qfile' \in [Jobs -> Request] /\ state' \in [Jobs -> {"ready", "done", "failed"}]
  BY DEF Reporting
<1>2. fs.pc = "exit" /\ fs # Off
  BY DEF Reporting, Off
<1>3. TypeOK'
  <2>1. <<>> \in Seq(Jobs)
    OBVIOUS
  <2> QED  BY <1>1, <2>1 DEF Base, TypeOK, Off
<1>4. ASSUME NEW j \in Jobs, state'[j] = "ready"
      PROVE  qfile'[j].status = "retry"
  <2>1. CASE Reported(j)
    <3>1. qfile'[j].status = "retry" \/ state'[j] = qfile'[j].status
      BY <2>1 DEF Reported
    <3>2. qfile'[j].status # "ready"
      BY <1>1 DEF Request
    <3> QED  BY <3>1, <3>2, <1>4
  <2>2. CASE LeftAlone(j) /\ ~\E i \in 1..Len(fs.batch) : fs.batch[i] = j
    <3>1. Coming(j) /\ state[j] = "ready"
      BY <2>2, <1>4 DEF Coming, LeftAlone
    <3>2. qfile[j].status = "retry"
      BY <3>1 DEF Base
    <3> QED  BY <2>2, <3>2 DEF LeftAlone, Fields
  <2> QED  BY <2>1, <2>2 DEF Reporting
<1>5. "format" \notin faults' => \A j \in Jobs : qfile'[j].status # "reformat"
  <2> SUFFICES ASSUME "format" \notin faults', NEW j \in Jobs
               PROVE  qfile'[j].status # "reformat"
    OBVIOUS
  <2>1. Reported(j) \/ LeftAlone(j)
    BY DEF Reporting
  <2>2. qfile[j].status # "reformat"
    BY <1>1 DEF Base
  <2> QED  BY <2>1, <2>2 DEF Reported, LeftAlone, Fields
<1> QED  BY <1>1, <1>3, <1>4, <1>5 DEF Base

\* Every step, with what it does; and Base holds again.
StepKind ==
  \/ Starting \/ Reject \/ Reading \/ Dialing \/ SettingUp \/ Opening \/ Delivering
  \/ Confirming \/ Ending \/ Aborting \/ Crashing \/ SlowWrite \/ Reporting \/ UNCHANGED vars

LEMMA Kinds ==
  ASSUME Base, [Next]_vars
  PROVE  StepKind
BY Effects, SendJobDoneReports DEF StepKind

LEMMA BaseStep ==
  ASSUME Base, [Next]_vars
  PROVE  Base'
<1>1. CASE Starting  BY <1>1, StartingKeepsBase
<1>2. CASE Reject  BY <1>2, RejectKeepsBase
<1>3. CASE Reading  BY <1>3, ReadingGoes, GoingKeepsBase
<1>4. CASE Dialing  BY <1>4, DialingGoes, GoingKeepsBase
<1>5. CASE SettingUp  BY <1>5, SettingUpGoes, GoingKeepsBase
<1>6. CASE Opening  BY <1>6, OpeningGoes, GoingKeepsBase
<1>7. CASE Delivering  BY <1>7, DeliveringGoes, GoingKeepsBase
<1>8. CASE Confirming  BY <1>8, ConfirmingGoes, GoingKeepsBase
<1>9. CASE Ending  BY <1>9, EndingKeepsBase
<1>10. CASE Aborting  BY <1>10, AbortingGoes, GoingKeepsBase
<1>11. CASE Crashing  BY <1>11, CrashingKeepsBase
<1>12. CASE SlowWrite  BY <1>12, SlowWriteKeepsBase
<1>13. CASE Reporting  BY <1>13, ReportingKeepsBase
<1>14. CASE UNCHANGED vars
  BY <1>14 DEF vars, Base, TypeOK, Placed, Writing, Coming, Job, OnCall
<1> QED
  BY Kinds, <1>1, <1>2, <1>3, <1>4, <1>5, <1>6, <1>7, <1>8, <1>9, <1>10, <1>11, <1>12,
     <1>13, <1>14 DEF StepKind

LEMMA NewTyped ==
  ASSUME NEW j \in Jobs
  PROVE  Fields(NewRequest(j), AllItems(j), "retry", 0, 0, 0)
<1>1. AllItems(j) \in Items
  BY AllItemsTyped
<1> QED  BY <1>1 DEF NewRequest, Fields, Request, Items

LEMMA BaseInit ==
  ASSUME Init
  PROVE  Base
<1>1. fs = Off /\ writers = {}
  BY DEF Init, Off
<1>2. qfile \in [Jobs -> Request] /\ \A j \in Jobs : qfile[j].status = "retry"
  BY NewTyped DEF Init, Fields
<1>3. TypeOK
  BY <1>1, <1>2 DEF Init, TypeOK, Off
<1> QED  BY <1>1, <1>2, <1>3 DEF Base
-----------------------------------------------------------------------------
(* The limits *)

\* A job to be retried is below its limits, and the others are within them: also
\* in the memory of faxsend, and in what a child has still to write.
Limits ==
  NoExcess =>
    /\ \A j \in Jobs : Within(qfile[j]) /\ (qfile[j].status = "retry" => Below(qfile[j]))
    /\ OnCall => Within(fs.req)
    /\ \A w \in writers : Within(w.req)

LEMMA GrowingFaults ==
  ASSUME Base, StepKind
  PROVE  faults \subseteq faults' /\ faults' \subseteq Faults
BY DEF StepKind, Starting, Reject, Reading, Dialing, SettingUp, Opening, Delivering,
       Confirming, Ending, Aborting, Crashing, SlowWrite, Reporting, vars, Env, Base, TypeOK

\* A step that changes the request of the call at most, within the limits.
LEMMA LimitsGo ==
  ASSUME Base, Limits, faults \subseteq faults', UNCHANGED <<qfile, writers>>,
         NoExcess /\ OnCall' => Within(fs'.req)
  PROVE  Limits'
<1>1. NoExcess' => NoExcess
  BY DEF NoExcess
<1> QED  BY <1>1 DEF Limits, Within, Below

LEMMA LimitsStep ==
  ASSUME Base, Limits, StepKind
  PROVE  Limits'
<1>0. faults \subseteq faults' /\ (NoExcess' => NoExcess)
  BY GrowingFaults DEF NoExcess
<1>00. MaxDials \in Nat /\ MaxTries \in Nat /\ qfile \in [Jobs -> Request]
  BY SendAssumptions DEF Base, TypeOK
<1>1. CASE Starting
  <2>1. ~OnCall'
    BY <1>1 DEF Starting, OnCall, Shape
  <2> QED  BY <2>1, <1>0, <1>1, LimitsGo DEF Starting
<1>2. CASE Reject
  <2>1. ~OnCall'
    BY <1>2 DEF Reject, OnCall, At
  <2> QED  BY <2>1, <1>0, <1>2, LimitsGo DEF Reject
<1>3. CASE Reading
  <2>1. Job \in Jobs /\ fs'.req = qfile[Job]
    BY <1>3, CallFacts DEF Reading
  <2>2. NoExcess => Within(fs'.req)
    BY <2>1 DEF Limits
  <2> QED  BY <2>2, <1>0, <1>3, LimitsGo DEF Reading
<1>4. CASE Dialing
  <2>1. /\ fs.pc = "dial" /\ Job \in Jobs /\ fs \in Call /\ OnCall /\ fs.req = qfile[Job]
        /\ state[Job] = "ready" /\ fs.cur \in 1..Len(fs.batch)
    BY <1>4, CallFacts, CallStatus DEF Dialing, OnCall, Placed, Job
  <2>2. Coming(Job)
    BY <2>1, CallFacts DEF Coming, Placed, IsInjective, Job
  <2>3. NoExcess => Below(fs.req)
    BY <2>1, <2>2 DEF Limits, Base
  <2>4. fs'.req.totdials = fs.req.totdials + 1 /\ fs'.req.tottries = fs.req.tottries + 1
    BY <1>4 DEF Dialing, Fields
  <2>5. fs.req \in Request
    BY <2>1, <1>00
  <2>6. NoExcess => Within(fs'.req)
    BY <2>3, <2>4, <2>5, <1>00 DEF Below, Within, Request
  <2> QED  BY <2>6, <1>0, <1>4, LimitsGo DEF Dialing
<1>5. CASE SettingUp
  <2>1. OnCall /\ (Within(fs.req) => Within(fs'.req))
    BY <1>5 DEF SettingUp, Fields, Within, OnCall
  <2> QED  BY <2>1, <1>0, <1>5, LimitsGo DEF SettingUp, Limits
<1>6. CASE Opening
  <2>1. OnCall /\ (Within(fs.req) => Within(fs'.req))
    BY <1>6 DEF Opening, Fields, Within, OnCall
  <2> QED  BY <2>1, <1>0, <1>6, LimitsGo DEF Opening, Limits
<1>7. CASE Delivering
  <2>1. OnCall /\ (Within(fs.req) => Within(fs'.req)) /\ fs'.req.status = "done"
    BY <1>7 DEF Delivering, Fields, Within, OnCall
  <2>2. qfile' = [qfile EXCEPT ![Job] = fs'.req] /\ UNCHANGED writers
    BY <1>7 DEF Delivering
  <2> QED  BY <2>1, <2>2, <1>0, <1>00 DEF Limits
<1>8. CASE Confirming
  <2>1. OnCall /\ (Within(fs.req) => Within(fs'.req))
    BY <1>8 DEF Confirming, Fields, Within, OnCall
  <2>2. PICK w \in Request :
        /\ Fields(w, fs.req.items, "done", fs.req.npages + 1, fs.req.totdials,
                  fs.req.tottries)
        /\ \/ qfile' = [qfile EXCEPT ![Job] = w] /\ UNCHANGED <<writers, faults>>
           \/ /\ writers' = writers \cup {[job |-> Job, req |-> w, page |-> w.npages]}
              /\ "slow" \in faults' /\ UNCHANGED qfile
    BY <1>8 DEF Confirming
  <2>3. (Within(fs.req) => Within(w)) /\ w.status = "done"
    BY <2>2 DEF Fields, Within
  <2>4. CASE qfile' = [qfile EXCEPT ![Job] = w] /\ UNCHANGED <<writers, faults>>
    BY <2>1, <2>3, <2>4, <1>0, <1>00 DEF Limits
  <2>5. CASE /\ writers' = writers \cup {[job |-> Job, req |-> w, page |-> w.npages]}
             /\ UNCHANGED qfile
    BY <2>1, <2>3, <2>5, <1>0, <1>00 DEF Limits, Within, Below
  <2> QED  BY <2>2, <2>4, <2>5
<1>9. CASE Ending
  <2>1. PICK r \in Request : Ended(r) /\ Outcome(Current, r)
    BY <1>9 DEF Ending
  <2>2. /\ fs.pc \notin {"off", "exit"} /\ fs \in Call /\ Placed /\ Job \in Jobs
        /\ fs.cur \in 1..Len(fs.batch)
    BY <1>9, CallFacts DEF Ending
  <2>3. ~OnCall' /\ UNCHANGED writers /\ qfile' = [qfile EXCEPT ![Job] = r]
    BY <1>9, <2>1 DEF Ending, Ended, Shape, OnCall
  <2>4. ASSUME NoExcess'
        PROVE  Within(r) /\ (r.status = "retry" => Below(r))
    <3>1. Within(Current)
      BY <2>2, <2>4, <1>0 DEF Limits, Current, At, OnCall, Call, Pcs
    <3>2. ASSUME fs.pc \in {"file", "dial"}
          PROVE  Below(Current)
      <4>1. Coming(Job) /\ state[Job] = "ready"
        BY <2>2, <3>2, CallFacts DEF Coming, Placed, IsInjective, Job
      <4>2. Current = qfile[Job]
        BY <2>2, <3>2 DEF Current, At, Placed
      <4> QED  BY <4>1, <4>2, <2>2, <2>4, <1>0 DEF Limits, Base
    <3> QED  BY <3>1, <3>2, <2>1, <2>4 DEF Outcome
  <2> QED  BY <2>3, <2>4, <1>0, <1>00 DEF Limits
<1>10. CASE Aborting
  <2>1. ~NoExcess'
    BY <1>10 DEF Aborting, NoExcess
  <2> QED  BY <2>1 DEF Limits
<1>11. CASE Crashing
  <2>1. ~OnCall'
    BY <1>11 DEF Crashing, OnCall, Shape
  <2> QED  BY <2>1, <1>0, <1>11, LimitsGo DEF Crashing
<1>12. CASE SlowWrite
  <2>1. PICK w \in writers : qfile' = [qfile EXCEPT ![w.job] = w.req] /\ writers' = writers \ {w}
    BY <1>12 DEF SlowWrite, Write
  <2>2. UNCHANGED fs /\ w.req.status = "done" /\ w.job \in Jobs
    BY <1>12 DEF SlowWrite, Base, Writing
  <2> QED  BY <2>1, <2>2, <1>0, <1>00 DEF Limits, OnCall
<1>13. CASE Reporting
  <2>1. ~OnCall' /\ writers' = {} /\ UNCHANGED faults
    BY <1>13 DEF Reporting, OnCall, Off
  <2>2. ASSUME NEW j \in Jobs, NoExcess'
        PROVE  Within(qfile'[j]) /\ (qfile'[j].status = "retry" => Below(qfile'[j]))
    <3>1. Within(qfile[j]) /\ (qfile[j].status = "retry" => Below(qfile[j]))
      BY <2>2, <1>0 DEF Limits
    <3>2. "abort" \notin faults /\ "format" \notin faults
      BY <2>2, <1>0 DEF NoExcess
    <3>3. qfile[j].status # "reformat"
      BY <3>2 DEF Base
    <3>4. CASE Reported(j)
      BY <3>1, <3>2, <3>3, <3>4 DEF Reported, Within, Below
    <3>5. CASE LeftAlone(j)
      BY <3>1, <3>2, <3>5 DEF LeftAlone, Fields, Within, Below
    <3> QED  BY <3>4, <3>5, <1>13 DEF Reporting
  <2> QED  BY <2>1, <2>2 DEF Limits
<1>14. CASE UNCHANGED vars
  BY <1>14 DEF vars, Limits, NoExcess, OnCall
<1> QED
  BY <1>1, <1>2, <1>3, <1>4, <1>5, <1>6, <1>7, <1>8, <1>9, <1>10, <1>11, <1>12, <1>13,
     <1>14 DEF StepKind

LEMMA LimitsInit ==
  ASSUME Init
  PROVE  Limits
<1>1. \A j \in Jobs : qfile[j].totdials = 0 /\ qfile[j].tottries = 0
  BY NewTyped DEF Init, Fields
<1>2. ~OnCall /\ writers = {}
  BY DEF Init, OnCall
<1> QED  BY <1>1, <1>2, SendAssumptions DEF Limits, Within, Below

\* The calls made for a job, m, are those that q counts, but for n.
Counted(m, q, n) == m.dials <= q.totdials + n /\ m.tries <= q.tottries + n

\* The calls made for a job are those that are counted: in its queue file, or in
\* the memory of faxsend, when the queue file may be one behind; and in what a
\* child has still to write.
Calls ==
  NoExcess =>
    /\ \A j \in Jobs : ~(OnCall /\ j = Job) => Counted(made[j], qfile[j], Lost)
    /\ OnCall => Counted(made[Job], fs.req, Lost)
    /\ OnCall /\ "crash" \notin faults => Counted(made[Job], qfile[Job], 1)
    /\ \A w \in writers : Counted(made[w.job], w.req, Lost)

LEMMA LostGrows ==
  ASSUME faults \subseteq faults'
  PROVE  Lost \in 0..1 /\ Lost' \in 0..1 /\ Lost <= Lost'
BY DEF Lost

\* More may be lost, and more may be counted.
LEMMA CountedOn ==
  ASSUME made \in Tallies, NEW j \in Jobs, NEW q \in Request, NEW r \in Request,
         NEW n \in 0..1, NEW m \in 0..1, n <= m, Counted(made[j], q, n), made'[j] = made[j],
         r.totdials = q.totdials /\ r.tottries = q.tottries
  PROVE  Counted(made'[j], r, m)
<1>1. /\ q.totdials \in Nat /\ q.tottries \in Nat /\ made[j].dials \in Nat /\ made[j].tries \in Nat
  BY DEF Request, Tallies
<1> QED  BY <1>1 DEF Counted

\* No child has still to write for a job that is about to be dialed for.
LEMMA WritersElsewhere ==
  ASSUME Base, fs.pc = "dial", NEW w \in writers
  PROVE  w.job # Job
<1>1. Writing(w)
  BY DEF Base
<1>2. /\ Placed /\ fs.cur \in 1..Len(fs.batch) /\ DOMAIN fs.batch = 1..Len(fs.batch)
      /\ Len(fs.batch) \in Nat
  BY CallFacts, LenProperties
<1>3. PICK i \in 1..Len(fs.batch) : w.job = fs.batch[i] /\ i < fs.cur
  BY <1>1 DEF Writing
<1> QED  BY <1>2, <1>3 DEF Placed, IsInjective, Job

\* A step that counts nothing: the job at hand keeps its counts, in memory and,
\* if it is written, in its queue file; so does what a child is to write.
LEMMA CallsGo ==
  ASSUME Base, Base', Calls, faults \subseteq faults', UNCHANGED made,
         OnCall, OnCall', Job' = Job, Job \in Jobs,
         fs'.req.totdials = fs.req.totdials, fs'.req.tottries = fs.req.tottries,
         \/ UNCHANGED qfile
         \/ /\ \A k \in Jobs \ {Job} : qfile'[k] = qfile[k]
            /\ qfile'[Job].totdials = fs.req.totdials /\ qfile'[Job].tottries = fs.req.tottries,
         \A w \in writers' :
           \/ w \in writers
           \/ w.job = Job /\ w.req.totdials = fs.req.totdials /\ w.req.tottries = fs.req.tottries
  PROVE  Calls'
<1>1. Lost \in 0..1 /\ Lost' \in 0..1 /\ Lost <= Lost' /\ (NoExcess' => NoExcess)
  BY LostGrows DEF NoExcess
<1>2. /\ made \in Tallies /\ qfile \in [Jobs -> Request] /\ qfile' \in [Jobs -> Request]
      /\ \A w \in writers : w.job \in Jobs /\ w.req \in Request
      /\ \A w \in writers' : w.job \in Jobs /\ w.req \in Request
  BY DEF Base, TypeOK, Tallies
<1>3. fs.req \in Request /\ fs'.req \in Request
  BY DEF Base, Call, OnCall, Off
<1> SUFFICES ASSUME NoExcess'  PROVE Calls'
  BY DEF Calls
<1>4. ASSUME NEW j \in Jobs, j # Job
      PROVE  Counted(made'[j], qfile'[j], Lost')
  <2>1. Counted(made[j], qfile[j], Lost)
    BY <1>1, <1>4 DEF Calls
  <2>2. Counted(made'[j], qfile[j], Lost')
    BY <2>1, <1>1, <1>2, CountedOn
  <2> QED  BY <2>2, <1>4
<1>5. Counted(made[Job], fs.req, Lost)
  BY <1>1 DEF Calls
<1>6. Counted(made'[Job], fs'.req, Lost')
  BY <1>1, <1>2, <1>3, <1>5, CountedOn
<1>7. ASSUME "crash" \notin faults'
      PROVE  Counted(made'[Job], qfile'[Job], 1)
  <2>1. Lost = 0 /\ Counted(made[Job], qfile[Job], 1)
    BY <1>1, <1>7 DEF Lost, Calls
  <2>2. qfile[Job] \in Request /\ qfile'[Job] \in Request
    BY <1>2
  <2>3. CASE UNCHANGED qfile
    BY <2>1, <2>3 DEF Counted
  <2>4. CASE qfile'[Job].totdials = fs.req.totdials /\ qfile'[Job].tottries = fs.req.tottries
    <3>1. Counted(made[Job], fs.req, 0)
      BY <1>5, <2>1
    <3> QED  BY <3>1, <2>2, <2>4, <1>2, <1>3, CountedOn
  <2> QED  BY <2>3, <2>4
<1>8. ASSUME NEW w \in writers'
      PROVE  Counted(made'[w.job], w.req, Lost')
  <2>1. w.job \in Jobs /\ w.req \in Request
    BY <1>2
  <2>2. CASE w \in writers
    <3>1. Counted(made[w.job], w.req, Lost)
      BY <2>2, <1>1 DEF Calls
    <3> QED  BY <3>1, <2>1, <1>1, <1>2, CountedOn
  <2>3. CASE w.job = Job /\ w.req.totdials = fs.req.totdials /\ w.req.tottries = fs.req.tottries
    <3>1. Counted(made'[w.job], w.req, Lost')
      BY <2>1, <2>3, <1>1, <1>2, <1>3, <1>5, CountedOn
    <3> QED  BY <3>1
  <2> QED  BY <2>2, <2>3
<1> QED  BY <1>4, <1>6, <1>7, <1>8 DEF Calls

LEMMA CallsStep ==
  ASSUME Base, Base', Calls, StepKind
  PROVE  Calls'
<1>0. faults \subseteq faults' /\ (NoExcess' => NoExcess)
  BY GrowingFaults DEF NoExcess
<1>00. Lost \in 0..1 /\ Lost' \in 0..1 /\ Lost <= Lost'
  BY <1>0, LostGrows
<1>01. /\ made \in Tallies /\ qfile \in [Jobs -> Request] /\ qfile' \in [Jobs -> Request]
       /\ \A w \in writers : w.job \in Jobs /\ w.req \in Request
  BY DEF Base, TypeOK, Tallies
<1>1. CASE Starting \/ Reject \/ Reporting
  <2>1. ~OnCall /\ ~OnCall' /\ UNCHANGED <<made, faults>> /\ writers' = writers
    BY <1>1, OffFacts DEF Starting, Reject, Reporting, OnCall, Shape, Off, At
  <2>2. Lost' = Lost
    BY <2>1 DEF Lost
  <2> SUFFICES ASSUME NoExcess'  PROVE Calls'
    BY DEF Calls
  <2>3. ASSUME NEW j \in Jobs
        PROVE  Counted(made'[j], qfile'[j], Lost')
    <3>1. Counted(made[j], qfile[j], Lost)
      BY <2>1, <1>0 DEF Calls
    <3>2. /\ qfile'[j].totdials \in {qfile[j].totdials, qfile[j].totdials + 1}
          /\ qfile'[j].tottries = qfile[j].tottries
      <4>1. CASE Reporting
        <5>1. Reported(j) \/ LeftAlone(j)
          BY <4>1 DEF Reporting
        <5> QED  BY <5>1 DEF Reported, LeftAlone, Fields
      <4> QED  BY <4>1, <1>1 DEF Starting, Reject
    <3>3. qfile[j].totdials \in Nat /\ made[j].dials \in Nat
      BY <1>01 DEF Request, Tallies
    <3> QED  BY <3>1, <3>2, <3>3, <2>1, <2>2, <1>00 DEF Counted
  <2>4. ASSUME NEW w \in writers'
        PROVE  Counted(made'[w.job], w.req, Lost')
    BY <2>1, <2>2, <1>0 DEF Calls, Counted
  <2> QED  BY <2>1, <2>3, <2>4 DEF Calls
<1>2. CASE Reading
  <2>1. /\ ~OnCall /\ OnCall' /\ Job' = Job /\ Job \in Jobs /\ fs'.req = qfile[Job]
        /\ UNCHANGED <<qfile, writers, made, faults>>
    BY <1>2, CallFacts DEF Reading, Moved, Shape, OnCall, Job
  <2>2. Lost' = Lost
    BY <2>1 DEF Lost
  <2> SUFFICES ASSUME NoExcess'  PROVE Calls'
    BY DEF Calls
  <2>3. \A j \in Jobs : Counted(made'[j], qfile'[j], Lost')
    BY <2>1, <2>2, <1>0 DEF Calls, Counted
  <2>4. Counted(made'[Job'], fs'.req, Lost')
    BY <2>1, <2>3
  <2>5. ASSUME "crash" \notin faults'
        PROVE  Counted(made'[Job'], qfile'[Job'], 1)
    <3>1. Lost = 0 /\ Counted(made[Job], qfile[Job], Lost) /\ qfile[Job] \in Request
      BY <2>1, <2>5, <1>0, <1>01 DEF Lost, Calls
    <3> QED  BY <3>1, <2>1, <1>01, CountedOn
  <2>6. \A w \in writers' : Counted(made'[w.job], w.req, Lost')
    BY <2>1, <2>2, <1>0 DEF Calls, Counted
  <2> QED  BY <2>1, <2>3, <2>4, <2>5, <2>6 DEF Calls
<1>3. CASE Dialing
  <2>1. /\ OnCall /\ OnCall' /\ Job' = Job /\ Job \in Jobs /\ fs.pc = "dial"
        /\ fs.req = qfile[Job] /\ fs.req \in Request
    BY <1>3, CallFacts DEF Dialing, Moved, Shape, OnCall, Job, Placed
  <2>2. /\ UNCHANGED <<qfile, writers, faults>> /\ \A j \in Jobs \ {Job} : made'[j] = made[j]
        /\ made'[Job].dials <= made[Job].dials + (IF IsFirst THEN 1 ELSE 0) /\ made'[Job].tries <= made[Job].tries + 1
        /\ fs'.req.totdials = fs.req.totdials + 1 /\ fs'.req.tottries = fs.req.tottries + 1
    BY <1>3 DEF Dialing, Fields
  <2>3. Lost' = Lost
    BY <2>2 DEF Lost
  <2>4. /\ made'[Job].dials \in Nat /\ made'[Job].tries \in Nat
        /\ made[Job].dials \in Nat /\ made[Job].tries \in Nat
        /\ fs.req.totdials \in Nat /\ fs.req.tottries \in Nat
    BY <2>1, <1>01 DEF Base, TypeOK, Tallies, Request
  <2> SUFFICES ASSUME NoExcess'  PROVE Calls'
    BY DEF Calls
  <2>5. Counted(made[Job], fs.req, Lost)
    BY <2>1, <1>0 DEF Calls
  <2>6. Counted(made'[Job], fs'.req, Lost')
    BY <2>2, <2>3, <2>4, <2>5, <1>00 DEF Counted
  <2>7. "crash" \notin faults' => Counted(made'[Job], qfile'[Job], 1)
    BY <2>1, <2>2, <2>4, <2>5 DEF Counted, Lost
  <2>8. ASSUME NEW j \in Jobs, j # Job
        PROVE  Counted(made'[j], qfile'[j], Lost')
    BY <2>2, <2>3, <2>8, <1>0 DEF Calls, Counted
  <2>9. ASSUME NEW w \in writers'
        PROVE  Counted(made'[w.job], w.req, Lost')
    <3>1. w \in writers /\ w.job # Job /\ w.job \in Jobs
      BY <2>1, <2>2, <1>01, WritersElsewhere
    <3> QED  BY <3>1, <2>2, <2>3, <1>0 DEF Calls, Counted
  <2> QED  BY <2>1, <2>6, <2>7, <2>8, <2>9 DEF Calls
<1>4. CASE SettingUp \/ Opening \/ Delivering
  <2>1. /\ OnCall /\ OnCall' /\ Job' = Job /\ Job \in Jobs /\ UNCHANGED <<made, writers>>
        /\ fs'.req.totdials = fs.req.totdials /\ fs'.req.tottries = fs.req.tottries
    BY <1>4, CallFacts
       DEF SettingUp, Opening, Delivering, Moved, Shape, Fields, OnCall, Job
  <2>2. \/ UNCHANGED qfile
        \/ /\ \A k \in Jobs \ {Job} : qfile'[k] = qfile[k]
           /\ qfile'[Job].totdials = fs.req.totdials /\ qfile'[Job].tottries = fs.req.tottries
    BY <2>1, <1>4, <1>01 DEF SettingUp, Opening, Delivering
  <2> QED  BY <2>1, <2>2, <1>0, CallsGo
<1>5. CASE Confirming
  <2>1. /\ OnCall /\ OnCall' /\ Job' = Job /\ Job \in Jobs /\ UNCHANGED made
        /\ fs'.req.totdials = fs.req.totdials /\ fs'.req.tottries = fs.req.tottries
    BY <1>5, CallFacts DEF Confirming, Moved, Shape, Fields, OnCall, Job
  <2>2. PICK w \in Request :
        /\ w.totdials = fs.req.totdials /\ w.tottries = fs.req.tottries
        /\ \/ qfile' = [qfile EXCEPT ![Job] = w] /\ UNCHANGED writers
           \/ /\ writers' = writers \cup {[job |-> Job, req |-> w, page |-> w.npages]}
              /\ UNCHANGED qfile
    BY <1>5 DEF Confirming, Fields
  <2>3. \/ UNCHANGED qfile
        \/ /\ \A k \in Jobs \ {Job} : qfile'[k] = qfile[k]
           /\ qfile'[Job].totdials = fs.req.totdials /\ qfile'[Job].tottries = fs.req.tottries
    BY <2>1, <2>2, <1>01
  <2>4. \A v \in writers' :
          \/ v \in writers
          \/ v.job = Job /\ v.req.totdials = fs.req.totdials /\ v.req.tottries = fs.req.tottries
    BY <2>2
  <2> QED  BY <2>1, <2>3, <2>4, <1>0, CallsGo
<1>6. CASE Ending
  <2> SUFFICES ASSUME NoExcess'  PROVE Calls'
    BY DEF Calls
  <2>1. PICK r \in Request : Ended(r) /\ Outcome(Current, r)
    BY <1>6 DEF Ending
  <2>2. fs.pc \notin {"off", "exit"} /\ fs \in Call /\ Job \in Jobs
    BY <1>6, CallFacts DEF Ending
  <2>3. ~OnCall' /\ UNCHANGED writers /\ qfile' = [qfile EXCEPT ![Job] = r]
    BY <1>6, <2>1 DEF Ending, Ended, Shape, OnCall
  <2>4. Counted(made[Job], Current, Lost) /\ Current \in Request
    <3>1. CASE At("file")
      BY <3>1, <2>2, <1>0, <1>01 DEF Calls, Current, At, OnCall
    <3>2. CASE ~At("file")
      BY <3>2, <2>2, <1>0 DEF Calls, Current, At, OnCall, Call, Pcs
    <3> QED  BY <3>1, <3>2
  <2>5. Tallied(Current, r)
    BY <2>1 DEF Outcome
  <2>6. Counted(made'[Job], r, Lost')
    <3>1. CASE /\ UNCHANGED made /\ r.totdials \in {Current.totdials, Current.totdials + 1}
               /\ r.tottries = Current.tottries
      <4>1. /\ made[Job].dials \in Nat /\ made[Job].tries \in Nat /\ r.totdials \in Nat
            /\ Current.totdials \in Nat /\ Current.tottries \in Nat
        BY <2>2, <2>4, <1>01 DEF Tallies, Request
      <4>2. Counted(made[Job], Current, Lost)
        BY <2>4
      <4> QED  BY <3>1, <4>1, <4>2, <1>00 DEF Counted
    <3>2. CASE /\ made'[Job].dials <= made[Job].dials + 1 /\ made'[Job].tries = made[Job].tries
               /\ r.totdials = Current.totdials + 1 /\ r.tottries = Current.tottries
      <4>1. /\ made'[Job].dials \in Nat /\ made[Job].dials \in Nat /\ made[Job].tries \in Nat
            /\ Current.totdials \in Nat /\ Current.tottries \in Nat
        BY <2>2, <2>4, <1>01 DEF Base, TypeOK, Tallies, Request
      <4>2. Counted(made[Job], Current, Lost)
        BY <2>4
      <4> QED  BY <3>2, <4>1, <4>2, <1>00 DEF Counted
    <3> QED  BY <3>1, <3>2, <2>5 DEF Tallied
  <2>7. ASSUME NEW j \in Jobs, j # Job
        PROVE  Counted(made'[j], qfile'[j], Lost')
    <3>1. Counted(made[j], qfile[j], Lost) /\ made'[j] = made[j] /\ qfile'[j] = qfile[j]
      BY <2>3, <2>5, <2>7, <1>0, <1>01 DEF Calls, Tallied
    <3> QED  BY <3>1, <1>00, <1>01, CountedOn
  <2>8. ASSUME NEW w \in writers'
        PROVE  Counted(made'[w.job], w.req, Lost')
    <3>1. w \in writers /\ Counted(made[w.job], w.req, Lost) /\ w.job \in Jobs /\ w.req \in Request
      BY <2>3, <1>0, <1>01 DEF Calls
    <3>2. made'[w.job] = made[w.job]
      BY <3>1, <2>5, WritersElsewhere DEF Tallied, At
    <3> QED  BY <3>1, <3>2, <1>00, <1>01, CountedOn
  <2> QED  BY <2>2, <2>3, <2>6, <2>7, <2>8, <1>01 DEF Calls
<1>7. CASE Aborting
  BY <1>7 DEF Aborting, NoExcess, Calls
<1>8. CASE Crashing
  <2> SUFFICES ASSUME NoExcess'  PROVE Calls'
    BY DEF Calls
  <2>1. ~OnCall' /\ UNCHANGED <<qfile, writers, made>> /\ Job \in Jobs
    BY <1>8, CallFacts DEF Crashing, Shape, OnCall
  <2>2. ASSUME NEW j \in Jobs
        PROVE  Counted(made'[j], qfile'[j], Lost')
    <3>1. CASE OnCall /\ j = Job
      <4>1. "crash" \notin faults /\ Lost' = 1
        BY <3>1, <1>8 DEF Crashing, OnCall, Lost
      <4>2. Counted(made[Job], qfile[Job], 1)
        BY <3>1, <4>1, <1>0 DEF Calls
      <4> QED  BY <3>1, <4>1, <4>2, <2>1 DEF Counted
    <3>2. CASE ~(OnCall /\ j = Job)
      <4>1. Counted(made[j], qfile[j], Lost)
        BY <3>2, <1>0 DEF Calls
      <4> QED  BY <4>1, <2>1, <1>00, <1>01, CountedOn
    <3> QED  BY <3>1, <3>2
  <2>3. ASSUME NEW w \in writers'
        PROVE  Counted(made'[w.job], w.req, Lost')
    <3>1. w \in writers /\ Counted(made[w.job], w.req, Lost) /\ w.job \in Jobs /\ w.req \in Request
      BY <2>1, <1>0, <1>01 DEF Calls
    <3> QED  BY <3>1, <2>1, <1>00, <1>01, CountedOn
  <2> QED  BY <2>1, <2>2, <2>3 DEF Calls
<1>9. CASE SlowWrite
  <2> SUFFICES ASSUME NoExcess'  PROVE Calls'
    BY DEF Calls
  <2>1. PICK w \in writers : qfile' = [qfile EXCEPT ![w.job] = w.req] /\ writers' = writers \ {w}
    BY <1>9 DEF SlowWrite, Write
  <2>2. UNCHANGED <<fs, made, faults>> /\ w.job \in Jobs /\ w.req \in Request
    BY <1>9, <1>01 DEF SlowWrite
  <2>3. Lost' = Lost /\ (OnCall' <=> OnCall) /\ Job' = Job
    BY <2>2 DEF Lost, OnCall, Job
  <2>4. Counted(made[w.job], w.req, Lost)
    BY <2>1, <1>0 DEF Calls
  <2>5. ASSUME NEW j \in Jobs, ~(OnCall /\ j = Job)
        PROVE  Counted(made'[j], qfile'[j], Lost')
    <3>1. Counted(made[j], qfile[j], Lost)
      BY <2>5, <1>0 DEF Calls
    <3> QED  BY <3>1, <2>1, <2>2, <2>3, <2>4, <1>01 DEF Counted
  <2>6. OnCall => Counted(made'[Job], fs'.req, Lost')
    BY <2>2, <2>3, <1>0 DEF Calls, Counted
  <2>7. ASSUME OnCall, "crash" \notin faults'
        PROVE  Counted(made'[Job], qfile'[Job], 1)
    <3>1. Counted(made[Job], qfile[Job], 1) /\ Lost = 0 /\ Job \in Jobs
      BY <2>2, <2>7, <1>0, CallFacts DEF Calls, Lost, OnCall
    <3>2. CASE w.job = Job
      <4>1. Counted(made'[Job], w.req, 1)
        BY <2>2, <2>4, <3>1, <3>2, <1>01, CountedOn
      <4> QED  BY <4>1, <3>2, <2>1, <1>01, <3>1
    <3>3. CASE w.job # Job
      BY <3>1, <3>3, <2>1, <2>2, <1>01 DEF Counted
    <3> QED  BY <3>2, <3>3
  <2>8. ASSUME NEW v \in writers'
        PROVE  Counted(made'[v.job], v.req, Lost')
    BY <2>1, <2>2, <2>3, <1>0 DEF Calls, Counted
  <2> QED  BY <2>3, <2>5, <2>6, <2>7, <2>8 DEF Calls
<1>10. CASE UNCHANGED vars
  BY <1>10 DEF vars, Calls, NoExcess, OnCall, Counted, Lost, Job
<1> QED
  BY <1>1, <1>2, <1>3, <1>4, <1>5, <1>6, <1>7, <1>8, <1>9, <1>10 DEF StepKind

LEMMA CallsInit ==
  ASSUME Init
  PROVE  Calls
<1>1. \A j \in Jobs : /\ qfile[j].totdials = 0 /\ qfile[j].tottries = 0
                       /\ made[j].dials = 0 /\ made[j].tries = 0
  BY NewTyped DEF Init, Fields
<1>2. ~OnCall /\ writers = {}
  BY DEF Init, OnCall
<1> QED  BY <1>1, <1>2 DEF Calls, Counted, Lost

\* The dials need more than the counts where calls of others are counted for a job:
\* the job that a call is made for, the first of its batch, was below the limit
\* when the batch was made, and is so until it is dialed.
Dials ==
  NoExcess =>
    /\ \A j \in Jobs : made[j].dials <= MaxDials + Lost
    /\ fs.pc \in {"file", "dial"} /\ IsFirst => qfile[Job].totdials < MaxDials

\* A step in which nothing is dialed, and that does not begin with a batch.
LEMMA DialsGo ==
  ASSUME Base, Dials, faults \subseteq faults', UNCHANGED made,
         fs'.pc \in {"file", "dial"} /\ IsFirst' =>
           fs.pc \in {"file", "dial"} /\ IsFirst /\ qfile'[Job'] = qfile[Job]
  PROVE  Dials'
<1>1. Lost \in 0..1 /\ Lost' \in 0..1 /\ Lost <= Lost' /\ (NoExcess' => NoExcess)
  BY LostGrows DEF NoExcess
<1>2. MaxDials \in Nat /\ \A j \in Jobs : made[j].dials \in Nat
  BY SendAssumptions DEF Base, TypeOK
<1> QED  BY <1>1, <1>2 DEF Dials

LEMMA DialsStep ==
  ASSUME Base, Base', Calls, Dials, StepKind
  PROVE  Dials'
<1>0. faults \subseteq faults' /\ (NoExcess' => NoExcess)
  BY GrowingFaults DEF NoExcess
<1>00. Lost \in 0..1 /\ Lost' \in 0..1 /\ Lost <= Lost'
  BY <1>0, LostGrows
<1>01. /\ made \in Tallies /\ made' \in Tallies /\ qfile \in [Jobs -> Request]
       /\ MaxDials \in Nat
  BY SendAssumptions DEF Base, TypeOK, Tallies
<1>1. CASE Starting
  <2>1. PICK b \in Seq(Jobs) :
          /\ b # <<>> /\ ~(qfile[b[1]].totdials >= MaxDials)
          /\ Shape(fs', "file", b, 1, "done", qfile[b[1]], 0, FALSE, FALSE, FALSE)
    BY <1>1 DEF Starting
  <2>2. Job' = b[1] /\ UNCHANGED <<qfile, made, faults>> /\ Lost' = Lost
    BY <1>1, <2>1 DEF Starting, Shape, Job, Lost
  <2>3. b[1] \in Jobs
    BY <2>1, EmptySeq, ElementOfSeq
  <2>4. qfile'[Job'].totdials < MaxDials
    BY <2>1, <2>2, <2>3, <1>01 DEF Request
  <2> QED  BY <2>2, <2>4, <1>0 DEF Dials
<1>2. CASE Reject \/ Reporting \/ Crashing
  <2>1. fs'.pc \notin {"file", "dial"} /\ UNCHANGED made
    BY <1>2, OffFacts DEF Reject, Reporting, Crashing, Off, Shape, At
  <2> QED  BY <2>1, <1>0, DialsGo
<1>3. CASE Reading \/ SettingUp \/ Opening \/ Delivering \/ Confirming
  <2>1. UNCHANGED made
    BY <1>3 DEF Reading, SettingUp, Opening, Delivering, Confirming
  <2>2. fs'.pc \in {"file", "dial"} => Reading
    BY <1>3 DEF SettingUp, Opening, Delivering, Confirming, Moved, Shape
  <2>3. Reading => fs.pc = "file" /\ Job' = Job /\ (IsFirst' <=> IsFirst) /\ UNCHANGED qfile
    BY DEF Reading, Moved, Shape, Job, IsFirst
  <2> QED  BY <2>1, <2>2, <2>3, <1>0, DialsGo
<1>4. CASE Dialing
  <2>1. /\ OnCall /\ Job \in Jobs /\ fs.pc = "dial" /\ fs'.pc = "prologue"
        /\ fs.req = qfile[Job] /\ fs.req \in Request
    BY <1>4, CallFacts DEF Dialing, Moved, Shape, OnCall, Placed
  <2>2. /\ \A j \in Jobs \ {Job} : made'[j] = made[j]
        /\ made'[Job].dials <= made[Job].dials + (IF IsFirst THEN 1 ELSE 0)
        /\ UNCHANGED faults
    BY <1>4 DEF Dialing
  <2>3. Lost' = Lost
    BY <2>2 DEF Lost
  <2> SUFFICES ASSUME NoExcess'  PROVE Dials'
    BY DEF Dials
  <2>4. made'[Job].dials \in Nat /\ made[Job].dials \in Nat /\ fs.req.totdials \in Nat
    BY <2>1, <1>01 DEF Tallies, Request
  <2>5. made[Job].dials <= MaxDials + Lost
    BY <2>1, <1>0 DEF Dials
  <2>6. IsFirst => made[Job].dials < MaxDials + Lost
    <3>1. made[Job].dials <= fs.req.totdials + Lost
      BY <2>1, <1>0 DEF Calls, Counted
    <3>2. IsFirst => fs.req.totdials < MaxDials
      BY <2>1, <1>0 DEF Dials
    <3> QED  BY <3>1, <3>2, <2>4, <1>00, <1>01
  <2>7. made'[Job].dials <= MaxDials + Lost'
    <3>1. CASE IsFirst
      BY <3>1, <2>2, <2>3, <2>4, <2>6, <1>00, <1>01
    <3>2. CASE ~IsFirst
      BY <3>2, <2>2, <2>3, <2>4, <2>5, <1>00, <1>01
    <3> QED  BY <3>1, <3>2
  <2>8. \A j \in Jobs : made'[j].dials <= MaxDials + Lost'
    BY <2>2, <2>3, <2>7, <1>0 DEF Dials
  <2> QED  BY <2>1, <2>8 DEF Dials
<1>5. CASE Ending
  <2> SUFFICES ASSUME NoExcess'  PROVE Dials'
    BY DEF Dials
  <2>1. PICK r \in Request : Ended(r) /\ Outcome(Current, r)
    BY <1>5 DEF Ending
  <2>2. /\ fs.pc \notin {"off", "exit"} /\ fs \in Call /\ Job \in Jobs
        /\ fs.cur \in 1..Len(fs.batch) /\ Placed
    BY <1>5, CallFacts DEF Ending
  <2>3. ~IsFirst'
    BY <2>1, <2>2 DEF Ended, Shape, IsFirst
  <2>4. CASE UNCHANGED made
    BY <2>3, <2>4, <1>0, DialsGo
  <2>5. CASE /\ At("dial") /\ IsFirst /\ \A k \in Jobs \ {Job} : made'[k] = made[k]
             /\ made'[Job].dials <= made[Job].dials + 1
    <3>1. OnCall /\ fs.pc = "dial" /\ fs.req = qfile[Job] /\ fs.req \in Request
      BY <2>2, <2>5, CallFacts DEF At, OnCall, Placed
    <3>2. made[Job].dials <= fs.req.totdials + Lost /\ fs.req.totdials < MaxDials
      BY <2>5, <3>1, <1>0 DEF Calls, Counted, Dials
    <3>3. made'[Job].dials \in Nat /\ made[Job].dials \in Nat /\ fs.req.totdials \in Nat
      BY <2>2, <3>1, <1>01 DEF Tallies, Request
    <3>4. made'[Job].dials <= MaxDials + Lost'
      BY <2>5, <3>2, <3>3, <1>00, <1>01
    <3>5. ASSUME NEW j \in Jobs, j # Job
          PROVE  made'[j].dials <= MaxDials + Lost'
      <4>1. made'[j] = made[j] /\ made[j].dials <= MaxDials + Lost /\ made[j].dials \in Nat
        BY <2>5, <3>5, <1>0, <1>01 DEF Dials, Tallies
      <4> QED  BY <4>1, <1>00, <1>01
    <3> QED  BY <2>3, <3>4, <3>5 DEF Dials
  <2> QED  BY <2>1, <2>4, <2>5 DEF Outcome, Tallied
<1>6. CASE Aborting
  BY <1>6 DEF Aborting, NoExcess, Dials
<1>7. CASE SlowWrite
  <2>1. PICK w \in writers : qfile' = [qfile EXCEPT ![w.job] = w.req]
    BY <1>7 DEF SlowWrite, Write
  <2>2. UNCHANGED <<fs, made>> /\ Writing(w)
    BY <1>7 DEF SlowWrite, Base
  <2>3. ~(fs.pc \in {"file", "dial"} /\ IsFirst)
    <3> SUFFICES ASSUME fs.pc \in {"file", "dial"}  PROVE ~IsFirst
      OBVIOUS
    <3>1. PICK i \in 1..Len(fs.batch) : i < fs.cur
      BY <2>2 DEF Writing
    <3>2. fs.cur \in 1..Len(fs.batch) /\ Len(fs.batch) \in Nat
      BY CallFacts, LenProperties
    <3> QED  BY <3>1, <3>2 DEF IsFirst
  <2> QED  BY <2>2, <2>3, <1>0, DialsGo DEF IsFirst
<1>8. CASE UNCHANGED vars
  BY <1>8, <1>0, DialsGo DEF vars, IsFirst, Job
<1> QED
  BY <1>1, <1>2, <1>3, <1>4, <1>5, <1>6, <1>7, <1>8 DEF StepKind

\* However the calls end, a job is dialed for no more than maxdials times and tried
\* no more than maxtries times, in calls really made, but for the one call that a
\* crash may have interrupted: for any jobs and limits, batches of any length,
\* whatever the configuration, with call failures shared or not, faxsend dying, the
\* modem not to be had, documents vanishing and children writing late at any time.
THEOREM LimitsAreKept == Spec => []LimitsKept
<1> DEFINE Inv == Base /\ Limits /\ Calls /\ Dials
<1>1. Init => Inv
  <2>1. Init => fs.pc = "off" /\ \A j \in Jobs : made[j].dials = 0
    BY DEF Init
  <2>2. MaxDials \in Nat /\ Lost \in 0..1
    BY SendAssumptions DEF Lost
  <2> QED  BY <2>1, <2>2, BaseInit, LimitsInit, CallsInit DEF Dials
<1>2. Inv /\ [Next]_vars => Inv'
  <2> SUFFICES ASSUME Base, Limits, Calls, Dials, [Next]_vars  PROVE Inv'
    OBVIOUS
  <2>1. Base' /\ StepKind
    BY BaseStep, Kinds
  <2> QED  BY <2>1, LimitsStep, CallsStep, DialsStep
<1>3. Inv => LimitsKept
  <2> SUFFICES ASSUME Base, Limits, Calls, Dials, NoExcess, NEW j \in Jobs
               PROVE  made[j].dials <= MaxDials + Lost /\ made[j].tries <= MaxTries + Lost
    BY DEF LimitsKept, NoExcess
  <2>1. made[j].tries \in Nat /\ MaxTries \in Nat /\ Lost \in 0..1
    BY SendAssumptions DEF Base, TypeOK, Lost
  <2>2. PICK q \in Request : Counted(made[j], q, Lost) /\ Within(q)
    <3>1. CASE OnCall /\ j = Job
      <4>1. fs.req \in Request
        BY <3>1, CallFacts DEF OnCall
      <4> QED  BY <3>1, <4>1 DEF Calls, Limits
    <3>2. CASE ~(OnCall /\ j = Job)
      BY <3>2 DEF Calls, Limits, Base, TypeOK
    <3> QED  BY <3>1, <3>2
  <2>3. q.tottries \in Nat
    BY DEF Request
  <2> QED  BY <2>1, <2>2, <2>3 DEF Counted, Within, Dials
<1> QED  BY <1>1, <1>2, <1>3, PTL DEF Spec
-----------------------------------------------------------------------------
(* What a batch comes to *)

\* The modem did not get ready, and no job was come to.
Unbegun ==
  faults \subseteq {"abort", "vanish", "format"} =>
    \A i \in 1..Len(fs.batch) : qfile[fs.batch[i]].status = "retry"

\* faxsend is on line only with the modem locked, and lets go of it at the end.
Line ==
  fs # Off =>
    /\ fs.connected => fs.locked
    /\ OnCall => fs.locked
    /\ fs.pc = "file" /\ fs.cur = 1 => ~fs.locked /\ ~fs.connected
    /\ fs.pc = "exit" /\ "crash" \notin faults =>
         ~fs.locked /\ ~fs.connected /\ (fs.cur = Len(fs.batch) + 1 \/ Unbegun)

NoLoss == faults \subseteq {"abort", "vanish", "format"}

SentUpTo(stop) ==
  \A i \in 1..Len(fs.batch) : i < fs.cur =>
    /\ i < stop => qfile[fs.batch[i]].status = "done"
    /\ i = stop => qfile[fs.batch[i]].status # "done"
    /\ i > stop => qfile[fs.batch[i]].status = "retry"

\* The jobs the call has been through: sent, up to the one that was not.
Prefix ==
  fs # Off /\ NoLoss =>
    \E stop \in 1..fs.cur : SentUpTo(stop) /\ (fs.status = "done" <=> stop = fs.cur)

LEMMA LineStep ==
  ASSUME Base, Line, StepKind
  PROVE  Line'
<1>1. CASE Starting
  BY <1>1 DEF Starting, Shape, Line, OnCall
<1>2. CASE Reject \/ Reporting
  BY <1>2, OffFacts DEF Reject, Reporting, Line, At
<1>3. CASE Reading
  BY <1>3 DEF Reading, Moved, Shape, Line, OnCall
<1>4. CASE Dialing
  <2>1. OnCall /\ fs # Off
    BY <1>4 DEF Dialing, OnCall, Off
  <2> QED  BY <2>1, <1>4 DEF Dialing, Moved, Shape, Line, OnCall
<1>5. CASE SettingUp
  <2>1. OnCall /\ fs # Off
    BY <1>5 DEF SettingUp, OnCall, Off
  <2> QED  BY <2>1, <1>5 DEF SettingUp, Moved, Shape, Line, OnCall
<1>6. CASE Opening
  <2>1. OnCall /\ fs # Off
    BY <1>6 DEF Opening, OnCall, Off
  <2> QED  BY <2>1, <1>6 DEF Opening, Moved, Shape, Line, OnCall
<1>7. CASE Delivering
  <2>1. OnCall /\ fs # Off
    BY <1>7 DEF Delivering, OnCall, Off
  <2> QED  BY <2>1, <1>7 DEF Delivering, Moved, Shape, Line, OnCall
<1>8. CASE Confirming
  <2>1. OnCall /\ fs # Off
    BY <1>8 DEF Confirming, OnCall, Off
  <2> QED  BY <2>1, <1>8 DEF Confirming, Moved, Shape, Line, OnCall
<1>9. CASE Ending
  <2>1. PICK r \in Request : Ended(r)
    BY <1>9 DEF Ending
  <2>2. fs # Off
    BY <1>9 DEF Ending, Off
  <2>3. /\ fs'.pc = (IF IsLast THEN "exit" ELSE "file") /\ fs'.cur = fs.cur + 1
        /\ fs'.locked = (fs.locked /\ ~(IsLast \/ r.status # "done"))
        /\ fs'.connected = (fs.connected /\ ~(IsLast \/ r.status # "done"))
        /\ fs'.batch = fs.batch
    BY <2>1 DEF Ended, Shape
  <2>4. fs.cur \in 1..Len(fs.batch) /\ Len(fs.batch) \in Nat
    BY <1>9, CallFacts DEF Ending
  <2>5. fs'.cur # 1
    BY <2>3, <2>4
  <2>6. fs.connected => fs.locked
    BY <2>2 DEF Line
  <2>7. fs'.connected => fs'.locked
    BY <2>3, <2>6
  <2>8. ~OnCall' /\ (fs'.pc = "exit" => IsLast)
    BY <2>3 DEF OnCall
  <2>9. IsLast => ~fs'.locked /\ ~fs'.connected /\ fs'.cur = Len(fs'.batch) + 1
    BY <2>3 DEF IsLast
  <2> QED  BY <2>5, <2>7, <2>8, <2>9 DEF Line
<1>10. CASE Aborting
  <2>1. fs # Off
    BY <1>10 DEF Aborting, OnCall, Off
  <2> QED  BY <2>1, <1>10 DEF Aborting, Shape, Line, OnCall
<1>11. CASE Crashing
  <2>1. fs # Off
    BY <1>11 DEF Crashing, Off
  <2>2. CASE "crash" \in faults'
    BY <2>1, <2>2, <1>11 DEF Crashing, Shape, Line, OnCall
  <2>3. CASE fs.pc = "file" /\ fs.cur = 1
    <3>1. fs'.batch = fs.batch /\ UNCHANGED qfile /\ fs.batch \in Seq(Jobs) /\ Placed
      BY <2>3, <1>11, CallFacts DEF Crashing, Shape
    <3>2. ASSUME NEW i \in 1..Len(fs.batch)
          PROVE  qfile[fs.batch[i]].status = "retry"
      <4>1. state[fs.batch[i]] = "ready" /\ fs.batch[i] \in Jobs
        BY <3>1, ElementOfSeq DEF Placed
      <4>2. \A k \in 1..Len(fs.batch) : k > 1 \/ k = 1
        OBVIOUS
      <4>3. Coming(fs.batch[i])
        BY <2>3, <4>2 DEF Coming
      <4> QED  BY <4>1, <4>3 DEF Base
    <3>3. Unbegun'
      BY <3>1, <3>2 DEF Unbegun
    <3> QED  BY <2>1, <2>3, <3>3, <1>11 DEF Crashing, Shape, Line, OnCall
  <2> QED  BY <2>2, <2>3, <1>11 DEF Crashing
<1>12. CASE SlowWrite
  <2>1. UNCHANGED <<fs, faults>> /\ "slow" \in faults
    BY <1>12 DEF SlowWrite, Base
  <2>2. Unbegun'
    BY <2>1 DEF Unbegun
  <2> QED  BY <2>1, <2>2 DEF Line, OnCall
<1>13. CASE UNCHANGED vars
  BY <1>13 DEF vars, Line, OnCall, Unbegun
<1> QED
  BY <1>1, <1>2, <1>3, <1>4, <1>5, <1>6, <1>7, <1>8, <1>9, <1>10, <1>11, <1>12, <1>13
  DEF StepKind

LEMMA GoingKinds ==
  ASSUME Base, Reading \/ Dialing \/ SettingUp \/ Opening \/ Delivering \/ Confirming \/ Aborting
  PROVE  Going
BY ReadingGoes, DialingGoes, SettingUpGoes, OpeningGoes, DeliveringGoes, ConfirmingGoes,
   AbortingGoes

LEMMA PrefixStep ==
  ASSUME Base, Prefix, StepKind
  PROVE  Prefix'
<1>0. NoLoss' => NoLoss
  BY GrowingFaults DEF NoLoss
<1>1. CASE Starting
  <2>1. fs'.cur = 1 /\ fs'.status = "done"
    BY <1>1 DEF Starting, Shape
  <2>2. SentUpTo(1)'
    BY <2>1 DEF SentUpTo
  <2> QED  BY <2>1, <2>2 DEF Prefix
<1>2. CASE Reject \/ Reporting
  BY <1>2, OffFacts DEF Reject, Reporting, Prefix, At
<1>3. CASE Going
  <2> SUFFICES ASSUME NoLoss'  PROVE Prefix'
    BY DEF Prefix
  <2>1. /\ fs # Off /\ fs.cur \in 1..Len(fs.batch) /\ IsInjective(fs.batch) /\ Job \in Jobs
        /\ DOMAIN fs.batch = 1..Len(fs.batch) /\ fs.cur \in Nat /\ Len(fs.batch) \in Nat
    BY <1>3, CallFacts, LenProperties DEF Going, Placed
  <2>2. PICK stop \in 1..fs.cur : SentUpTo(stop) /\ (fs.status = "done" <=> stop = fs.cur)
    BY <2>1, <1>0 DEF Prefix
  <2>3. fs'.batch = fs.batch /\ fs'.cur = fs.cur /\ fs'.status = fs.status
    BY <1>3 DEF Going
  <2>4. \A i \in 1..Len(fs.batch) : i < fs.cur => fs.batch[i] # Job
    BY <2>1 DEF IsInjective, Job
  <2>5. qfile \in [Jobs -> Request] /\ \A i \in 1..Len(fs.batch) : fs.batch[i] \in Jobs
    BY <1>3, CallFacts, ElementOfSeq DEF Going, Base, TypeOK
  <2>6. \A j \in Jobs : j # Job => qfile'[j] = qfile[j]
    BY <1>3, <2>5 DEF Going
  <2>7. SentUpTo(stop)'
    BY <2>2, <2>3, <2>4, <2>5, <2>6 DEF SentUpTo
  <2> QED  BY <2>2, <2>3, <2>7 DEF Prefix
<1>4. CASE Ending
  <2> SUFFICES ASSUME NoLoss'  PROVE Prefix'
    BY DEF Prefix
  <2>1. /\ fs # Off /\ fs.cur \in 1..Len(fs.batch) /\ IsInjective(fs.batch) /\ Job \in Jobs
        /\ DOMAIN fs.batch = 1..Len(fs.batch) /\ fs.cur \in Nat /\ Len(fs.batch) \in Nat
        /\ OnCall \/ fs.pc = "file"
    BY <1>4, CallFacts, LenProperties DEF Ending, Placed, OnCall, Pcs
  <2>2. PICK stop \in 1..fs.cur : SentUpTo(stop) /\ (fs.status = "done" <=> stop = fs.cur)
    BY <2>1, <1>0 DEF Prefix
  <2>3. PICK r \in Request : Ended(r) /\ Outcome(Current, r)
    BY <1>4 DEF Ending
  <2>4. /\ fs'.batch = fs.batch /\ fs'.cur = fs.cur + 1 /\ fs'.status = r.status
        /\ qfile' = [qfile EXCEPT ![Job] = r]
    BY <2>3 DEF Ended, Shape
  <2>5. \A i \in 1..Len(fs.batch) : i < fs.cur => fs.batch[i] # Job
    BY <2>1 DEF IsInjective, Job
  <2>6. qfile \in [Jobs -> Request] /\ \A i \in 1..Len(fs.batch) : fs.batch[i] \in Jobs
    BY <1>4, CallFacts, ElementOfSeq DEF Ending, Base, TypeOK
  <2>7. /\ \A i \in 1..Len(fs.batch) : i < fs.cur => qfile'[fs.batch[i]] = qfile[fs.batch[i]]
        /\ qfile'[fs.batch[fs.cur]] = r
    BY <2>1, <2>4, <2>5, <2>6 DEF Job
  <2>8. CASE fs.status # "done"
    <3>1. r.status = "retry" /\ stop < fs.cur
      BY <2>1, <2>2, <2>3, <2>8, CallFacts, <1>4 DEF Outcome, At, Placed, Ending
    <3>2. SentUpTo(stop)'
      BY <2>1, <2>2, <2>4, <2>7, <3>1 DEF SentUpTo
    <3>3. stop \in 1..fs'.cur /\ ~(stop = fs'.cur) /\ ~(fs'.status = "done")
      BY <2>1, <2>2, <2>4, <3>1
    <3> QED  BY <3>2, <3>3 DEF Prefix
  <2>9. CASE fs.status = "done" /\ r.status = "done"
    <3>1. stop = fs.cur
      BY <2>2, <2>9
    <3> PICK n \in Nat : n = fs.cur + 1
      BY <2>1
    <3>2. SentUpTo(n)'
      BY <2>1, <2>2, <2>4, <2>7, <2>9, <3>1 DEF SentUpTo
    <3>3. n \in 1..fs'.cur /\ n = fs'.cur /\ fs'.status = "done"
      BY <2>1, <2>4, <2>9
    <3> QED  BY <3>2, <3>3 DEF Prefix
  <2>10. CASE fs.status = "done" /\ r.status # "done"
    <3>1. stop = fs.cur
      BY <2>2, <2>10
    <3>2. SentUpTo(stop)'
      BY <2>1, <2>2, <2>4, <2>7, <2>10, <3>1 DEF SentUpTo
    <3>3. stop \in 1..fs'.cur /\ ~(stop = fs'.cur) /\ ~(fs'.status = "done")
      BY <2>1, <2>4, <2>10, <3>1
    <3> QED  BY <3>2, <3>3 DEF Prefix
  <2> QED  BY <2>8, <2>9, <2>10
<1>5. CASE Crashing
  <2>1. CASE "crash" \in faults'
    BY <2>1 DEF Prefix, NoLoss
  <2>2. CASE fs.pc = "file"
    BY <2>2, <1>0, <1>5 DEF Crashing, Shape, Prefix, SentUpTo, Off
  <2> QED  BY <2>1, <2>2, <1>5 DEF Crashing
<1>6. CASE SlowWrite
  BY <1>6 DEF SlowWrite, Base, Prefix, NoLoss
<1>7. CASE UNCHANGED vars
  BY <1>7 DEF vars, Prefix, NoLoss, SentUpTo
<1> QED  BY GoingKinds, <1>1, <1>2, <1>3, <1>4, <1>5, <1>6, <1>7 DEF StepKind

LEMMA OutcomeFollows ==
  ASSUME Base, Line, Prefix
  PROVE  BatchOutcome
<1>1. ~At("off") => (fs.connected => fs.locked)
  BY DEF Line, At, Off
<1>2. At("exit") /\ "crash" \notin faults => ~fs.locked /\ ~fs.connected
  BY DEF Line, At, Off
<1>3. ASSUME At("exit"), NoLoss
      PROVE  \E stop \in 1..Len(fs.batch) + 1 : \A i \in DOMAIN fs.batch :
               /\ i < stop => qfile[fs.batch[i]].status = "done"
               /\ i = stop => qfile[fs.batch[i]].status # "done"
               /\ i > stop => qfile[fs.batch[i]].status = "retry"
  <2>1. fs # Off /\ (fs.cur = Len(fs.batch) + 1 \/ Unbegun)
    BY <1>3 DEF Line, At, Off, NoLoss
  <2>2. Len(fs.batch) \in Nat /\ DOMAIN fs.batch = 1..Len(fs.batch)
    BY <1>3, CallFacts, LenProperties DEF At
  <2>3. CASE Unbegun
    <3>1. \A i \in 1..Len(fs.batch) : qfile[fs.batch[i]].status = "retry" /\ i >= 1
      BY <2>3, <1>3 DEF Unbegun, NoLoss
    <3>2. 1 \in 1..Len(fs.batch) + 1
      BY <2>2
    <3> WITNESS 1 \in 1..Len(fs.batch) + 1
    <3> QED  BY <3>1, <2>2
  <2>4. CASE fs.cur = Len(fs.batch) + 1
    <3>1. PICK stop \in 1..fs.cur : SentUpTo(stop)
      BY <1>3, <2>1 DEF Prefix
    <3>2. stop \in 1..Len(fs.batch) + 1
      BY <2>4
    <3> WITNESS stop \in 1..Len(fs.batch) + 1
    <3> QED  BY <2>4, <2>2, <3>1 DEF SentUpTo
  <2> QED  BY <2>1, <2>3, <2>4
<1>4. At("exit") /\ faults \subseteq {"abort", "vanish", "format"} =>
        \E stop \in 1..Len(fs.batch) + 1 : \A i \in DOMAIN fs.batch :
          /\ i < stop => qfile[fs.batch[i]].status = "done"
          /\ i = stop => qfile[fs.batch[i]].status # "done"
          /\ i > stop => qfile[fs.batch[i]].status = "retry"
  BY <1>3, Zenon DEF NoLoss
<1> QED  BY <1>1, <1>2, <1>4, Zenon DEF BatchOutcome

\* What faxsend leaves of a batch is what faxq takes it for: sent up to some job,
\* and the jobs after it are to be retried, untried; and the modem is let go of.
THEOREM BatchComesOut == Spec => []BatchOutcome
<1>1. Init => Base /\ Line /\ Prefix
  BY BaseInit DEF Init, Line, Prefix, Off
<1>2. Base /\ Line /\ Prefix /\ [Next]_vars => (Base /\ Line /\ Prefix)'
  BY BaseStep, LineStep, PrefixStep, Kinds
<1>3. Base /\ Line /\ Prefix => BatchOutcome
  BY OutcomeFollows
<1> QED  BY <1>1, <1>2, <1>3, PTL DEF Spec
-----------------------------------------------------------------------------
(* The pages that are left *)

\* n pages of the first document have been sent.
Skipped(i, n) == IF i = 1 THEN n ELSE 0

Left(j, items, n) ==
  {pg \in Pages(j) : \E i \in 1..Len(items) :
     items[i].doc = pg[1] /\ items[i].dirnum + Skipped(i, n) < pg[2]}

\* The items are documents of the job, none of them twice.
Proper(j, items, n) ==
  /\ items \in Items
  /\ \A i \in 1..Len(items) :
       /\ items[i].doc \in 1..Len(Docs[j])
       /\ items[i].dirnum + Skipped(i, n) <= Docs[j][items[i].doc]
  /\ \A i, k \in 1..Len(items) : items[i].doc = items[k].doc => i = k

LEMMA ItemTyped ==
  ASSUME NEW items \in Items
  PROVE  /\ DOMAIN items = 1..Len(items)
         /\ \A i \in 1..Len(items) : items[i].doc \in Nat /\ items[i].dirnum \in Nat
<1> DEFINE R == [doc : Nat, dirnum : Nat]
<1>1. DOMAIN items = 1..Len(items) /\ \A i \in 1..Len(items) : items[i] \in R
  <2> HIDE DEF R
  <2>1. items \in Seq(R)
    BY DEF Items, R
  <2> QED  BY <2>1, LenProperties, ElementOfSeq
<1> QED  BY <1>1

LEMMA DocsTyped ==
  ASSUME NEW j \in Jobs
  PROVE  /\ Len(Docs[j]) \in Nat /\ DOMAIN Docs[j] = 1..Len(Docs[j])
         /\ \A d \in 1..Len(Docs[j]) : Docs[j][d] \in Nat \ {0}
<1>1. Docs[j] \in Seq(Nat \ {0})
  BY SendAssumptions
<1> QED  BY <1>1, LenProperties, ElementOfSeq

LEMMA PagesOf ==
  ASSUME NEW j \in Jobs
  PROVE  /\ \A pg \in Pages(j) : /\ pg = <<pg[1], pg[2]>> /\ pg[1] \in 1..Len(Docs[j])
                                 /\ pg[2] \in 1..Docs[j][pg[1]]
         /\ \A d \in 1..Len(Docs[j]) : \A p \in 1..Docs[j][d] : <<d, p>> \in Pages(j)
BY DocsTyped DEF Pages

LEMMA PagesFinite ==
  ASSUME NEW j \in Jobs
  PROVE  IsFiniteSet(Pages(j))
<1> DEFINE D == DOMAIN Docs[j]
           S == {{d} \X (1..Docs[j][d]) : d \in D}
           f == [d \in D |-> {d} \X (1..Docs[j][d])]
<1>1. IsFiniteSet(D)
  BY DocsTyped, FS_Interval
<1>2. f \in Surjection(D, S)
  BY DEF Surjection
<1>3. IsFiniteSet(S)
  BY <1>1, <1>2, FS_Surjection
<1>4. \A T \in S : IsFiniteSet(T)
  <2> SUFFICES ASSUME NEW d \in D  PROVE IsFiniteSet({d} \X (1..Docs[j][d]))
    OBVIOUS
  <2>1. Docs[j][d] \in Int
    BY DocsTyped
  <2>2. \A k \in Int : IsFiniteSet(1..k)
    BY FS_Interval
  <2>3. IsFiniteSet({d})
    BY FS_Singleton
  <2> QED  BY <2>1, <2>2, <2>3, FS_Product
<1> HIDE DEF S
<1>5. IsFiniteSet(UNION S)
  BY <1>3, <1>4, FS_UNION
<1> QED  BY <1>5 DEF Pages, S

LEMMA LeftFinite ==
  ASSUME NEW j \in Jobs, NEW items, NEW n
  PROVE  /\ IsFiniteSet(Left(j, items, n)) /\ Cardinality(Left(j, items, n)) \in Nat
         /\ Cardinality(Pages(j)) \in Nat
<1>1. Left(j, items, n) \subseteq Pages(j)
  BY DEF Left
<1> QED  BY <1>1, PagesFinite, FS_Subset, FS_CardinalityType

LEMMA LeftNone ==
  ASSUME NEW j, NEW n
  PROVE  Left(j, <<>>, n) = {}
BY DEF Left

LEMMA LeftAtRest ==
  ASSUME NEW j, NEW items \in Items
  PROVE  PagesLeft(j, items) = Left(j, items, 0)
<1>1. DOMAIN items = 1..Len(items) /\ \A i \in 1..Len(items) : items[i].dirnum \in Nat
  BY ItemTyped
<1> QED  BY <1>1 DEF PagesLeft, Left, Skipped

LEMMA LeftAll ==
  ASSUME NEW j \in Jobs
  PROVE  Left(j, AllItems(j), 0) = Pages(j) /\ Proper(j, AllItems(j), 0)
<1>1. /\ AllItems(j) \in Items /\ Len(AllItems(j)) = Len(Docs[j])
      /\ \A i \in 1..Len(Docs[j]) : AllItems(j)[i].doc = i /\ AllItems(j)[i].dirnum = 0
  <2>1. \A i \in 1..Len(Docs[j]) : AllItems(j)[i] = [doc |-> i, dirnum |-> 0]
    BY AllItemsTyped
  <2>2. AllItems(j) \in Items /\ Len(AllItems(j)) = Len(Docs[j])
    BY AllItemsTyped
  <2>3. \A i \in 1..Len(Docs[j]) : AllItems(j)[i].doc = i /\ AllItems(j)[i].dirnum = 0
    <3> SUFFICES ASSUME NEW i \in 1..Len(Docs[j])
                 PROVE  AllItems(j)[i].doc = i /\ AllItems(j)[i].dirnum = 0
      OBVIOUS
    <3>1. AllItems(j)[i] = [doc |-> i, dirnum |-> 0]
      BY <2>1
    <3>2. AllItems(j)[i].doc = i
      BY <3>1
    <3>3. AllItems(j)[i].dirnum = 0
      BY <3>1
    <3> QED  BY <3>2, <3>3
  <2> QED  BY <2>2, <2>3
<1>2. Proper(j, AllItems(j), 0)
  BY <1>1, DocsTyped DEF Proper, Skipped
<1>3. ASSUME NEW pg \in Pages(j)
      PROVE  pg \in Left(j, AllItems(j), 0)
  <2>1. pg[1] \in 1..Len(Docs[j]) /\ pg[2] \in 1..Docs[j][pg[1]] /\ Docs[j][pg[1]] \in Nat
    BY PagesOf, DocsTyped
  <2>2. 0 + Skipped(pg[1], 0) < pg[2]
    BY <2>1 DEF Skipped
  <2> QED  BY <1>1, <2>1, <2>2 DEF Left
<1> QED  BY <1>2, <1>3 DEF Left

LEMMA LeftOfTail ==
  ASSUME NEW j \in Jobs, NEW items, NEW n \in Nat, Proper(j, items, n), items # <<>>,
         items[1].dirnum + n = Docs[j][items[1].doc]
  PROVE  Left(j, Tail(items), 0) = Left(j, items, n) /\ Proper(j, Tail(items), 0)
<1>1. /\ items \in Items /\ Tail(items) \in Items /\ Len(items) \in Nat \ {0}
      /\ Len(Tail(items)) = Len(items) - 1
      /\ \A i \in 1..Len(items) - 1 : Tail(items)[i] = items[i + 1]
  BY HeadTailProperties, EmptySeq DEF Proper, Items
<1>2. \A i \in 1..Len(items) : items[i].dirnum \in Nat
  BY <1>1, ItemTyped
<1>3. Proper(j, Tail(items), 0)
  BY <1>1, <1>2 DEF Proper, Skipped
<1>4. ASSUME NEW pg \in Left(j, items, n)
      PROVE  pg \in Left(j, Tail(items), 0)
  <2>1. PICK i \in 1..Len(items) : items[i].doc = pg[1] /\ items[i].dirnum + Skipped(i, n) < pg[2]
    BY DEF Left
  <2>2. pg \in Pages(j) /\ pg[2] \in 1..Docs[j][pg[1]] /\ Docs[j][pg[1]] \in Nat /\ pg[2] \in Nat
    <3>1. pg \in Pages(j)
      BY DEF Left
    <3> QED  BY <3>1, PagesOf, DocsTyped
  <2>3. i # 1
    BY <2>1, <2>2, <1>2 DEF Skipped
  <2>4. i - 1 \in 1..Len(items) - 1 /\ Tail(items)[i - 1] = items[i]
    BY <1>1, <2>3
  <2>5. items[i].dirnum + Skipped(i - 1, 0) < pg[2]
    BY <2>1, <2>3 DEF Skipped
  <2> QED  BY <1>1, <2>1, <2>2, <2>4, <2>5 DEF Left
<1>5. ASSUME NEW pg \in Left(j, Tail(items), 0)
      PROVE  pg \in Left(j, items, n)
  <2>1. PICK i \in 1..Len(items) - 1 :
          items[i + 1].doc = pg[1] /\ items[i + 1].dirnum + Skipped(i, 0) < pg[2]
    BY <1>1 DEF Left
  <2>2. i + 1 \in 1..Len(items) /\ Skipped(i, 0) = Skipped(i + 1, n)
    BY <1>1 DEF Skipped
  <2> QED  BY <2>1, <2>2 DEF Left
<1> QED  BY <1>3, <1>4, <1>5

LEMMA LeftAfterPage ==
  ASSUME NEW j \in Jobs, NEW items, NEW n \in Nat, Proper(j, items, n), items # <<>>,
         n < Docs[j][items[1].doc] - items[1].dirnum
  PROVE  LET pg == <<items[1].doc, items[1].dirnum + n + 1>> IN
         /\ pg \in Left(j, items, n) /\ Left(j, items, n + 1) = Left(j, items, n) \ {pg}
         /\ Proper(j, items, n + 1)
<1> DEFINE d == items[1].doc
           m == items[1].dirnum + n + 1
           pg == <<d, m>>
<1>1. items \in Items /\ Len(items) \in Nat \ {0} /\ 1 \in 1..Len(items)
  BY EmptySeq DEF Proper, Items
<1>2. \A i \in 1..Len(items) : items[i].dirnum \in Nat
  BY <1>1, ItemTyped
<1>3. d \in 1..Len(Docs[j]) /\ Docs[j][d] \in Nat
  BY <1>1, DocsTyped DEF Proper
<1>4. m \in 1..Docs[j][d]
  BY <1>1, <1>2, <1>3
<1>5. pg \in Pages(j) /\ pg[1] = d /\ pg[2] = m
  BY <1>3, <1>4, PagesOf
<1>6. items[1].dirnum + Skipped(1, n) < m
  BY <1>1, <1>2 DEF Skipped
<1>7. pg \in Left(j, items, n)
  BY <1>1, <1>5, <1>6 DEF Left
<1>8. Proper(j, items, n + 1)
  <2>1. items[1].dirnum + (n + 1) <= Docs[j][d]
    BY <1>1, <1>2, <1>4
  <2>2. \A i \in 1..Len(items) : i # 1 => Skipped(i, n + 1) = Skipped(i, n)
    BY DEF Skipped
  <2>3. Skipped(1, n + 1) = n + 1
    BY DEF Skipped
  <2> QED  BY <2>1, <2>2, <2>3 DEF Proper
<1> HIDE DEF pg, m
<1>9. ASSUME NEW x \in Pages(j)
      PROVE  x \in Left(j, items, n + 1) <=> x \in Left(j, items, n) /\ x # pg
  <2>1. /\ x = <<x[1], x[2]>> /\ x[2] \in 1..Docs[j][x[1]] /\ Docs[j][x[1]] \in Nat
        /\ x[2] \in Nat
    BY PagesOf, DocsTyped
  <2>2. CASE x[1] = d
    <3>1. \A i \in 1..Len(items) : items[i].doc = x[1] => i = 1
      BY <2>2, <1>1 DEF Proper
    <3>2. x \in Left(j, items, n + 1) <=> items[1].dirnum + (n + 1) < x[2]
      BY <3>1, <2>2, <1>1 DEF Left, Skipped
    <3>3. x \in Left(j, items, n) <=> items[1].dirnum + n < x[2]
      BY <3>1, <2>2, <1>1 DEF Left, Skipped
    <3>4. x = pg <=> x[2] = m
      BY <2>1, <2>2, <1>5 DEF pg
    <3>5. items[1].dirnum \in Nat
      BY <1>1, <1>2
    <3>6. items[1].dirnum + (n + 1) < x[2] <=> items[1].dirnum + n < x[2] /\ x[2] # m
      BY <3>5, <2>1 DEF m
    <3> QED  BY <3>2, <3>3, <3>4, <3>6
  <2>3. CASE x[1] # d
    <3>1. \A i \in 1..Len(items) : items[i].doc = x[1] => i # 1
      BY <2>3
    <3>2. x # pg
      BY <2>3, <1>5
    <3> QED  BY <3>1, <3>2 DEF Left, Skipped
  <2> QED  BY <2>2, <2>3
<1>10. Left(j, items, n + 1) = Left(j, items, n) \ {pg}
  BY <1>9 DEF Left
<1> QED  BY <1>7, <1>8, <1>10 DEF pg, m

LEMMA LeftOfRest ==
  ASSUME NEW j \in Jobs, NEW items, NEW n \in Nat, Proper(j, items, n), items # <<>>
  PROVE  LET rest == [items EXCEPT ![1].dirnum = @ + n] IN
         Left(j, rest, 0) = Left(j, items, n) /\ Proper(j, rest, 0)
<1> DEFINE rest == [items EXCEPT ![1].dirnum = @ + n]
<1>1. items \in Items /\ Len(items) \in Nat \ {0} /\ rest \in Items
  BY ItemsAdvanced, EmptySeq DEF Proper, Items
<1>2. DOMAIN items = 1..Len(items) /\ \A i \in 1..Len(items) : items[i] \in [doc : Nat, dirnum : Nat]
  BY <1>1, LenProperties, ElementOfSeq DEF Items
<1>3. /\ \A i \in 1..Len(items) : /\ rest[i].doc = items[i].doc
                                  /\ rest[i].dirnum + Skipped(i, 0) = items[i].dirnum + Skipped(i, n)
  <2> SUFFICES ASSUME NEW i \in 1..Len(items)
               PROVE  /\ rest[i].doc = items[i].doc
                      /\ rest[i].dirnum + Skipped(i, 0) = items[i].dirnum + Skipped(i, n)
    OBVIOUS
  <2>1. CASE i = 1
    <3>1. rest[i] = [items[1] EXCEPT !.dirnum = @ + n]
      BY <2>1, <1>2
    <3> QED  BY <2>1, <3>1, <1>2 DEF Skipped
  <2>2. CASE i # 1
    <3>1. rest[i] = items[i]
      BY <2>2, <1>2
    <3> QED  BY <2>2, <3>1 DEF Skipped
  <2> QED  BY <2>1, <2>2
<1>4. Len(rest) = Len(items)
  <2> DEFINE e == [items[1] EXCEPT !.dirnum = @ + n]
  <2>1. rest = [items EXCEPT ![1] = e] /\ 1 \in 1..Len(items) /\ e \in [doc : Nat, dirnum : Nat]
    BY <1>1, <1>2
  <2> HIDE DEF e, rest
  <2> QED  BY <2>1, <1>1, ExceptSeq DEF Items
<1> HIDE DEF rest
<1>5. Left(j, rest, 0) = Left(j, items, n)
  BY <1>3, <1>4 DEF Left
<1>6. Proper(j, rest, 0)
  BY <1>1, <1>3, <1>4 DEF Proper
<1> QED  BY <1>5, <1>6 DEF rest
-----------------------------------------------------------------------------
(* What was confirmed and what is left, over all calls *)

\* Without "format", documents are never sent from the start again.
Careful == faults \subseteq {"abort", "format"}

Exact(j, items, n, np, g) ==
  /\ \A pg \in Pages(j) : g[pg] = IF pg \in Left(j, items, n) THEN 0 ELSE 1
  /\ np + Cardinality(Left(j, items, n)) = Cardinality(Pages(j))

\* g, of job j, with np pages counted and n sent of the first item.
Accounted(j, items, n, np, g, exact) ==
  /\ Proper(j, items, n)
  /\ \A pg \in Pages(j) : pg \in Left(j, items, n) \/ g[pg] >= 1
  /\ exact => Exact(j, items, n, np, g)

Working(j) == OnCall /\ j = Job
RequestOf(j) == IF Working(j) THEN fs.req ELSE qfile[j]
PageOf(j) == IF Working(j) /\ At("page") THEN fs.page ELSE 0

\* The account of a job is kept in the memory of faxsend while its call lasts,
\* and else in its queue file; and a job that is done has no documents left.
Sendings ==
  Careful =>
    \A j \in Jobs :
      /\ Accounted(j, RequestOf(j).items, PageOf(j), RequestOf(j).npages, got[j],
                   "format" \notin faults)
      /\ ~Working(j) /\ qfile[j].status = "done" => qfile[j].items = <<>>
      /\ state[j] = "done" => qfile[j].status = "done"

LEMMA AccountKept ==
  ASSUME NEW j, NEW items, NEW n, NEW np, NEW g, NEW e, NEW f, f => e,
         Accounted(j, items, n, np, g, e)
  PROVE  Accounted(j, items, n, np, g, f)
BY DEF Accounted

\* A job for which nothing changes.
LEMMA OtherJobs ==
  ASSUME Sendings, Careful, faults \subseteq faults', NEW j \in Jobs,
         RequestOf(j)' = RequestOf(j), PageOf(j)' = PageOf(j), got'[j] = got[j]
  PROVE  Accounted(j, RequestOf(j)'.items, PageOf(j)', RequestOf(j)'.npages, got'[j],
                   "format" \notin faults')
<1>1. Accounted(j, RequestOf(j).items, PageOf(j), RequestOf(j).npages, got[j],
                "format" \notin faults)
  BY DEF Sendings
<1>2. "format" \notin faults' => "format" \notin faults
  OBVIOUS
<1> HIDE DEF RequestOf, PageOf
<1> QED  BY <1>1, <1>2, AccountKept

\* A step within a call whose request holds the same account.
SameAccount ==
  /\ Going /\ Job \in Jobs /\ UNCHANGED got
  /\ fs'.req.items = RequestOf(Job).items /\ fs'.req.npages = RequestOf(Job).npages
  /\ PageOf(Job)' = PageOf(Job)

LEMMA GoingOthers ==
  ASSUME Base, Going
  PROVE  /\ Job' = Job /\ OnCall' /\ Job \in Jobs /\ UNCHANGED state
         /\ \A j \in Jobs : (Working(j)' <=> j = Job) /\ (j # Job => ~Working(j))
         /\ \A j \in Jobs : j # Job => qfile'[j] = qfile[j]
         /\ state[Job] = "ready"
<1>1. Job' = Job /\ OnCall' /\ UNCHANGED state
  BY DEF Going, Job, OnCall
<1>2. Job \in Jobs /\ state[Job] = "ready"
  BY CallFacts DEF Going, Placed, Job
<1>3. \A j \in Jobs : j # Job => qfile'[j] = qfile[j]
  BY <1>2 DEF Going, Base, TypeOK
<1>4. \A j \in Jobs : (Working(j)' <=> j = Job) /\ (j # Job => ~Working(j))
  BY <1>1 DEF Working
<1> QED  BY <1>1, <1>2, <1>3, <1>4

LEMMA SendingsGo ==
  ASSUME Base, Sendings, Going, Careful, faults \subseteq faults',
         \A j \in Jobs : j # Job => got'[j] = got[j],
         Accounted(Job, fs'.req.items, PageOf(Job)', fs'.req.npages, got'[Job],
                   "format" \notin faults')
  PROVE  Sendings'
<1> SUFFICES ASSUME NEW j \in Jobs
             PROVE  /\ Accounted(j, RequestOf(j)'.items, PageOf(j)', RequestOf(j)'.npages,
                                 got'[j], "format" \notin faults')
                    /\ ~Working(j)' /\ qfile'[j].status = "done" => qfile'[j].items = <<>>
                    /\ state'[j] = "done" => qfile'[j].status = "done"
  BY DEF Sendings
<1>1. CASE j = Job
  <2>1. Working(j)' /\ state'[j] = "ready"
    BY <1>1, GoingOthers
  <2>2. RequestOf(j)' = fs'.req
    BY <2>1 DEF RequestOf
  <2>3. PageOf(j)' = PageOf(Job)'
    BY <1>1, <2>1, GoingOthers DEF PageOf, Working
  <2>4. Accounted(j, RequestOf(j)'.items, PageOf(j)', RequestOf(j)'.npages,
                  got'[j], "format" \notin faults')
    BY <1>1, <2>2, <2>3
  <2> QED  BY <2>1, <2>4
<1>2. CASE j # Job
  <2>1. /\ ~Working(j)' /\ ~Working(j) /\ qfile'[j] = qfile[j] /\ state' = state
        /\ got'[j] = got[j]
    BY <1>2, GoingOthers
  <2>2. RequestOf(j)' = RequestOf(j) /\ PageOf(j)' = PageOf(j)
    BY <2>1 DEF RequestOf, PageOf
  <2>3. /\ qfile'[j].status = "done" => qfile'[j].items = <<>>
        /\ state'[j] = "done" => qfile'[j].status = "done"
    BY <2>1 DEF Sendings
  <2> QED  BY <2>1, <2>2, <2>3, OtherJobs
<1> QED  BY <1>1, <1>2

LEMMA SendingsSame ==
  ASSUME Base, Sendings, SameAccount, Careful, faults \subseteq faults'
  PROVE  Sendings'
<1>1. Accounted(Job, RequestOf(Job).items, PageOf(Job), RequestOf(Job).npages, got[Job],
                "format" \notin faults)
  BY DEF Sendings, SameAccount
<1>2. "format" \notin faults' => "format" \notin faults
  OBVIOUS
<1>3. Accounted(Job, RequestOf(Job).items, PageOf(Job), RequestOf(Job).npages, got[Job],
                "format" \notin faults')
  BY <1>1, <1>2, AccountKept
<1> QED  BY <1>3, SendingsGo DEF SameAccount

LEMMA ConfirmingAccount ==
  ASSUME Base, Sendings, Confirming, Careful, faults \subseteq faults'
  PROVE  Sendings'
<1> DEFINE items == fs.req.items
           n == fs.page
           np == fs.req.npages
           pg == <<items[1].doc, items[1].dirnum + n + 1>>
           g == got[Job]
           h == [g EXCEPT ![pg] = @ + 1]
<1>1. /\ fs.pc = "page" /\ OnCall /\ Working(Job) /\ Job \in Jobs /\ n \in Nat
      /\ items # <<>> /\ np \in Nat /\ Going
  BY CallFacts, CallStatus, ConfirmingGoes DEF Confirming, OnCall, Working, Request
<1>2. n < Docs[Job][items[1].doc] - items[1].dirnum
  BY DEF Confirming, PagesToSend, Document
<1>3. Accounted(Job, items, n, np, g, "format" \notin faults)
  BY <1>1 DEF Sendings, RequestOf, PageOf, At
<1>4. /\ fs'.req.items = items /\ fs'.req.npages = np + 1 /\ fs'.page = n + 1
      /\ fs'.pc = "page"
  BY DEF Confirming, Moved, Shape, Fields
<1>5. PageOf(Job)' = n + 1
  BY <1>1, <1>4, GoingOthers DEF PageOf, At
<1>6. got' = [got EXCEPT ![Job] = h] /\ DOMAIN got = Jobs
  BY DEF Confirming, Document, Base, TypeOK
<1>7. g \in [Pages(Job) -> Nat]
  BY <1>1 DEF Base, TypeOK
<1>8. /\ pg \in Left(Job, items, n) /\ Left(Job, items, n + 1) = Left(Job, items, n) \ {pg}
      /\ Proper(Job, items, n + 1)
  BY <1>1, <1>2, <1>3, LeftAfterPage DEF Accounted
<1> HIDE DEF pg, items, n, np, g, h
<1>9. pg \in Pages(Job)
  BY <1>8 DEF Left
<1>10. /\ got'[Job] = h /\ \A j \in Jobs : j # Job => got'[j] = got[j]
       /\ \A x \in Pages(Job) : h[x] = IF x = pg THEN g[x] + 1 ELSE g[x]
  BY <1>1, <1>6, <1>7, <1>9 DEF h
<1>11. \A x \in Pages(Job) : x \in Left(Job, items, n + 1) \/ h[x] >= 1
  BY <1>3, <1>7, <1>8, <1>10 DEF Accounted
<1>12. ASSUME "format" \notin faults'
       PROVE  Exact(Job, items, n + 1, np + 1, h)
  <2>1. Exact(Job, items, n, np, g)
    BY <1>3, <1>12 DEF Accounted
  <2>2. \A x \in Pages(Job) : h[x] = IF x \in Left(Job, items, n + 1) THEN 0 ELSE 1
    BY <1>7, <1>8, <1>10, <2>1 DEF Exact
  <2>3. Cardinality(Left(Job, items, n + 1)) = Cardinality(Left(Job, items, n)) - 1
    BY <1>1, <1>8, LeftFinite, FS_RemoveElement
  <2>4. Cardinality(Left(Job, items, n)) \in Nat
    BY <1>1, LeftFinite
  <2>5. np + 1 + Cardinality(Left(Job, items, n + 1)) = Cardinality(Pages(Job))
    BY <1>1, <2>1, <2>3, <2>4 DEF Exact
  <2> QED  BY <2>2, <2>5 DEF Exact
<1>13. Accounted(Job, items, n + 1, np + 1, h, "format" \notin faults')
  BY <1>8, <1>11, <1>12 DEF Accounted
<1>14. Accounted(Job, fs'.req.items, PageOf(Job)', fs'.req.npages, got'[Job],
                 "format" \notin faults')
  BY <1>4, <1>5, <1>10, <1>13
<1> QED  BY <1>1, <1>10, <1>14, SendingsGo

LEMMA DeliveringAccount ==
  ASSUME Base, Sendings, Delivering, Careful, Careful', faults \subseteq faults'
  PROVE  Sendings'
<1> DEFINE items == fs.req.items
           n == fs.page
           np == fs.req.npages
           g == got[Job]
<1>1. /\ fs.pc = "page" /\ OnCall /\ Working(Job) /\ Job \in Jobs /\ n \in Nat
      /\ items # <<>> /\ Going /\ n = PagesToSend
  BY CallFacts, DeliveringGoes DEF Delivering, OnCall, Working, Careful
<1>2. Accounted(Job, items, n, np, g, "format" \notin faults)
  BY <1>1 DEF Sendings, RequestOf, PageOf, At
<1>3. items[1].dirnum + n = Docs[Job][items[1].doc]
  <2>1. items \in Items /\ items[1].doc \in 1..Len(Docs[Job])
    BY <1>1, <1>2, EmptySeq DEF Accounted, Proper, Items
  <2>2. items[1].dirnum \in Nat /\ Docs[Job][items[1].doc] \in Nat
    <3>1. 1 \in 1..Len(items)
      BY <1>1, <2>1, EmptySeq DEF Items
    <3> QED  BY <1>1, <2>1, <3>1, ItemTyped, DocsTyped
  <2> QED  BY <1>1, <2>2 DEF PagesToSend, Document
<1>4. Left(Job, Tail(items), 0) = Left(Job, items, n) /\ Proper(Job, Tail(items), 0)
  BY <1>1, <1>2, <1>3, LeftOfTail DEF Accounted
<1>5. /\ fs'.req.items = Tail(items) /\ fs'.req.npages = np /\ fs'.pc = "document"
      /\ UNCHANGED got
  BY DEF Delivering, Moved, Shape, Fields
<1>6. PageOf(Job)' = 0
  BY <1>5 DEF PageOf, At
<1> HIDE DEF items, n, np, g
<1>7. Accounted(Job, Tail(items), 0, np, g, "format" \notin faults')
  BY <1>2, <1>4 DEF Accounted, Exact
<1>8. Accounted(Job, fs'.req.items, PageOf(Job)', fs'.req.npages, got'[Job],
                "format" \notin faults')
  BY <1>5, <1>6, <1>7 DEF g
<1> QED  BY <1>1, <1>5, <1>8, SendingsGo

LEMMA EndingAccount ==
  ASSUME Base, Sendings, Ending, Careful, faults \subseteq faults'
  PROVE  Sendings'
<1> DEFINE q == Current
           n == PageOf(Job)
           g == got[Job]
<1>1. PICK r \in Request : Ended(r) /\ Outcome(Current, r)
  BY DEF Ending
<1>2. /\ fs.pc \notin {"off", "exit"} /\ fs.pc \in Pcs /\ Job \in Jobs /\ fs.page \in Nat
      /\ state[Job] = "ready" /\ UNCHANGED <<state, got>>
      /\ fs.pc = "page" => fs.req.items # <<>>
  BY CallFacts DEF Ending, Placed, Job
<1>3. RequestOf(Job) = q
  BY <1>2 DEF RequestOf, Current, Working, OnCall, At, Pcs
<1>4. Accounted(Job, q.items, n, q.npages, g, "format" \notin faults)
  BY <1>2, <1>3 DEF Sendings
<1>5. Left(Job, r.items, 0) = Left(Job, q.items, n) /\ Proper(Job, r.items, 0)
  <2>1. CASE At("page") /\ fs.page # 0
    <3>1. q = fs.req /\ n = fs.page /\ q.items # <<>>
      BY <1>2, <2>1 DEF Current, PageOf, Working, OnCall, At
    <3>2. r.items = [q.items EXCEPT ![1].dirnum = @ + n]
      BY <1>1, <2>1, <3>1 DEF Outcome, Rest
    <3>3. Proper(Job, q.items, n)
      BY <1>4 DEF Accounted
    <3> HIDE DEF q, n
    <3>4. n \in Nat
      BY <1>2, <3>1
    <3> QED  BY <1>2, <3>1, <3>2, <3>3, <3>4, LeftOfRest
  <2>2. CASE ~(At("page") /\ fs.page # 0)
    <3>1. n = 0 /\ r.items = q.items
      BY <1>1, <1>2, <2>2 DEF PageOf, Outcome, Rest
    <3> QED  BY <3>1, <1>4 DEF Accounted
  <2> QED  BY <2>1, <2>2
<1>6. Accounted(Job, r.items, 0, r.npages, g, "format" \notin faults')
  <2>1. r.npages = q.npages
    BY <1>1 DEF Outcome
  <2> HIDE DEF q, n, g
  <2> QED  BY <2>1, <1>4, <1>5 DEF Accounted, Exact
<1>7. r.status = "done" => r.items = <<>>
  BY <1>1 DEF Outcome, Rest, At
<1>8. qfile' = [qfile EXCEPT ![Job] = r] /\ ~OnCall' /\ qfile \in [Jobs -> Request]
  BY <1>1 DEF Ended, Shape, OnCall, Base, TypeOK
<1> SUFFICES ASSUME NEW j \in Jobs
             PROVE  /\ Accounted(j, RequestOf(j)'.items, PageOf(j)', RequestOf(j)'.npages,
                                 got'[j], "format" \notin faults')
                    /\ ~Working(j)' /\ qfile'[j].status = "done" => qfile'[j].items = <<>>
                    /\ state'[j] = "done" => qfile'[j].status = "done"
  BY DEF Sendings
<1>9. RequestOf(j)' = qfile'[j] /\ PageOf(j)' = 0
  BY <1>8 DEF RequestOf, PageOf, Working
<1>10. CASE j = Job
  <2>1. qfile'[j] = r /\ state'[j] = "ready" /\ got'[j] = g
    BY <1>2, <1>8, <1>10
  <2> QED  BY <2>1, <1>6, <1>7, <1>9, <1>10
<1>11. CASE j # Job
  <2>1. ~Working(j) /\ qfile'[j] = qfile[j] /\ UNCHANGED <<state, got>>
    BY <1>2, <1>8, <1>11 DEF Working
  <2>2. RequestOf(j)' = RequestOf(j) /\ PageOf(j)' = PageOf(j)
    BY <1>9, <2>1 DEF RequestOf, PageOf
  <2>3. /\ qfile'[j].status = "done" => qfile'[j].items = <<>>
        /\ state'[j] = "done" => qfile'[j].status = "done"
    BY <2>1 DEF Sendings
  <2>4. got'[j] = got[j]
    BY <2>1
  <2> QED  BY <2>2, <2>3, <2>4, OtherJobs
<1> QED  BY <1>10, <1>11

LEMMA ReportingAccount ==
  ASSUME Base, Sendings, Reporting, Careful
  PROVE  Sendings'
<1>1. ~OnCall /\ ~OnCall' /\ UNCHANGED <<got, faults>>
  BY DEF Reporting, OnCall, Off
<1> SUFFICES ASSUME NEW j \in Jobs
             PROVE  /\ Accounted(j, RequestOf(j)'.items, PageOf(j)', RequestOf(j)'.npages,
                                 got'[j], "format" \notin faults')
                    /\ ~Working(j)' /\ qfile'[j].status = "done" => qfile'[j].items = <<>>
                    /\ state'[j] = "done" => qfile'[j].status = "done"
  BY DEF Sendings
<1>2. /\ RequestOf(j)' = qfile'[j] /\ PageOf(j)' = 0
      /\ RequestOf(j) = qfile[j] /\ PageOf(j) = 0 /\ ~Working(j)
  BY <1>1 DEF RequestOf, PageOf, Working
<1>3. /\ Accounted(j, qfile[j].items, 0, qfile[j].npages, got[j], "format" \notin faults)
      /\ qfile[j].status = "done" => qfile[j].items = <<>>
      /\ state[j] = "done" => qfile[j].status = "done"
  BY <1>2 DEF Sendings
<1>4. CASE Reported(j) /\ qfile[j].status = "reformat"
  <2>1. "format" \in faults'
    BY <1>1, <1>4 DEF Base
  <2>2. /\ qfile'[j].items = AllItems(j) /\ qfile'[j].status = "retry"
        /\ state'[j] = "ready"
    BY <1>4 DEF Reported
  <2>3. Accounted(j, AllItems(j), 0, qfile'[j].npages, got'[j], "format" \notin faults')
    BY <2>1, LeftAll DEF Accounted
  <2> QED  BY <1>2, <2>2, <2>3
<1>5. CASE Reported(j) /\ qfile[j].status # "reformat"
  <2>1. /\ qfile'[j].items = qfile[j].items /\ qfile'[j].npages = qfile[j].npages
        /\ qfile'[j].status = "done" => qfile[j].status = "done"
        /\ state'[j] = "done" => qfile'[j].status = "done"
    BY <1>5 DEF Reported
  <2> QED  BY <1>1, <1>2, <1>3, <2>1
<1>6. CASE LeftAlone(j)
  <2>1. /\ qfile'[j].items = qfile[j].items /\ qfile'[j].npages = qfile[j].npages
        /\ qfile'[j].status = qfile[j].status /\ state'[j] = state[j]
    BY <1>6 DEF LeftAlone, Fields
  <2> QED  BY <1>1, <1>2, <1>3, <2>1
<1> QED  BY <1>4, <1>5, <1>6 DEF Reporting

LEMMA SendingsStep ==
  ASSUME Base, Sendings, StepKind
  PROVE  Sendings'
<1> SUFFICES ASSUME Careful'
             PROVE  Sendings'
  BY DEF Sendings
<1>0. faults \subseteq faults' /\ Careful
  BY GrowingFaults DEF Careful
<1>1. CASE Starting
  <2>1. ~OnCall /\ ~OnCall' /\ UNCHANGED <<qfile, state, got, faults>>
    BY <1>1 DEF Starting, OnCall, Off, Shape
  <2> QED  BY <2>1, <1>0 DEF Sendings, RequestOf, PageOf, Working
<1>2. CASE Reject
  <2>1. ~OnCall /\ UNCHANGED <<qfile, fs, got, faults>>
    BY <1>2 DEF Reject, OnCall, At
  <2>2. \A j \in Jobs : state'[j] = "done" => state[j] = "done"
    BY <1>2 DEF Reject, Base, TypeOK
  <2> QED  BY <2>1, <2>2, <1>0 DEF Sendings, RequestOf, PageOf, Working, OnCall
<1>3. CASE Reading
  <2>1. Going /\ Job \in Jobs /\ fs'.req = qfile[Job] /\ fs'.pc = "dial" /\ fs.pc = "file"
        /\ UNCHANGED got
    BY <1>3, GoingKinds, GoingOthers DEF Reading, Moved, Shape
  <2>2. SameAccount
    BY <2>1 DEF SameAccount, RequestOf, PageOf, Working, OnCall, At
  <2> QED  BY <2>2, <1>0, SendingsSame
<1>4. CASE Dialing
  <2>1. Going /\ Job \in Jobs /\ Working(Job) /\ fs'.pc = "prologue" /\ fs.pc = "dial"
        /\ UNCHANGED got
    BY <1>4, GoingKinds, GoingOthers DEF Dialing, Moved, Shape, Working, OnCall
  <2>2. fs'.req.items = fs.req.items /\ fs'.req.npages = fs.req.npages
    BY <1>4 DEF Dialing, Fields
  <2>3. SameAccount
    BY <2>1, <2>2 DEF SameAccount, RequestOf, PageOf, At
  <2> QED  BY <2>3, <1>0, SendingsSame
<1>5. CASE SettingUp
  <2>1. Going /\ Job \in Jobs /\ Working(Job) /\ fs'.pc = "document" /\ fs.pc = "prologue"
        /\ UNCHANGED got
    BY <1>5, GoingKinds, GoingOthers DEF SettingUp, Moved, Shape, Working, OnCall
  <2>2. fs'.req.items = fs.req.items /\ fs'.req.npages = fs.req.npages
    BY <1>5 DEF SettingUp, Fields
  <2>3. SameAccount
    BY <2>1, <2>2 DEF SameAccount, RequestOf, PageOf, At
  <2> QED  BY <2>3, <1>0, SendingsSame
<1>6. CASE Opening
  <2>1. Going /\ Job \in Jobs /\ Working(Job) /\ fs'.pc = "page" /\ fs.pc = "document"
        /\ fs'.page = 0 /\ UNCHANGED got
    BY <1>6, GoingKinds, GoingOthers DEF Opening, Moved, Shape, Working, OnCall
  <2>2. fs'.req.items = fs.req.items /\ fs'.req.npages = fs.req.npages
    BY <1>6 DEF Opening, Fields
  <2>3. SameAccount
    BY <2>1, <2>2 DEF SameAccount, RequestOf, PageOf, At
  <2> QED  BY <2>3, <1>0, SendingsSame
<1>7. CASE Delivering
  BY <1>0, <1>7, DeliveringAccount
<1>8. CASE Confirming
  BY <1>0, <1>8, ConfirmingAccount
<1>9. CASE Ending
  BY <1>0, <1>9, EndingAccount
<1>10. CASE Aborting
  <2>1. /\ Going /\ Job \in Jobs /\ Working(Job) /\ UNCHANGED got /\ Job' = Job
        /\ fs'.pc = fs.pc /\ fs'.page = fs.page /\ fs'.req = fs.req /\ OnCall'
    BY <1>10, GoingKinds, GoingOthers DEF Aborting, Shape, Working
  <2>2. SameAccount
    BY <2>1 DEF SameAccount, RequestOf, PageOf, At, Working
  <2> QED  BY <2>2, <1>0, SendingsSame
<1>11. CASE Crashing
  <2>1. CASE "crash" \in faults'
    BY <2>1 DEF Careful
  <2>2. CASE fs.pc = "file" /\ UNCHANGED faults
    <3>1. ~OnCall /\ ~OnCall' /\ UNCHANGED <<qfile, state, got, faults>>
      BY <2>2, <1>11 DEF Crashing, Shape, OnCall
    <3> QED  BY <3>1, <1>0 DEF Sendings, RequestOf, PageOf, Working
  <2> QED  BY <2>1, <2>2, <1>11 DEF Crashing
<1>12. CASE SlowWrite
  BY <1>0, <1>12 DEF SlowWrite, Base, Careful
<1>13. CASE Reporting
  BY <1>0, <1>13, ReportingAccount
<1>14. CASE UNCHANGED vars
  BY <1>0, <1>14 DEF vars, Sendings, RequestOf, PageOf, Working, OnCall, Job, At
<1> QED
  BY <1>1, <1>2, <1>3, <1>4, <1>5, <1>6, <1>7, <1>8, <1>9, <1>10, <1>11, <1>12, <1>13,
     <1>14 DEF StepKind

LEMMA SendingsInit ==
  ASSUME Init
  PROVE  Sendings
<1> SUFFICES ASSUME NEW j \in Jobs
             PROVE  /\ Accounted(j, RequestOf(j).items, PageOf(j), RequestOf(j).npages, got[j],
                                 "format" \notin faults)
                    /\ ~Working(j) /\ qfile[j].status = "done" => qfile[j].items = <<>>
                    /\ state[j] = "done" => qfile[j].status = "done"
  BY DEF Sendings
<1>1. ~OnCall /\ qfile[j] = NewRequest(j) /\ state[j] = "ready"
  BY DEF Init, OnCall
<1>2. /\ RequestOf(j) = qfile[j] /\ PageOf(j) = 0 /\ qfile[j].items = AllItems(j)
      /\ qfile[j].npages = 0 /\ qfile[j].status = "retry"
  BY <1>1, NewTyped DEF RequestOf, PageOf, Working, Fields
<1>3. \A pg \in Pages(j) : got[j][pg] = 0
  BY DEF Init
<1>4. Accounted(j, AllItems(j), 0, 0, got[j], "format" \notin faults)
  BY <1>3, LeftAll, LeftFinite DEF Accounted, Exact
<1> QED  BY <1>1, <1>2, <1>4

LEMMA AccountShown ==
  ASSUME Base, Sendings
  PROVE  PagesAccounted /\ DoneMeansSent
<1>1. ASSUME NEW j \in Jobs, Careful, AtFaxq(j)
      PROVE  /\ ~Working(j) /\ RequestOf(j) = qfile[j] /\ PageOf(j) = 0
             /\ Accounted(j, qfile[j].items, 0, qfile[j].npages, got[j], "format" \notin faults)
             /\ PagesLeft(j, qfile[j].items) = Left(j, qfile[j].items, 0)
             /\ state[j] = "done" => Left(j, qfile[j].items, 0) = {}
  <2>1. ~Working(j)
    <3>1. CASE At("off")
      BY <3>1 DEF Working, OnCall, At
    <3>2. CASE j \notin ToSet(fs.batch)
      <4> SUFFICES ASSUME OnCall, j = Job  PROVE FALSE
        BY DEF Working
      <4>1. fs.cur \in 1..Len(fs.batch) /\ DOMAIN fs.batch = 1..Len(fs.batch)
        BY CallFacts, LenProperties DEF OnCall
      <4> QED  BY <3>2, <4>1 DEF Job, ToSet
    <3> QED  BY <1>1, <3>1, <3>2 DEF AtFaxq
  <2>2. RequestOf(j) = qfile[j] /\ PageOf(j) = 0
    BY <2>1 DEF RequestOf, PageOf
  <2>3. Accounted(j, qfile[j].items, 0, qfile[j].npages, got[j], "format" \notin faults)
    BY <1>1, <2>2 DEF Sendings
  <2>4. PagesLeft(j, qfile[j].items) = Left(j, qfile[j].items, 0)
    BY <2>3, LeftAtRest DEF Accounted, Proper
  <2>5. state[j] = "done" => qfile[j].items = <<>>
    BY <1>1, <2>1 DEF Sendings
  <2> QED  BY <2>1, <2>2, <2>3, <2>4, <2>5, LeftNone
<1>2. PagesAccounted
  <2> SUFFICES ASSUME faults \subseteq {"abort"}, NEW j \in Jobs, AtFaxq(j)
               PROVE  /\ \A pg \in Pages(j) :
                           got[j][pg] = IF pg \in PagesLeft(j, qfile[j].items) THEN 0 ELSE 1
                      /\ state[j] = "done" => PagesLeft(j, qfile[j].items) = {}
                      /\ qfile[j].npages + Cardinality(PagesLeft(j, qfile[j].items))
                           = Cardinality(Pages(j))
    BY DEF PagesAccounted
  <2>1. Careful /\ "format" \notin faults
    BY DEF Careful
  <2> QED  BY <2>1, <1>1 DEF Accounted, Exact
<1>3. DoneMeansSent
  <2> SUFFICES ASSUME Careful, NEW j \in Jobs, state[j] = "done", NEW pg \in Pages(j)
               PROVE  got[j][pg] >= 1
    BY DEF DoneMeansSent, Careful
  <2>1. AtFaxq(j)
    <3>1. CASE At("off")
      BY <3>1 DEF AtFaxq
    <3>2. CASE ~At("off")
      <4>1. Placed /\ DOMAIN fs.batch = 1..Len(fs.batch)
        BY <3>2, CallFacts, LenProperties DEF At
      <4> QED  BY <4>1 DEF Placed, AtFaxq, ToSet
    <3> QED  BY <3>1, <3>2
  <2>2. pg \notin Left(j, qfile[j].items, 0)
    BY <1>1, <2>1
  <2> QED  BY <1>1, <2>1, <2>2 DEF Accounted
<1> QED  BY <1>2, <1>3

\* As long as calls are at worst aborted, the pages that are not to be sent again
\* are those the other side has confirmed, once each, and npages counts them.
THEOREM PagesAreAccounted == Spec => []PagesAccounted
<1>1. Init => Base /\ Sendings
  BY BaseInit, SendingsInit
<1>2. Base /\ Sendings /\ [Next]_vars => (Base /\ Sendings)'
  BY BaseStep, SendingsStep, Kinds
<1>3. Base /\ Sendings => PagesAccounted
  BY AccountShown
<1> QED  BY <1>1, <1>2, <1>3, PTL DEF Spec

\* A job is done only when the other side has confirmed all of its pages, be it
\* aborted or reformatted on the way.
THEOREM DoneJobsAreSent == Spec => []DoneMeansSent
<1>1. Init => Base /\ Sendings
  BY BaseInit, SendingsInit
<1>2. Base /\ Sendings /\ [Next]_vars => (Base /\ Sendings)'
  BY BaseStep, SendingsStep, Kinds
<1>3. Base /\ Sendings => DoneMeansSent
  BY AccountShown
<1> QED  BY <1>1, <1>2, <1>3, PTL DEF Spec

\* The types, which hold whatever happens.
THEOREM SendTyped == Spec => []TypeOK
<1>1. Base => TypeOK
  BY DEF Base
<1> QED  BY <1>1, BaseInit, BaseStep, PTL DEF Spec
=============================================================================
