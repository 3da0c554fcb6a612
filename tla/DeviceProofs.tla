----------------------------- MODULE DeviceProofs -----------------------------
(***************************************************************************)
(* faxgetty and faxsend never use the device at once, for any number of    *)
(* events from outside and setup attempts, whichever administrators'       *)
(* commands are in use, and whether data and voice sessions keep the lock  *)
(* or not; external sessions keep it (LockExternCalls, the default).       *)
(***************************************************************************)
EXTENDS Device, TLAPS

Holders == {None, "faxgetty", "login", "dead", "stale", "faxq", "other"}
Getty ==
  [life : {"running", "quit", "gone"},
   state : {"BASE", "RUNNING", "MODEMWAIT", "LOCKWAIT", "GETTYWAIT",
            "LISTENING", "ANSWERING", "RECEIVING"},
   modem : BOOLEAN, mine : BOOLEAN, timer : BOOLEAN, ring : BOOLEAN, attempts : Nat,
   at : {"dispatch", "setup", "listen", "hangup", "call", "login", "regain"}]
Queue ==
  [up : BOOLEAN, modem : {"DOWN", "READY", "BUSY"}, polling : BOOLEAN,
   job : {"none", "assigned", "call"}]

TypeOK ==
  /\ lock \in Holders /\ getty \in Getty /\ faxq \in Queue
  /\ robbed \in BOOLEAN

\* Where faxgetty takes itself to have the lock (UUCPLock::locked): wherever
\* it uses the device, while it waits for the next ring, and during a session
\* it goes on from with the modem it had.
Places ==
  /\ getty.at \in {"setup", "listen", "call"} => getty.mine
  /\ getty.at = "dispatch" /\ getty.state = "LISTENING" => getty.mine
  /\ getty.at \in {"login", "regain"} /\ getty.modem => getty.mine

\* What faxgetty takes for its lock is its lock: the file names it, or the
\* session it has handed the lock to, or is what that session left behind.
\* While faxq has the modem the file names faxq.
Named ==
  /\ getty.mine =>
       /\ getty.at = "login" => lock = "login"
       /\ getty.at = "regain" => lock \in {"dead", "stale"}
       /\ getty.at \notin {"login", "regain"} => lock = "faxgetty"
  /\ faxq.job # "none" => lock = "faxq"

IInv == TypeOK /\ Places /\ (~robbed => Named)

-----------------------------------------------------------------------------
\* A value of the type of getty, by the fields the invariant speaks of.
Shape(g, state, modem, mine, at) ==
  g \in Getty /\ g.state = state /\ g.modem = modem /\ g.mine = mine /\ g.at = at

\* Field by field: what an assignment of faxgetty changes and leaves alone.
LEMMA FreshShape ==
  /\ Shape(Fresh, "BASE", FALSE, FALSE, "dispatch")
  /\ Shape(Gone, "BASE", FALSE, FALSE, "dispatch")
BY DEF Fresh, Gone, Shape, Getty

LEMMA SetMine ==
  ASSUME NEW g, NEW s, NEW m, NEW l, NEW p, Shape(g, s, m, l, p),
         NEW v \in BOOLEAN
  PROVE  Shape([g EXCEPT !.mine = v], s, m, v, p)
BY DEF Shape, Getty

LEMMA SetModem ==
  ASSUME NEW g, NEW s, NEW m, NEW l, NEW p, Shape(g, s, m, l, p),
         NEW v \in BOOLEAN
  PROVE  Shape([g EXCEPT !.modem = v], s, v, l, p)
BY DEF Shape, Getty

LEMMA SetRing ==
  ASSUME NEW g, NEW s, NEW m, NEW l, NEW p, Shape(g, s, m, l, p),
         NEW v \in BOOLEAN
  PROVE  Shape([g EXCEPT !.ring = v], s, m, l, p)
BY DEF Shape, Getty

LEMMA SetTimer ==
  ASSUME NEW g, NEW s, NEW m, NEW l, NEW p, Shape(g, s, m, l, p),
         NEW v \in BOOLEAN
  PROVE  Shape([g EXCEPT !.timer = v], s, m, l, p)
BY DEF Shape, Getty

LEMMA SetAt ==
  ASSUME NEW g, NEW s, NEW m, NEW l, NEW p, Shape(g, s, m, l, p),
         NEW v \in {"dispatch", "setup", "listen", "hangup", "call", "login", "regain"}
  PROVE  Shape([g EXCEPT !.at = v], s, m, l, v)
BY DEF Shape, Getty

LEMMA SetLife ==
  ASSUME NEW g, NEW s, NEW m, NEW l, NEW p, Shape(g, s, m, l, p),
         NEW v \in {"running", "quit", "gone"}
  PROVE  Shape([g EXCEPT !.life = v], s, m, l, p)
BY DEF Shape, Getty

LEMMA ChangedShape ==
  ASSUME NEW g, NEW s, NEW m, NEW l, NEW p, Shape(g, s, m, l, p), NEW timer \in BOOLEAN,
         NEW v \in {"RUNNING", "MODEMWAIT", "LOCKWAIT", "GETTYWAIT",
                    "LISTENING", "ANSWERING", "RECEIVING"}
  PROVE  Shape(Changed(g, v, timer), v, m, l, p)
<1> DEFINE a == [g EXCEPT !.state = v]
           n == IF v # "MODEMWAIT" THEN g.attempts ELSE IF g.state = v THEN g.attempts + 1 ELSE 0
           b == [a EXCEPT !.timer = timer]
           c == [b EXCEPT !.attempts = n]
<1>1. Changed(g, v, timer) = c
  BY DEF Changed, Shape, Getty
<1>2. n \in Nat
  BY DEF Shape, Getty
<1> HIDE DEF n
<1>3. Shape(a, v, m, l, p)
  BY DEF Shape, Getty
<1>4. Shape(b, v, m, l, p)
  BY <1>3 DEF Shape, Getty
<1>5. Shape(c, v, m, l, p)
  BY <1>2, <1>4 DEF Shape, Getty
<1> QED BY <1>1, <1>5

LEMMA Initially == Init => IInv
<1> SUFFICES ASSUME Init PROVE IInv
  OBVIOUS
<1>1. Shape(getty, "BASE", FALSE, FALSE, "dispatch")
  BY FreshShape DEF Init
<1>2. lock = None /\ robbed = FALSE /\ faxq \in Queue /\ faxq.job = "none"
  BY DEF Init, Queue
<1>3. TypeOK
  BY <1>1, <1>2 DEF Shape, TypeOK, Holders
<1>4. Places
  BY <1>1 DEF Shape, Places
<1>5. Named
  BY <1>1, <1>2 DEF Shape, Named
<1> QED BY <1>3, <1>4, <1>5 DEF IInv

-----------------------------------------------------------------------------
(* The steps of faxgetty *)

\* What of the invariant a step has to show.
After(state, modem, mine, at) ==
  /\ Shape(getty', state, modem, mine, at)
  /\ lock' \in Holders /\ faxq' \in Queue /\ robbed' \in BOOLEAN
  /\ at \in {"setup", "listen", "call"} => mine
  /\ at = "dispatch" /\ state = "LISTENING" => mine
  /\ at \in {"login", "regain"} /\ modem => mine
  /\ ~robbed' /\ mine =>
       /\ at = "login" => lock' = "login"
       /\ at = "regain" => lock' \in {"dead", "stale"}
       /\ at \notin {"login", "regain"} => lock' = "faxgetty"
  /\ ~robbed' /\ faxq'.job # "none" => lock' = "faxq"

LEMMA Established ==
  ASSUME NEW state, NEW modem, NEW mine, NEW at, After(state, modem, mine, at)
  PROVE  IInv'
BY DEF After, Shape, IInv, TypeOK, Places, Named

LEMMA OpenStep == ASSUME IInv, Open PROVE IInv'
<1>1. CASE Free /\ lock' = "faxgetty" /\ getty' = [Fresh EXCEPT !.mine = TRUE, !.at = "setup"]
  <2> DEFINE g == [Fresh EXCEPT !.mine = TRUE]
  <2>1. Shape(g, "BASE", FALSE, TRUE, "dispatch")
    BY FreshShape, SetMine
  <2> HIDE DEF g
  <2>2. Shape([g EXCEPT !.at = "setup"], "BASE", FALSE, TRUE, "setup")
    BY <2>1, SetAt
  <2>3. Shape(getty', "BASE", FALSE, TRUE, "setup")
    BY <1>1, <2>2 DEF g, Fresh
  <2>4. After("BASE", FALSE, TRUE, "setup")
    BY <1>1, <2>3, DeviceAssumption DEF Open, After, Free, IInv, TypeOK, Named, Holders
  <2> QED BY <2>4, Established
<1>2. CASE getty' = Changed(Fresh, "LOCKWAIT", TRUE) /\ UNCHANGED lock
  <2>1. Shape(getty', "LOCKWAIT", FALSE, FALSE, "dispatch")
    BY <1>2, FreshShape, ChangedShape
  <2>2. After("LOCKWAIT", FALSE, FALSE, "dispatch")
    BY <1>2, <2>1 DEF Open, After, IInv, TypeOK, Named
  <2> QED BY <2>2, Established
<1> QED BY <1>1, <1>2 DEF Open

\* faxgetty as the invariant finds it.
LEMMA GettyShape ==
  ASSUME IInv
  PROVE  /\ Shape(getty, getty.state, getty.modem, getty.mine, getty.at)
         /\ getty.modem \in BOOLEAN /\ getty.mine \in BOOLEAN
         /\ lock \in Holders /\ faxq \in Queue /\ robbed \in BOOLEAN
BY DEF IInv, TypeOK, Shape, Getty

LEMMA ClosedShape ==
  ASSUME NEW g, NEW s, NEW m, NEW l, NEW p, Shape(g, s, m, l, p), NEW free \in BOOLEAN
  PROVE  /\ Closed(g, free).modem \in BOOLEAN
         /\ Shape(Closed(g, free), s, Closed(g, free).modem, l, p)
<1> DEFINE h == [g EXCEPT !.life = "quit"]
           n == g.modem /\ (g.mine \/ ~free)
<1>1. Closed(g, free) = [h EXCEPT !.modem = n]
  BY DEF Closed, Shape, Getty
<1>2. Shape(h, s, m, l, p)
  BY SetLife
<1>3. n \in BOOLEAN
  OBVIOUS
<1> HIDE DEF h, n
<1>4. Shape([h EXCEPT !.modem = n], s, n, l, p)
  BY <1>2, <1>3, SetModem
<1> QED BY <1>1, <1>3, <1>4 DEF Shape

LEMMA SetupModemStep == ASSUME IInv, SetupModem PROVE IInv'
<1> DEFINE a == [getty EXCEPT !.mine = FALSE]
           g == [a EXCEPT !.at = "dispatch"]
           h(open) == Changed([g EXCEPT !.modem = open], "MODEMWAIT", TRUE)
<1>1. Shape(a, getty.state, getty.modem, FALSE, getty.at)
  BY GettyShape, SetMine
<1>2. Shape(g, getty.state, getty.modem, FALSE, "dispatch")
  BY <1>1, SetAt
<1>3. \/ getty' = Changed([g EXCEPT !.modem = TRUE], "RUNNING", TRUE)
      \/ \E open \in {getty.modem, TRUE} : getty' = h(open) \/ getty' = Closed(h(open), TRUE)
  BY DEF SetupModem, Become
<1> HIDE DEF g
<1>4. Shape([g EXCEPT !.modem = TRUE], getty.state, TRUE, FALSE, "dispatch")
  BY <1>2, SetModem
<1>5. Shape(Changed([g EXCEPT !.modem = TRUE], "RUNNING", TRUE), "RUNNING", TRUE, FALSE, "dispatch")
  BY <1>4, ChangedShape
<1>6. ASSUME NEW open \in BOOLEAN
      PROVE  Shape(h(open), "MODEMWAIT", open, FALSE, "dispatch")
  <2>1. Shape([g EXCEPT !.modem = open], getty.state, open, FALSE, "dispatch")
    BY <1>2, SetModem
  <2> QED BY <2>1, ChangedShape
<1> HIDE DEF h
<1>7. ASSUME NEW open \in BOOLEAN
      PROVE  /\ Closed(h(open), TRUE).modem \in BOOLEAN
             /\ Shape(Closed(h(open), TRUE), "MODEMWAIT", Closed(h(open), TRUE).modem, FALSE, "dispatch")
  <2>1. Shape(h(open), "MODEMWAIT", open, FALSE, "dispatch") /\ TRUE \in BOOLEAN
    BY <1>6
  <2> QED BY <2>1, ClosedShape
<1>8. \E s \in {"RUNNING", "MODEMWAIT"}, n \in BOOLEAN : Shape(getty', s, n, FALSE, "dispatch")
  <2>1. CASE getty' = Changed([g EXCEPT !.modem = TRUE], "RUNNING", TRUE)
    BY <1>5, <2>1
  <2>2. ASSUME NEW open \in BOOLEAN, getty' = h(open)
        PROVE  \E n \in BOOLEAN : Shape(getty', "MODEMWAIT", n, FALSE, "dispatch")
    BY <1>6, <2>2
  <2>3. ASSUME NEW open \in BOOLEAN, getty' = Closed(h(open), TRUE)
        PROVE  \E n \in BOOLEAN : Shape(getty', "MODEMWAIT", n, FALSE, "dispatch")
    BY <1>7, <2>3
  <2>4. {getty.modem, TRUE} \subseteq BOOLEAN
    BY GettyShape
  <2> QED BY <1>3, <2>1, <2>2, <2>3, <2>4
<1>9. lock' = None /\ UNCHANGED <<faxq, robbed>> /\ (~robbed => faxq.job = "none")
  BY DEF SetupModem, IInv, Places, Named
<1>10. ASSUME NEW s \in {"RUNNING", "MODEMWAIT"}, NEW n \in BOOLEAN,
              Shape(getty', s, n, FALSE, "dispatch")
       PROVE  IInv'
  <2>1. After(s, n, FALSE, "dispatch")
    BY <1>9, <1>10, GettyShape DEF After, Holders
  <2> QED BY <2>1, Established
<1> QED BY <1>8, <1>10

LEMMA TimerExpiredStep == ASSUME IInv, TimerExpired PROVE IInv'
<1>1. Dispatching /\ UNCHANGED <<faxq, robbed>> /\ getty.at = "dispatch"
  BY DEF TimerExpired, Dispatching
<1>2. CASE getty.state = "RUNNING" /\ Free /\ lock' = None /\ UNCHANGED getty
  <2>1. ~robbed => ~getty.mine /\ faxq.job = "none"
    BY <1>1, <1>2, DeviceAssumption DEF IInv, Named, Free
  <2>2. After(getty.state, getty.modem, getty.mine, getty.at)
    BY <1>1, <1>2, <2>1, GettyShape DEF After, Holders
  <2> QED BY <2>2, Established
<1>3. CASE getty' = Changed(getty, "LOCKWAIT", TRUE) /\ UNCHANGED lock
  <2>1. Shape(getty', "LOCKWAIT", getty.modem, getty.mine, getty.at)
    BY <1>3, GettyShape, ChangedShape
  <2>2. After("LOCKWAIT", getty.modem, getty.mine, getty.at)
    BY <1>1, <1>3, <2>1, GettyShape DEF After, IInv, Named
  <2> QED BY <2>2, Established
<1>4. CASE MayLock /\ lock' = "faxgetty" /\ getty' = [getty EXCEPT !.timer = FALSE, !.mine = TRUE, !.at = "setup"]
  <2> DEFINE a == [getty EXCEPT !.timer = FALSE]
             b == [a EXCEPT !.mine = TRUE]
  <2>1. Shape(a, getty.state, getty.modem, getty.mine, getty.at)
    BY GettyShape, SetTimer
  <2>2. Shape(b, getty.state, getty.modem, TRUE, getty.at)
    BY <2>1, SetMine
  <2>3. Shape([b EXCEPT !.at = "setup"], getty.state, getty.modem, TRUE, "setup")
    BY <2>2, SetAt
  <2>4. getty' = [b EXCEPT !.at = "setup"]
    BY <1>4
  <2> HIDE DEF b
  <2>5. ~robbed => faxq.job = "none"
    BY <1>4, DeviceAssumption DEF IInv, Named, MayLock, Free
  <2>6. After(getty.state, getty.modem, TRUE, "setup")
    BY <1>1, <1>4, <2>3, <2>4, <2>5, GettyShape DEF After, Holders
  <2> QED BY <2>6, Established
<1> QED BY <1>2, <1>3, <1>4 DEF TimerExpired

LEMMA LockWaitShape ==
  ASSUME NEW g, NEW s, NEW m, NEW l, NEW p, Shape(g, s, m, l, p)
  PROVE  Shape(LockWait(g), "LOCKWAIT", FALSE, l, p)
<1>1. Shape([g EXCEPT !.modem = FALSE], s, FALSE, l, p)
  BY SetModem
<1> QED BY <1>1, ChangedShape DEF LockWait

LEMMA AnsweringShape ==
  ASSUME NEW g, NEW s, NEW m, NEW l, NEW p, Shape(g, s, m, l, p)
  PROVE  Shape(Answering(g), "ANSWERING", m, l, "call")
<1>1. Shape([g EXCEPT !.at = "call"], s, m, l, "call")
  BY SetAt
<1> QED BY <1>1, ChangedShape DEF Answering

\* faxgetty gives the modem up for busy, with the lock as it is.
LEMMA LockWaitStep ==
  ASSUME IInv, getty' = LockWait(getty), UNCHANGED <<lock, faxq, robbed>>
  PROVE  IInv'
<1>1. Shape(getty', "LOCKWAIT", FALSE, getty.mine, getty.at)
  BY GettyShape, LockWaitShape
<1>2. After("LOCKWAIT", FALSE, getty.mine, getty.at)
  BY <1>1, GettyShape DEF After, IInv, Places, Named
<1> QED BY <1>2, Established

\* A lock that faxgetty takes was not that of faxq.
LEMMA FreeOfJobs == ASSUME IInv, Free PROVE ~robbed => faxq.job = "none"
BY DeviceAssumption DEF IInv, Named, Free

LEMMA ModemInputStep == ASSUME IInv, ModemInput PROVE IInv'
<1> DEFINE a == [getty EXCEPT !.ring = FALSE]
           b == [getty EXCEPT !.mine = TRUE]
           c == [b EXCEPT !.ring = FALSE]
           d == [c EXCEPT !.at = "listen"]
<1>1. getty.at = "dispatch" /\ UNCHANGED <<faxq, robbed>>
  BY DEF ModemInput, Dispatching
<1>2. CASE getty.state = "LISTENING" /\ getty' = [a EXCEPT !.at = "listen"] /\ UNCHANGED lock
  <2>1. Shape(a, getty.state, getty.modem, getty.mine, getty.at)
    BY GettyShape, SetRing
  <2>2. Shape(getty', getty.state, getty.modem, getty.mine, "listen")
    BY <1>2, <2>1, SetAt
  <2>3. After(getty.state, getty.modem, getty.mine, "listen")
    BY <1>1, <1>2, <2>2, GettyShape DEF After, IInv, Places, Named
  <2> QED BY <2>3, Established
<1>3. CASE MayLock /\ lock' = "faxgetty" /\ getty' = Changed(d, "LISTENING", FALSE)
  <2>1. Shape(b, getty.state, getty.modem, TRUE, getty.at)
    BY GettyShape, SetMine
  <2> HIDE DEF b
  <2>2. Shape(c, getty.state, getty.modem, TRUE, getty.at)
    BY <2>1, SetRing
  <2> HIDE DEF c
  <2>3. Shape(d, getty.state, getty.modem, TRUE, "listen")
    BY <2>2, SetAt
  <2> HIDE DEF d
  <2>4. Shape(getty', "LISTENING", getty.modem, TRUE, "listen")
    BY <1>3, <2>3, ChangedShape
  <2>5. After("LISTENING", getty.modem, TRUE, "listen")
    BY <1>1, <1>3, <2>4, GettyShape, FreeOfJobs DEF After, Holders, MayLock
  <2> QED BY <2>5, Established
<1>4. CASE getty' = LockWait(getty) /\ UNCHANGED lock
  BY <1>1, <1>4, LockWaitStep
<1> QED BY <1>2, <1>3, <1>4 DEF ModemInput

LEMMA ListenForRingStep == ASSUME IInv, ListenForRing PROVE IInv'
<1> DEFINE a == [getty EXCEPT !.ring = TRUE]
<1>1. getty.at = "listen" /\ UNCHANGED <<lock, faxq, robbed>>
  BY DEF ListenForRing
<1>2. CASE getty' = Answering(getty)
  <2>1. Shape(getty', "ANSWERING", getty.modem, getty.mine, "call")
    BY <1>2, GettyShape, AnsweringShape
  <2>2. After("ANSWERING", getty.modem, getty.mine, "call")
    BY <1>1, <2>1, GettyShape DEF After, IInv, Places, Named
  <2> QED BY <2>2, Established
<1>3. CASE getty' = [a EXCEPT !.at = "dispatch"]
  <2>1. Shape(a, getty.state, getty.modem, getty.mine, getty.at)
    BY GettyShape, SetRing
  <2>2. Shape(getty', getty.state, getty.modem, getty.mine, "dispatch")
    BY <1>3, <2>1, SetAt
  <2>3. After(getty.state, getty.modem, getty.mine, "dispatch")
    BY <1>1, <2>2, GettyShape DEF After, IInv, Places, Named
  <2> QED BY <2>3, Established
<1>4. CASE getty' = [getty EXCEPT !.at = "hangup"]
  <2>1. Shape(getty', getty.state, getty.modem, getty.mine, "hangup")
    BY <1>4, GettyShape, SetAt
  <2>2. After(getty.state, getty.modem, getty.mine, "hangup")
    BY <1>1, <2>1, GettyShape DEF After, IInv, Places, Named
  <2> QED BY <2>2, Established
<1> QED BY <1>2, <1>3, <1>4 DEF ListenForRing

LEMMA RingsCeaseStep == ASSUME IInv, RingsCease PROVE IInv'
<1> DEFINE a == [getty EXCEPT !.ring = FALSE]
<1>1. Shape(a, getty.state, getty.modem, getty.mine, getty.at)
  BY GettyShape, SetRing
<1>2. Shape(getty', getty.state, getty.modem, getty.mine, "hangup")
  BY <1>1, SetAt DEF RingsCease
<1>3. After(getty.state, getty.modem, getty.mine, "hangup")
  BY <1>2, GettyShape DEF RingsCease, Dispatching, After, IInv, Places, Named
<1> QED BY <1>3, Established

LEMMA AnswerCleanupStep == ASSUME IInv, AnswerCleanup PROVE IInv'
<1> DEFINE g == [getty EXCEPT !.modem = FALSE]
           b == [g EXCEPT !.mine = TRUE]
           c == [g EXCEPT !.at = "dispatch"]
<1>1. getty.at = "hangup" /\ UNCHANGED <<faxq, robbed>>
  BY DEF AnswerCleanup
<1>2. Shape(g, getty.state, FALSE, getty.mine, getty.at)
  BY GettyShape, SetModem
<1>3. CASE /\ Retake
           /\ lock' = IF getty.mine \/ ~Free THEN lock ELSE "faxgetty"
           /\ getty' = [b EXCEPT !.at = "setup"]
  <2>1. Shape(b, getty.state, FALSE, TRUE, getty.at)
    BY <1>2, SetMine
  <2> HIDE DEF b
  <2>2. Shape(getty', getty.state, FALSE, TRUE, "setup")
    BY <1>3, <2>1, SetAt
  <2>3. ~robbed => lock' = "faxgetty" /\ faxq.job = "none"
    BY <1>1, <1>3, FreeOfJobs DEF Retake, IInv, Named
  <2>4. After(getty.state, FALSE, TRUE, "setup")
    BY <1>1, <1>3, <2>2, <2>3, GettyShape DEF After, Holders
  <2> QED BY <2>4, Established
<1>4. CASE getty' = Changed(c, "MODEMWAIT", TRUE) /\ UNCHANGED lock
  <2>1. Shape(c, getty.state, FALSE, getty.mine, "dispatch")
    BY <1>2, SetAt
  <2> HIDE DEF c
  <2>2. Shape(getty', "MODEMWAIT", FALSE, getty.mine, "dispatch")
    BY <1>4, <2>1, ChangedShape
  <2>3. After("MODEMWAIT", FALSE, getty.mine, "dispatch")
    BY <1>1, <1>4, <2>2, GettyShape DEF After, IInv, Named
  <2> QED BY <2>3, Established
<1> QED BY <1>3, <1>4 DEF AnswerCleanup, Become

LEMMA ReceiveFaxStep == ASSUME IInv, ReceiveFax PROVE IInv'
<1>1. getty.at = "call" /\ UNCHANGED <<lock, faxq, robbed>>
  BY DEF ReceiveFax, InCall
<1>2. Shape(getty', "RECEIVING", getty.modem, getty.mine, getty.at)
  BY GettyShape, ChangedShape DEF ReceiveFax
<1>3. After("RECEIVING", getty.modem, getty.mine, getty.at)
  BY <1>1, <1>2, GettyShape DEF After, IInv, Places, Named
<1> QED BY <1>3, Established

\* The end of a call, or of a session from which faxgetty does not go on.
LEMMA HangupStep ==
  ASSUME IInv, getty' = [getty EXCEPT !.at = "hangup"], lock' \in Holders,
         UNCHANGED <<faxq, robbed>>,
         ~robbed => /\ getty.mine => lock' = "faxgetty"
                    /\ faxq.job # "none" => lock' = lock
  PROVE  IInv'
<1>1. Shape(getty', getty.state, getty.modem, getty.mine, "hangup")
  BY GettyShape, SetAt
<1>2. After(getty.state, getty.modem, getty.mine, "hangup")
  BY <1>1, GettyShape DEF After, IInv, Named
<1> QED BY <1>2, Established

LEMMA EndCallStep == ASSUME IInv, EndCall PROVE IInv'
<1>1. getty.at = "call" /\ UNCHANGED <<lock, faxq, robbed>>
  BY DEF EndCall, InCall
<1>2. ~robbed /\ getty.mine => lock' = "faxgetty"
  BY <1>1 DEF IInv, Named
<1> QED BY <1>1, <1>2, GettyShape, HangupStep DEF EndCall

\* The process is gone; the file it leaves does not name faxq unless it did.
LEMMA GoneStep ==
  ASSUME IInv, getty' = Gone, lock' \in Holders, UNCHANGED <<faxq, robbed>>,
         ~robbed /\ faxq.job # "none" => lock' = lock
  PROVE  IInv'
<1>1. After("BASE", FALSE, FALSE, "dispatch")
  BY FreshShape, GettyShape DEF After, IInv, Named
<1> QED BY <1>1, Established

LEMMA NullModemStep == ASSUME IInv, NullModem PROVE IInv'
<1>1. lock' \in Holders /\ (lock' = lock \/ lock = "faxgetty")
  BY GettyShape DEF NullModem, Holders
<1>2. ~robbed /\ faxq.job # "none" => lock' = lock
  BY <1>1 DEF IInv, Named
<1> QED BY <1>1, <1>2, GoneStep DEF NullModem

\* A login session: only an external one has the modem to come back to, and it
\* keeps the lock.
LEMMA RunGettyStep ==
  ASSUME IInv, NEW kind \in {"data", "extern"}, NEW keep \in BOOLEAN, RunGetty(kind, keep),
         kind = "extern" => keep
  PROVE  IInv'
<1> DEFINE m == getty.mine /\ keep
           x == kind = "extern"
           g == [getty EXCEPT !.mine = m]
           a == [g EXCEPT !.modem = x]
           b == [a EXCEPT !.at = "login"]
<1>1. getty.at = "call" /\ UNCHANGED <<faxq, robbed>> /\ getty.mine
  BY DEF RunGetty, InCall, IInv, Places
<1>2. m \in BOOLEAN /\ x \in BOOLEAN /\ m = keep /\ (x => m)
  BY <1>1, GettyShape
<1>3. ~robbed => lock = "faxgetty" /\ faxq.job = "none"
  BY <1>1 DEF IInv, Named
<1>4. CASE lock' = (IF keep THEN "login" ELSE None) /\ getty' = Changed(b, "GETTYWAIT", FALSE)
  <2> HIDE DEF m, x
  <2>1. Shape(g, getty.state, getty.modem, m, getty.at)
    BY <1>2, GettyShape, SetMine
  <2> HIDE DEF g
  <2>2. Shape(a, getty.state, x, m, getty.at)
    BY <1>2, <2>1, SetModem
  <2> HIDE DEF a
  <2>3. Shape(b, getty.state, x, m, "login")
    BY <2>2, SetAt
  <2> HIDE DEF b
  <2>4. Shape(getty', "GETTYWAIT", x, m, "login")
    BY <1>4, <2>3, ChangedShape
  <2>5. After("GETTYWAIT", x, m, "login")
    BY <1>1, <1>2, <1>3, <1>4, <2>4, GettyShape DEF After, Holders
  <2> QED BY <2>5, Established
<1>5. CASE lock' = (IF keep THEN lock ELSE None) /\ getty' = [g EXCEPT !.at = "hangup"]
  <2> HIDE DEF m
  <2>1. Shape(g, getty.state, getty.modem, m, getty.at)
    BY <1>2, GettyShape, SetMine
  <2> HIDE DEF g
  <2>2. Shape(getty', getty.state, getty.modem, m, "hangup")
    BY <1>5, <2>1, SetAt
  <2>3. After(getty.state, getty.modem, m, "hangup")
    BY <1>1, <1>2, <1>3, <1>5, <2>2, GettyShape DEF After, Holders
  <2> QED BY <2>3, Established
<1> QED BY <1>4, <1>5 DEF RunGetty

LEMMA LoginLocksStep == ASSUME IInv, LoginLocks PROVE IInv'
<1>1. /\ getty.at = "login" /\ ~getty.mine /\ Free /\ lock' = "login"
      /\ UNCHANGED <<getty, faxq, robbed>>
  BY DEF LoginLocks
<1>2. After(getty.state, getty.modem, getty.mine, getty.at)
  BY <1>1, GettyShape, FreeOfJobs DEF After, Shape, Holders, IInv, Places
<1> QED BY <1>2, Established

LEMMA LoginEndsStep == ASSUME IInv, LoginEnds PROVE IInv'
<1>1. /\ getty.at = "login" /\ UNCHANGED <<faxq, robbed>>
      /\ lock' = IF lock # "login" THEN lock ELSE IF getty.mine THEN "dead" ELSE None
  BY DEF LoginEnds
<1>2. Shape(getty', getty.state, getty.modem, getty.mine, "regain")
  BY GettyShape, SetAt DEF LoginEnds
<1>3. ~robbed /\ faxq.job # "none" => lock' = "faxq"
  BY <1>1 DEF IInv, Named
<1>4. After(getty.state, getty.modem, getty.mine, "regain")
  BY <1>1, <1>2, <1>3, GettyShape DEF After, Holders, IInv, Places, Named
<1> QED BY <1>4, Established

LEMMA SetOwnerStep == ASSUME IInv, SetOwner PROVE IInv'
<1>1. /\ getty.at = "regain" /\ UNCHANGED <<faxq, robbed>>
      /\ lock' = IF getty.mine /\ lock # None THEN "faxgetty" ELSE lock
  BY DEF SetOwner
<1>2. lock' \in Holders
  BY <1>1, GettyShape DEF Holders
<1>3. ~robbed => /\ getty.mine => lock' = "faxgetty"
                 /\ faxq.job # "none" => lock' = lock
  BY <1>1, DeviceAssumption DEF IInv, Named
<1>4. CASE getty' = [getty EXCEPT !.at = "hangup"]
  BY <1>1, <1>2, <1>3, <1>4, HangupStep
<1>5. CASE getty.modem /\ getty' = [getty EXCEPT !.at = "call"]
  <2>1. Shape(getty', getty.state, getty.modem, getty.mine, "call")
    BY <1>5, GettyShape, SetAt
  <2>2. After(getty.state, getty.modem, getty.mine, "call")
    BY <1>1, <1>2, <1>3, <1>5, <2>1, GettyShape DEF After, IInv, Places, Named
  <2> QED BY <2>2, Established
<1> QED BY <1>4, <1>5 DEF SetOwner

LEMMA AnswerPhoneStep ==
  ASSUME IInv, getty.at \in {"dispatch", "call"}, AnswerPhoneCmd, UNCHANGED <<faxq, robbed>>
  PROVE  IInv'
<1> DEFINE a == [getty EXCEPT !.ring = FALSE]
           b == [getty EXCEPT !.mine = TRUE]
<1>1. CASE getty.state = "LISTENING" /\ getty' = Answering(a) /\ UNCHANGED lock
  <2>1. Shape(a, getty.state, getty.modem, getty.mine, getty.at)
    BY GettyShape, SetRing
  <2> HIDE DEF a
  <2>2. Shape(getty', "ANSWERING", getty.modem, getty.mine, "call")
    BY <1>1, <2>1, AnsweringShape
  <2>3. After("ANSWERING", getty.modem, getty.mine, "call")
    BY <1>1, <2>2, GettyShape DEF After, IInv, Places, Named
  <2> QED BY <2>3, Established
<1>2. CASE MayLock /\ lock' = "faxgetty" /\ getty' = Answering(b)
  <2>1. Shape(b, getty.state, getty.modem, TRUE, getty.at)
    BY GettyShape, SetMine
  <2> HIDE DEF b
  <2>2. Shape(getty', "ANSWERING", getty.modem, TRUE, "call")
    BY <1>2, <2>1, AnsweringShape
  <2>3. After("ANSWERING", getty.modem, TRUE, "call")
    BY <1>2, <2>2, GettyShape, FreeOfJobs DEF After, Holders, MayLock
  <2> QED BY <2>3, Established
<1>3. CASE getty' = LockWait(getty) /\ UNCHANGED lock
  BY <1>3, LockWaitStep
<1>4. CASE UNCHANGED <<lock, getty>>
  BY <1>4 DEF IInv, TypeOK, Places, Named
<1> QED BY <1>1, <1>2, <1>3, <1>4 DEF AnswerPhoneCmd

LEMMA QuitStep ==
  ASSUME IInv, getty.at \in {"dispatch", "call"}, Quit, UNCHANGED <<faxq, robbed>>
  PROVE  IInv'
<1>1. CASE getty' = Closed(getty, Free) /\ lock' = IF MayLock THEN None ELSE lock
  <2>1. Free \in BOOLEAN
    BY DEF Free
  <2> DEFINE n == Closed(getty, Free).modem
  <2>2. n \in BOOLEAN /\ Shape(getty', getty.state, n, getty.mine, getty.at)
    BY <1>1, <2>1, GettyShape, ClosedShape
  <2> HIDE DEF n
  <2>3. /\ lock' \in Holders /\ (getty.mine => lock' = lock)
        /\ ~robbed /\ faxq.job # "none" => lock' = lock
    BY <1>1, GettyShape, FreeOfJobs DEF Holders, MayLock
  <2>4. After(getty.state, n, getty.mine, getty.at)
    BY <2>2, <2>3, GettyShape DEF After, IInv, Places, Named
  <2> QED BY <2>4, Established
<1>2. CASE UNCHANGED <<lock, getty>>
  BY <1>2 DEF IInv, TypeOK, Places, Named
<1> QED BY <1>1, <1>2 DEF Quit

\* Messages are taken in the dispatch loop and while a call asks whether to go on.
LEMMA FIFOMessageStep == ASSUME IInv, FIFOMessage PROVE IInv'
<1>1. getty.at \in {"dispatch", "call"} /\ UNCHANGED <<faxq, robbed>>
  BY DEF FIFOMessage, Dispatching, InCall
<1>2. CASE AnswerPhoneCmd
  BY <1>1, <1>2, AnswerPhoneStep
<1>3. CASE getty' = LockWait(getty) /\ UNCHANGED lock
  BY <1>1, <1>3, LockWaitStep
<1>4. CASE Quit
  BY <1>1, <1>4, QuitStep
<1>5. CASE UNCHANGED <<lock, getty>>
  BY <1>1, <1>5 DEF IInv, TypeOK, Places, Named
<1> QED BY <1>2, <1>3, <1>4, <1>5 DEF FIFOMessage

LEMMA ExitStep == ASSUME IInv, Exit PROVE IInv'
<1>1. /\ getty.at = "dispatch" /\ getty' = Gone /\ UNCHANGED <<faxq, robbed>>
      /\ lock' = IF getty.mine THEN None ELSE lock
  BY DEF Exit
<1>2. lock' \in Holders /\ (~robbed /\ faxq.job # "none" => lock' = lock)
  BY <1>1, GettyShape DEF Holders, IInv, Named
<1> QED BY <1>1, <1>2, GoneStep

LEMMA SignalStep == ASSUME IInv, Signal PROVE IInv'
<1>1. /\ getty' = Gone /\ UNCHANGED <<faxq, robbed>>
      /\ lock' = IF lock = "faxgetty" THEN "dead"
                 ELSE IF getty.life = "running" /\ MayLock THEN None ELSE lock
  BY DEF Signal
<1>2. lock' \in Holders
  BY <1>1, GettyShape DEF Holders
<1>3. ~robbed /\ faxq.job # "none" => lock' = lock
  BY <1>1, FreeOfJobs DEF IInv, Named, MayLock
<1> QED BY <1>1, <1>2, <1>3, GoneStep

-----------------------------------------------------------------------------
(* The steps of faxq and of others *)

\* A step that leaves faxgetty alone.
LEMMA OthersStep ==
  ASSUME IInv, UNCHANGED getty, lock' \in Holders, faxq' \in Queue, robbed' \in BOOLEAN,
         ~robbed' => /\ ~robbed
                     /\ getty.mine => \/ lock' = lock
                                      \/ getty.at = "regain" /\ lock' \in {"dead", "stale"}
                     /\ faxq'.job # "none" => lock' = "faxq"
  PROVE  IInv'
BY DEF IInv, TypeOK, Places, Named

\* While faxq has the modem faxgetty does not take itself to have the lock.
LEMMA FaxqHas == ASSUME IInv, ~robbed, faxq.job # "none" PROVE lock = "faxq" /\ ~getty.mine
BY DEF IInv, Named

LEMMA QueuerStep ==
  ASSUME IInv, Queuer \/ AssignModem \/ StopFaxq
  PROVE  IInv'
<1> USE GettyShape
<1>1. CASE ModemMessage
  <2>1. faxq' \in Queue /\ faxq'.job = faxq.job
    BY <1>1 DEF ModemMessage, Queue
  <2> QED BY <1>1, <2>1, OthersStep DEF ModemMessage, IInv, Named
<1>2. CASE SendFax
  <2>1. faxq' \in Queue /\ faxq.job # "none"
    BY <1>2 DEF SendFax, Queue
  <2> QED BY <1>2, <2>1, OthersStep, FaxqHas DEF SendFax
<1>3. CASE ReleaseModem
  <2>1. faxq' \in Queue /\ faxq'.job = "none" /\ faxq.job # "none"
    BY <1>3 DEF ReleaseModem, Released, Queue
  <2> QED BY <1>3, <2>1, OthersStep, FaxqHas DEF ReleaseModem, Holders
<1>4. CASE PollForModemLock
  <2>1. faxq' \in Queue /\ faxq'.job = faxq.job
    BY <1>4 DEF PollForModemLock, Released, Queue
  <2>2. lock' = None /\ Free /\ robbed' = (robbed \/ getty.mine) /\ UNCHANGED getty
    BY <1>4 DEF PollForModemLock, Robbed
  <2> QED BY <2>1, <2>2, FreeOfJobs, OthersStep DEF Holders
<1>5. CASE StartFaxq
  <2>1. faxq' \in Queue /\ faxq'.job = faxq.job
    BY <1>5 DEF StartFaxq, Queue
  <2> QED BY <1>5, <2>1, OthersStep DEF StartFaxq, IInv, Named
<1>6. CASE AssignModem
  <2>1. CASE Free /\ lock' = "faxq" /\ Robbed /\ faxq' = [faxq EXCEPT !.modem = "BUSY", !.job = "assigned"]
    <3>1. faxq' \in Queue
      BY <2>1 DEF Queue
    <3>2. robbed' = (robbed \/ getty.mine) /\ UNCHANGED getty
      BY <1>6, <2>1 DEF AssignModem, Robbed
    <3> QED BY <2>1, <3>1, <3>2, OthersStep DEF Holders
  <2>2. CASE faxq' = [faxq EXCEPT !.modem = "BUSY", !.polling = TRUE] /\ UNCHANGED <<lock, robbed>>
    <3>1. faxq' \in Queue /\ faxq'.job = faxq.job
      BY <2>2 DEF Queue
    <3> QED BY <1>6, <2>2, <3>1, OthersStep DEF AssignModem, IInv, Named
  <2> QED BY <1>6, <2>1, <2>2 DEF AssignModem
<1>7. CASE StopFaxq
  <2>1. faxq' \in Queue /\ faxq'.job = faxq.job
    BY <1>7 DEF StopFaxq, Queue
  <2> QED BY <1>7, <2>1, OthersStep DEF StopFaxq, IInv, Named
<1> QED BY <1>1, <1>2, <1>3, <1>4, <1>5, <1>6, <1>7 DEF Queuer

LEMMA OtherProgramStep ==
  ASSUME IInv, Age \/ OtherLocks \/ OtherEnds
  PROVE  IInv'
<1>1. CASE Age
  <2>1. /\ lock = "dead" /\ lock' = "stale" /\ UNCHANGED <<getty, faxq, robbed>>
    BY <1>1 DEF Age
  <2>2. ~robbed => faxq.job = "none" /\ (getty.mine => getty.at = "regain")
    BY <2>1 DEF IInv, Named
  <2> QED BY <2>1, <2>2, GettyShape, OthersStep DEF Holders
<1>2. CASE OtherLocks
  <2>1. Free /\ lock' = "other" /\ robbed' = (robbed \/ getty.mine) /\ UNCHANGED <<getty, faxq>>
    BY <1>2 DEF OtherLocks, Robbed
  <2> QED BY <2>1, FreeOfJobs, GettyShape, OthersStep DEF Holders
<1>3. CASE OtherEnds
  <2>1. lock = "other" /\ lock' \in {None, "dead"} /\ UNCHANGED <<getty, faxq, robbed>>
    BY <1>3 DEF OtherEnds
  <2>2. ~robbed => faxq.job = "none" /\ ~getty.mine
    BY <2>1 DEF IInv, Named
  <2> QED BY <2>1, <2>2, GettyShape, OthersStep DEF Holders
<1> QED BY <1>1, <1>2, <1>3

-----------------------------------------------------------------------------
\* External sessions keep the lock (LockExternCalls, by default; for the other
\* setting TLC finds a call without the lock).
LEMMA Inductive == ASSUME FALSE \notin KeepExtern PROVE IInv /\ [Next]_vars => IInv'
<1> SUFFICES ASSUME IInv, [Next]_vars PROVE IInv'
  OBVIOUS
<1>1. CASE Faxgetty
  BY <1>1, OpenStep, SetupModemStep, TimerExpiredStep, ListenForRingStep, RingsCeaseStep,
     AnswerCleanupStep, ReceiveFaxStep, EndCallStep, NullModemStep, LoginEndsStep,
     SetOwnerStep, FIFOMessageStep, ExitStep DEF Faxgetty
<1>2. CASE Outside
  <2>1. ASSUME NEW kind \in {"data", "extern"},
               NEW keep \in (IF kind = "extern" THEN KeepExtern ELSE KeepData),
               RunGetty(kind, keep)
        PROVE  IInv'
    <3>1. keep \in BOOLEAN /\ (kind = "extern" => keep)
      BY <2>1, DeviceAssumption
    <3> QED BY <2>1, <3>1, RunGettyStep
  <2>2. ASSUME NEW c \in Commands \ {"TERM"}, Command(c)
        PROVE  IInv'
    BY <2>2 DEF Command, IInv, TypeOK, Places, Named
  <2> QED BY <1>2, <2>1, <2>2, ModemInputStep, LoginLocksStep, SignalStep DEF Outside
<1>3. CASE Queuer \/ AssignModem \/ StopFaxq
  BY <1>3, QueuerStep
<1>4. CASE Age \/ OtherLocks \/ OtherEnds
  BY <1>4, OtherProgramStep
<1>5. CASE UNCHANGED vars
  BY <1>5 DEF vars, IInv, TypeOK, Places, Named
<1> QED BY <1>1, <1>2, <1>3, <1>4, <1>5 DEF Next

\* faxgetty and faxsend use the device only under the lock that names them,
\* and so never at once, however calls, sessions, messages, signals, restarts
\* and crashes interleave, until a lock is purged in the moment its owner is
\* rewriting it.
THEOREM DeviceExclusive == ASSUME FALSE \notin KeepExtern PROVE Spec => []OneUser
<1>1. IInv => OneUser
  BY DEF IInv, Places, Named, OneUser, Using
<1> QED BY Initially, Inductive, <1>1, PTL DEF Spec
=============================================================================
