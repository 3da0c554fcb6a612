------------------------------- MODULE Device -------------------------------
(***************************************************************************)
(* One modem between faxgetty, which answers calls on it, and faxq, which  *)
(* gives it to faxsend for calls out (src/faxd/ModemServer.c++,            *)
(* faxGettyApp.c++, Modem.c++ and faxQueueApp.c++).                        *)
(*                                                                         *)
(* They share the lock file of the device, and talk through two FIFOs that *)
(* each reads when it gets to it.  faxgetty is one thread: "at" says what  *)
(* it is doing, and only in its dispatch loop, or in a call that asks      *)
(* whether to go on (abortRequested), does it take messages and timers.    *)
(* Every way a caller, a job, an administrator, another program, a signal  *)
(* or a fault may interfere is an action, bounded by "left".               *)
(***************************************************************************)
EXTENDS Naturals, Sequences

CONSTANTS
  None,
  MaxAttempts,  \* MaxSetupAttempts
  KeepData,     \* values of LockDataCalls and LockVoiceCalls
  KeepExtern,   \* values of LockExternCalls
  Commands,     \* what administrators send: A (faxanswer), L (faxlock), Q (faxquit), TERM
  Budget        \* bound: how many events come from outside

ASSUME DeviceAssumption ==
  /\ None \notin {"faxgetty", "login", "dead", "stale", "faxq", "other"}
  /\ MaxAttempts \in Nat \ {0} /\ KeepData \subseteq BOOLEAN /\ KeepExtern \subseteq BOOLEAN
  /\ Commands \subseteq {"A", "L", "Q", "TERM"}
  /\ Budget \in Nat

VARIABLES
  lock,      \* the pid in the lock file
  getty,     \* faxgetty: life, state, modem, mine (lock), timer, ring (timer), attempts, at
  faxq,      \* faxq: up, state of its Modem, polling, and the job that has the modem
  toGetty,   \* FIFO.<devid>
  toFaxq,    \* FIFO
  robbed,    \* history: a lock was purged while its owner rewrote it
  left       \* bound: events left

vars == <<lock, getty, faxq, toGetty, toFaxq, robbed, left>>

Fresh == [life |-> "running", state |-> "BASE", modem |-> FALSE, mine |-> FALSE,
          timer |-> FALSE, ring |-> FALSE, attempts |-> 0, at |-> "dispatch"]
Gone == [Fresh EXCEPT !.life = "gone"]

Init ==
  /\ lock = None /\ getty = Gone
  /\ faxq = [up |-> TRUE, modem |-> "DOWN", polling |-> FALSE, job |-> "none"]
  /\ toGetty = <<>> /\ toFaxq = <<>> /\ robbed = FALSE /\ left = Budget

Happens == left > 0 /\ left' = left - 1

-----------------------------------------------------------------------------
(* The lock file.  A lock is stale some time after its owner died. *)

Free == lock \in {None, "stale"}
MayLock == Free /\ ~getty.mine       \* faxgetty's UUCPLock::lock
Robbed == robbed' = (robbed \/ getty.mine)
Age == /\ lock = "dead" /\ lock' = "stale"
       /\ UNCHANGED <<getty, faxq, toGetty, toFaxq, robbed, left>>

-----------------------------------------------------------------------------
(* faxgetty *)

Dispatching == getty.life = "running" /\ getty.at = "dispatch"
Alive == getty.life # "gone"

Tell(messages) == toFaxq' = IF faxq.up THEN toFaxq \o messages ELSE toFaxq

\* changeState, but for what it sends
Changed(g, s, timer) ==
  [g EXCEPT !.state = s, !.timer = timer,
            !.attempts = IF s # "MODEMWAIT" THEN @ ELSE IF g.state = s THEN @ + 1 ELSE 0]
Ready(g, s) == IF s = "RUNNING" /\ g.state # s THEN <<"R">> ELSE <<>>
Become(g, s, timer) == getty' = Changed(g, s, timer) /\ Tell(Ready(g, s))

LockWait(g) == Changed([g EXCEPT !.modem = FALSE], "LOCKWAIT", TRUE)

\* close: the device is hung up if it can be locked.
Closed(g, free) == [g EXCEPT !.life = "quit", !.modem = @ /\ (g.mine \/ ~free)]

\* open, after init has started faxgetty
Open ==
  /\ ~Alive /\ toGetty' = <<>>
  /\ IF Free THEN lock' = "faxgetty" /\ getty' = [Fresh EXCEPT !.mine = TRUE, !.at = "setup"]
             ELSE getty' = Changed(Fresh, "LOCKWAIT", TRUE) /\ UNCHANGED lock
  /\ UNCHANGED <<faxq, toFaxq, robbed, left>>

\* The end of setupModem: the lock is given back before the state changes.
SetupModem ==
  /\ Alive /\ getty.at = "setup" /\ lock' = None
  /\ LET g == [getty EXCEPT !.mine = FALSE, !.at = "dispatch"] IN
     \/ Become([g EXCEPT !.modem = TRUE], "RUNNING", TRUE) /\ UNCHANGED left
     \/ /\ Happens
        /\ \E open \in {getty.modem, TRUE} :
           LET h == Changed([g EXCEPT !.modem = open], "MODEMWAIT", TRUE) IN
           IF h.attempts >= MaxAttempts /\ h.life = "running"
           THEN getty' = Closed(h, TRUE) /\ Tell(<<"W", "D">>)   \* notifyModemWedged
           ELSE getty' = h /\ UNCHANGED toFaxq
  /\ UNCHANGED <<faxq, toGetty, robbed>>

TimerExpired ==
  /\ Dispatching /\ getty.timer
  /\ \/ getty.state = "RUNNING" /\ Free /\ lock' = None /\ UNCHANGED getty
     \/ getty.state = "RUNNING" /\ ~Free /\ getty' = Changed(getty, "LOCKWAIT", TRUE) /\ UNCHANGED lock
     \/ /\ getty.state \in {"MODEMWAIT", "LOCKWAIT"} /\ MayLock /\ lock' = "faxgetty"
        /\ getty' = [getty EXCEPT !.timer = FALSE, !.mine = TRUE, !.at = "setup"]
     \/ /\ getty.state \in {"MODEMWAIT", "LOCKWAIT"} /\ ~MayLock
        /\ getty' = Changed(getty, "LOCKWAIT", TRUE) /\ UNCHANGED lock
  /\ UNCHANGED <<faxq, toGetty, toFaxq, robbed, left>>

\* inputReady and listenBegin: the modem says something, and most likely RING.
ModemInput ==
  /\ Dispatching /\ getty.modem /\ Happens
  /\ \/ /\ getty.state = "LISTENING" /\ getty' = [getty EXCEPT !.ring = FALSE, !.at = "listen"]
        /\ UNCHANGED <<lock, toFaxq>>
     \/ /\ getty.state # "LISTENING" /\ MayLock /\ lock' = "faxgetty" /\ Tell(<<"B">>)
        /\ getty' = Changed([getty EXCEPT !.mine = TRUE, !.ring = FALSE, !.at = "listen"], "LISTENING", FALSE)
     \/ /\ getty.state # "LISTENING" /\ ~MayLock /\ getty' = LockWait(getty)
        /\ Tell(<<"U">>) /\ UNCHANGED lock
  /\ UNCHANGED <<faxq, toGetty, robbed>>

Answering(g) == Changed([g EXCEPT !.at = "call"], "ANSWERING", FALSE)

ListenForRing ==
  /\ Alive /\ getty.at = "listen"
  /\ getty' \in {Answering(getty), [getty EXCEPT !.ring = TRUE, !.at = "dispatch"],
                 [getty EXCEPT !.at = "hangup"]}
  /\ UNCHANGED <<lock, faxq, toGetty, toFaxq, robbed, left>>

RingsCease ==
  /\ Dispatching /\ getty.ring /\ getty' = [getty EXCEPT !.ring = FALSE, !.at = "hangup"]
  /\ UNCHANGED <<lock, faxq, toGetty, toFaxq, robbed, left>>

\* Mutant: the modem is set up although another has its lock.
RetakeAlways == TRUE
Retake == getty.mine \/ Free

\* answerCleanup
AnswerCleanup ==
  /\ Alive /\ getty.at = "hangup"
  /\ LET g == [getty EXCEPT !.modem = FALSE] IN
     IF Retake
     THEN /\ lock' = IF getty.mine \/ ~Free THEN lock ELSE "faxgetty"
          /\ getty' = [g EXCEPT !.mine = TRUE, !.at = "setup"] /\ UNCHANGED toFaxq
     ELSE Become([g EXCEPT !.at = "dispatch"], "MODEMWAIT", TRUE) /\ UNCHANGED lock
  /\ UNCHANGED <<faxq, toGetty, robbed, left>>

-----------------------------------------------------------------------------
(* A call that came in *)

InCall == Alive /\ getty.at = "call"

ReceiveFax ==
  /\ InCall /\ getty.modem /\ getty.state \in {"ANSWERING", "GETTYWAIT"}
  /\ getty' = Changed(getty, "RECEIVING", FALSE)
  /\ UNCHANGED <<lock, faxq, toGetty, toFaxq, robbed, left>>

\* A modem object that was deleted during the call may or may not end the process.
EndCall ==
  /\ InCall /\ (getty.modem \/ getty.state = "LOCKWAIT")
  /\ getty' = [getty EXCEPT !.at = "hangup"]
  /\ UNCHANGED <<lock, faxq, toGetty, toFaxq, robbed, left>>

\* The phone is answered without a modem object: the process dies.
NullModem ==
  /\ InCall /\ ~getty.modem /\ getty' = Gone /\ lock' = IF lock = "faxgetty" THEN "dead" ELSE lock
  /\ UNCHANGED <<faxq, toGetty, toFaxq, robbed, left>>

\* runGetty: the lock is dropped, or its file names the child.  One external
\* getty looks at a call, and another session may follow (bound).
RunGetty(kind, keep) ==
  /\ InCall /\ getty.modem
  /\ getty.state \in {"ANSWERING"} \cup (IF kind = "data" THEN {"GETTYWAIT"} ELSE {})
  /\ LET g == [getty EXCEPT !.mine = @ /\ keep] IN
     \/ /\ lock' = IF keep THEN "login" ELSE None
        /\ getty' = Changed([g EXCEPT !.modem = kind = "extern", !.at = "login"], "GETTYWAIT", FALSE)
        /\ UNCHANGED left
     \/ /\ Happens   \* fork fails
        /\ lock' = (IF keep THEN lock ELSE None) /\ getty' = [g EXCEPT !.at = "hangup"]
  /\ UNCHANGED <<faxq, toGetty, toFaxq, robbed>>

LoginLocks ==
  /\ Alive /\ getty.at = "login" /\ ~getty.mine /\ Free /\ lock' = "login"
  /\ UNCHANGED <<getty, faxq, toGetty, toFaxq, robbed, left>>

LoginEnds ==
  /\ Alive /\ getty.at = "login" /\ getty' = [getty EXCEPT !.at = "regain"]
  /\ lock' = IF lock # "login" THEN lock ELSE IF getty.mine THEN "dead" ELSE None
  /\ UNCHANGED <<faxq, toGetty, toFaxq, robbed, left>>

\* setOwner writes to the lock file of that name, and to no new one.
SetOwner ==
  /\ Alive /\ getty.at = "regain"
  /\ lock' = IF getty.mine /\ lock # None THEN "faxgetty" ELSE lock
  /\ \/ getty' = [getty EXCEPT !.at = "hangup"]
     \/ getty.modem /\ getty' = [getty EXCEPT !.at = "call"]
  /\ UNCHANGED <<faxq, toGetty, toFaxq, robbed, left>>

-----------------------------------------------------------------------------
(* Messages and signals to faxgetty *)

AnswerPhoneCmd ==
  \/ /\ getty.state = "LISTENING" /\ getty' = Answering([getty EXCEPT !.ring = FALSE])
     /\ UNCHANGED <<lock, toFaxq>>
  \/ /\ getty.state # "LISTENING" /\ MayLock /\ lock' = "faxgetty" /\ Tell(<<"B">>)
     /\ getty' = Answering([getty EXCEPT !.mine = TRUE])
  \/ /\ getty.state \notin {"LISTENING", "ANSWERING", "RECEIVING"} /\ ~MayLock
     /\ getty' = LockWait(getty) /\ Tell(<<"U">>) /\ UNCHANGED lock
  \/ /\ getty.state \in {"ANSWERING", "RECEIVING"} /\ ~MayLock /\ UNCHANGED <<lock, getty, toFaxq>>

Quit ==
  IF getty.life = "running"
  THEN /\ getty' = Closed(getty, Free) /\ Tell(<<"D">>)
       /\ lock' = IF MayLock THEN None ELSE lock
  ELSE UNCHANGED <<lock, getty, toFaxq>>

FIFOMessage ==
  /\ Dispatching \/ InCall
  /\ toGetty # <<>> /\ toGetty' = Tail(toGetty)
  /\ \/ Head(toGetty) = "A" /\ AnswerPhoneCmd
     \/ Head(toGetty) = "L" /\ getty' = LockWait(getty) /\ UNCHANGED <<lock, toFaxq>>
     \/ Head(toGetty) = "Q" /\ Quit
     \/ /\ Head(toGetty) = "H" /\ UNCHANGED <<lock, getty>>
        /\ Tell(IF getty.state = "RUNNING" THEN <<"R">> ELSE <<>>)
  /\ UNCHANGED <<faxq, robbed, left>>

\* main ends; ~UUCPLock gives the lock back.
Exit ==
  /\ getty.life = "quit" /\ getty.at = "dispatch" /\ getty' = Gone
  /\ lock' = IF getty.mine THEN None ELSE lock
  /\ UNCHANGED <<faxq, toGetty, toFaxq, robbed, left>>

Signal ==
  /\ "TERM" \in Commands /\ Alive /\ getty.at \notin {"login", "regain"} /\ Happens
  /\ getty' = Gone /\ Tell(IF getty.life = "running" THEN <<"D">> ELSE <<>>)
  /\ lock' = IF lock = "faxgetty" THEN "dead"
             ELSE IF getty.life = "running" /\ MayLock THEN None ELSE lock
  /\ UNCHANGED <<faxq, toGetty, robbed>>

Command(c) ==
  /\ Alive /\ Happens /\ toGetty' = Append(toGetty, c)
  /\ UNCHANGED <<lock, getty, faxq, toFaxq, robbed>>

Faxgetty ==
  \/ Open \/ SetupModem \/ TimerExpired \/ ListenForRing \/ RingsCease \/ AnswerCleanup
  \/ ReceiveFax \/ EndCall \/ NullModem \/ LoginEnds \/ SetOwner \/ FIFOMessage \/ Exit

Outside ==
  \/ ModemInput \/ LoginLocks \/ Signal
  \/ \E kind \in {"data", "extern"} :
       \E keep \in (IF kind = "extern" THEN KeepExtern ELSE KeepData) : RunGetty(kind, keep)
  \/ \E c \in Commands \ {"TERM"} : Command(c)

-----------------------------------------------------------------------------
(* faxq *)

ModemMessage ==
  /\ faxq.up /\ toFaxq # <<>> /\ toFaxq' = Tail(toFaxq)
  /\ faxq' = CASE Head(toFaxq) = "R" -> [faxq EXCEPT !.modem = "READY", !.polling = FALSE]
               [] Head(toFaxq) \in {"B", "U"} -> [faxq EXCEPT !.modem = "BUSY", !.polling = FALSE]
               [] Head(toFaxq) = "D" -> [faxq EXCEPT !.modem = "DOWN", !.polling = FALSE]
               [] OTHER -> faxq
  /\ UNCHANGED <<lock, getty, toGetty, robbed, left>>

AssignModem ==
  /\ faxq.up /\ faxq.job = "none" /\ faxq.modem = "READY" /\ Happens
  /\ \/ /\ Free /\ lock' = "faxq" /\ Robbed
        /\ faxq' = [faxq EXCEPT !.modem = "BUSY", !.job = "assigned"]
        /\ toGetty' = IF Alive THEN Append(toGetty, "L") ELSE toGetty
     \/ /\ ~Free /\ faxq' = [faxq EXCEPT !.modem = "BUSY", !.polling = TRUE]
        /\ UNCHANGED <<lock, toGetty, robbed>>
  /\ UNCHANGED <<getty, toFaxq>>

SendFax ==
  /\ faxq.job = "assigned" /\ faxq' = [faxq EXCEPT !.job = "call"]
  /\ UNCHANGED <<lock, getty, toGetty, toFaxq, robbed, left>>

\* Mutant: it is left to faxgetty to say that the modem is ready.
ReleasedBusy(q) == q
Released(q) == [q EXCEPT !.modem = IF @ = "BUSY" THEN "READY" ELSE @]
ReleaseModem ==
  /\ faxq.job # "none" /\ lock' = None /\ faxq' = Released([faxq EXCEPT !.job = "none"])
  /\ UNCHANGED <<getty, toGetty, toFaxq, robbed, left>>

PollForModemLock ==
  /\ faxq.up /\ faxq.polling /\ Free /\ lock' = None /\ Robbed
  /\ faxq' = Released([faxq EXCEPT !.polling = FALSE])
  /\ UNCHANGED <<getty, toGetty, toFaxq, left>>

StopFaxq ==
  /\ faxq.up /\ faxq.job = "none" /\ Happens /\ faxq' = [faxq EXCEPT !.up = FALSE]
  /\ toFaxq' \in {toFaxq, <<>>} /\ UNCHANGED <<lock, getty, toGetty, robbed>>
StartFaxq ==
  /\ ~faxq.up /\ faxq' = [faxq EXCEPT !.up = TRUE, !.modem = "DOWN", !.polling = FALSE]
  /\ toGetty' = IF Alive THEN Append(toGetty, "H") ELSE toGetty
  /\ UNCHANGED <<lock, getty, toFaxq, robbed, left>>

Queuer == ModemMessage \/ SendFax \/ ReleaseModem \/ PollForModemLock \/ StartFaxq

\* Another program that uses the device, and may die with the lock
OtherLocks ==
  /\ Free /\ Happens /\ lock' = "other" /\ Robbed /\ UNCHANGED <<getty, faxq, toGetty, toFaxq>>
OtherEnds ==
  /\ lock = "other" /\ lock' \in {None, "dead"} /\ UNCHANGED <<getty, faxq, toGetty, toFaxq, robbed, left>>

Next == Faxgetty \/ Outside \/ Queuer \/ AssignModem \/ StopFaxq \/ Age \/ OtherLocks \/ OtherEnds

\* Each process goes on, every session and call ends, and init starts faxgetty again.
Fairness ==
  /\ WF_vars(Open) /\ WF_vars(SetupModem) /\ WF_vars(TimerExpired) /\ WF_vars(ListenForRing)
  /\ WF_vars(RingsCease) /\ WF_vars(AnswerCleanup) /\ WF_vars(EndCall) /\ WF_vars(NullModem)
  /\ WF_vars(LoginEnds) /\ WF_vars(SetOwner) /\ WF_vars(FIFOMessage) /\ WF_vars(Exit)
  /\ WF_vars(ModemMessage) /\ WF_vars(ReleaseModem) /\ WF_vars(PollForModemLock) /\ WF_vars(StartFaxq)
  /\ WF_vars(Age) /\ WF_vars(OtherEnds)

Spec == Init /\ [][Next]_vars /\ Fairness

-----------------------------------------------------------------------------
(* Properties *)

\* faxgetty and faxsend never use the device at once: faxgetty sets it up,
\* listens and is in a call, and a call out is made, only under the lock that
\* names them, unless a lock was purged in the moment runGetty speaks of.
Using == Alive /\ getty.at \in {"setup", "listen", "call"}
OneUser == ~robbed => (Using => lock = "faxgetty") /\ (faxq.job = "call" => lock = "faxq")

\* However calls, logins, crashes, commands and restarts interleave, when they
\* cease faxgetty is ready again, faxq knows, and the lock is given back.
ModemComesBack ==
  <>[](getty.life = "running" /\ getty.state = "RUNNING" /\ faxq.modem = "READY" /\ lock = None)
=============================================================================
