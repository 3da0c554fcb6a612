------------------------------ MODULE FaxCall ------------------------------
(***************************************************************************)
(* A call between two HylaFAX stations: Class1Send and Class1Recv joined   *)
(* by the line, and who may give up waiting when.                          *)
(***************************************************************************)
EXTENDS Class1Send, Class1Recv

vars == <<line, faults, missed, tx, rx, saved>>

Init ==
  /\ faults = 0 /\ missed = 0
  /\ \E ec \in BOOLEAN, conf \in Configs : TxInit(ec, conf) /\ RxInit(conf)
  /\ line = ToSender("DIS")

\* A signal is heard, with whatever noise does to it.
ReceiverHears ==
  \E hs, ok \in BOOLEAN : \E got \in SUBSET line.image :
    /\ Heard("receiver", hs, got, ok)
    /\ ReceiverActs(hs, got, ok)
    /\ missed' = IF ok \/ (hs /\ rx.pc = "page") THEN 0
                 ELSE IF missed + (IF line.hs THEN 2 ELSE 1) > 3 THEN 3
                 ELSE missed + (IF line.hs THEN 2 ELSE 1)
    /\ UNCHANGED tx

SenderTurn == SenderHears /\ UNCHANGED recvVars

\* An answer is spoiled.
AnswerSpoiled ==
  /\ Heard("sender", FALSE, {}, FALSE)
  /\ \/ SenderMisses
     \/ tx.pc \in {"dis", "done"} /\ UNCHANGED tx /\ HangUp
  /\ UNCHANGED <<missed, rx, saved>>

\* T4 of the sender is shorter than any wait of the receiver, but the pause
\* before recvEOMBegin lasts one T4 and a bit.
SenderTimeout ==
  /\ Quiet /\ SenderMisses /\ (rx.pc = "eom" => missed < 1)
  /\ UNCHANGED <<faults, missed, rx, saved>>

SenderT1 ==
  /\ Quiet /\ rx.pc \notin {"eom", "ident"} /\ SenderGivesUp
  /\ UNCHANGED <<faults, missed, rx, saved>>

SenderAborts == Abort /\ UNCHANGED recvVars

SenderSilent == tx.pc \in {"dis", "done"}

NextDIS ==
  /\ Quiet /\ NextDocument
  /\ UNCHANGED <<faults, missed, tx>>

\* T2 of the receiver runs out when something the sender sent was not heard,
\* or when the sender does not speak any more.
ReceiverT2 ==
  /\ Quiet /\ (missed >= 1 \/ SenderSilent)
  /\ IdentTimeout \/ FlowTimeout \/ AnswerTimeout
  /\ UNCHANGED <<faults, missed, tx>>

ReceiverLong ==
  /\ Quiet /\ SenderSilent
  /\ PageTimeout \/ EndTimeout
  /\ UNCHANGED <<faults, missed, tx>>

Ended == tx.pc = "done" /\ rx.pc = "done" /\ Quiet /\ UNCHANGED vars

Next ==
  \/ ReceiverHears \/ SenderTurn \/ AnswerSpoiled
  \/ SenderTimeout \/ SenderT1 \/ SenderAborts
  \/ NextDIS \/ ReceiverT2 \/ ReceiverLong \/ Ended

\* Timers run out and signals arrive; nobody has to give up the call.
Spec ==
  /\ Init /\ [][Next]_vars
  /\ WF_vars(ReceiverHears) /\ WF_vars(SenderTurn \/ SenderTimeout \/ SenderT1)
  /\ WF_vars(NextDIS \/ ReceiverT2 \/ ReceiverLong)
-----------------------------------------------------------------------------
TypeOK == LineTypeOK /\ TxTypeOK /\ RxTypeOK

\* Pages that are in a document in full.  The comment in recvPageECMData
\* allows for the last frame of a page to be missing, but not with JBIG.
LastFrame(p) == IF Format = "JBIG" THEN {} ELSE {<<p, BlockCount, FrameCount>>}
Whole ==
  {p \in Pages : \E i \in 1..Len(saved) : PageUnits(p) \ LastFrame(p) \subseteq saved[i].units}

\* To whoever uses it, the call is a transfer of pages: what counts as sent is
\* in the receiver's documents, unless the sender has been told of errors in
\* it and gone on.
Transfer ==
  INSTANCE PageTransfer WITH
    Count <- Len(Doc), counted <- tx.counted, waived <- tx.waived,
    kept <- Whole, result <- tx.status
TransferSpec == Transfer!Spec

\* The documents hold the pages in the order they were sent, a page sent
\* again next to its first copy, and no image has lines of two pages.
PageOf(i) == CHOOSE p \in Pages : \E u \in saved[i].units : u[1] = p
SavedInOrder ==
  /\ \A i \in 1..Len(saved) : \A u \in saved[i].units : u[1] = PageOf(i)
  /\ \A i \in 2..Len(saved) : PageOf(i - 1) <= PageOf(i)

\* A page the sender has counted, and not given up, is not saved once more.
NoSecondCopy ==
  [][saved' # saved => PageOf(Len(saved))' \notin 1..tx.counted \ tx.waived]_vars

\* Both stations come to the end of the call.
CallEnds == <>(tx.pc = "done" /\ rx.pc = "done")

\* The blocks of a page before its last are in the document in full when the
\* page counts.
NullBlocksWhole ==
  \A p \in 1..tx.counted \ tx.waived :
    \E i \in 1..Len(saved) :
      \A b \in 1..BlockCount - 1 : BlockUnits(p, b) \subseteq saved[i].units
=============================================================================
