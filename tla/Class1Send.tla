----------------------------- MODULE Class1Send -----------------------------
(***************************************************************************)
(* The sending station of a Class 1 call (faxd/Class1Send.c++): phase B    *)
(* with its training, phase C, and phase D with and without error          *)
(* correction, as sendPhaseB runs them page by page for the jobs of one    *)
(* call.  Each action takes one answer off the line, or the lack of one,   *)
(* and ends with the next signal sent.                                     *)
(***************************************************************************)
EXTENDS T30Line

CONSTANTS
  FlowLimit,  \* bound: RNR answers that fit into T1
  MayAbort    \* bound: the user may abort the call

ASSUME SendConstants ==
  /\ MayAbort \in BOOLEAN /\ FlowLimit \in Nat

VARIABLE tx   \* the sender: where it is, and its counters

Commands == {"ppm", "pps", "rr", "ctc", "eor"}   \* sent up to three times
TxStates == Commands \cup {"dis", "train", "done"}
Statuses == {"none", "ok", "retry", "failed", "v17fail", "batchfail"}

TxInit(ec, conf) ==
  tx = [pc |-> "dis", rtn |-> conf.rtn, persistent |-> conf.persistent, counted |-> 0, waived |-> {}, block |-> 1, toSend |-> {},
        ec |-> ec, rate |-> MaxRate, t |-> 2, attempt |-> 1, dis |-> 3,
        used |-> 0, crps |-> 0, ntrys |-> 0, pprs |-> 0, retrained |-> 0,
        eor |-> FALSE, flow |-> 0, repeatB |-> FALSE, train |-> TRUE,
        v17 |-> FALSE, first |-> TRUE, abort |-> FALSE, status |-> "none"]

Page(t) == t.counted + 1
\* decodePPM: EOM for a change of format or for the next job of the batch.
Cmd(t) == IF Doc[Page(t)] = "next" THEN "EOM" ELSE Doc[Page(t)]

\* sendPhaseB leaves out the end of a page that comes before a change of
\* format (repeatPhaseB is set when sendPage asks for it): its last block.
LastBlock(t) == IF Doc[Page(t)] = "EOM" THEN BlockCount - 1 ELSE BlockCount
-----------------------------------------------------------------------------
\* sendEnd: the sender hangs up with DCN and the status of its job.
End(t, status) ==
  /\ tx' = [t EXCEPT !.pc = "done", !.status = status]
  /\ Say(ToReceiver("DCN"))

Failed(t) == End(t, "retry")
\* batchingError: no answer to EOM on the first job.
NoAnswer(t) == End(t, IF Cmd(t) = "EOM" /\ t.first THEN "batchfail" ELSE "retry")
Untrained(t) == End(t, IF t.v17 THEN "v17fail"
                       ELSE IF t.first THEN "retry" ELSE "batchfail")

DCS(t) == [ToReceiver("DCS") EXCEPT !.hs = TRUE, !.rate = t.rate, !.ec = t.ec]

PPS(t) ==
  [ToReceiver("PPS") EXCEPT
     !.post = IF t.block = BlockCount THEN Cmd(t) ELSE "NULL",
     !.page = t.counted % PageWrap, !.block = t.block - 1,
     !.count = IF t.toSend = {} THEN 0 ELSE Cardinality(t.toSend) - 1]

\* What a command that got no answer is repeated with.
Command(t) ==
  CASE t.pc = "ppm" -> ToReceiver(Cmd(t))
    [] t.pc = "pps" -> PPS(t)
    [] t.pc = "rr"  -> ToReceiver("RR")
    [] t.pc = "ctc" -> [ToReceiver("CTC") EXCEPT !.rate = t.rate]
    [] t.pc = "eor" -> [ToReceiver("EOR") EXCEPT !.post = PPS(t).post]

Start(t, pc) == [t EXCEPT !.pc = pc, !.used = 0, !.crps = 0]
SendCommand(t, pc) == tx' = Start(t, pc) /\ Say(Command(Start(t, pc)))

\* blockFrame: the frames asked for, three RCP frames, then PPS.
SendFrames(t) ==
  /\ tx' = Start(t, "pps")
  /\ Say([PPS(t) EXCEPT !.hs = TRUE,
                        !.image = {Page(t)} \X {t.block} \X t.toSend])

NewBlock(t, b) ==
  [t EXCEPT !.block = b, !.toSend = 1..FrameCount, !.pprs = 0, !.retrained = 0]

\* sendPage, and the post-page message unless error correction sent it.
SendPage(t) ==
  IF t.ec
  THEN IF LastBlock(t) > 0 THEN SendFrames(NewBlock(t, 1))
       ELSE SendCommand(NewBlock(t, 1), "ppm")
  ELSE IF Doc[Page(t)] = "EOM" THEN Failed(t)     \* the modem never says OK
  ELSE /\ tx' = Start(t, "ppm")
       /\ Say([ToReceiver(Cmd(t)) EXCEPT !.hs = TRUE, !.image = PageUnits(Page(t))])

\* sendTraining: DCS and TCF at the current rate, each rate twice.
SendTraining(t, tries) ==
  IF tries = 0 THEN Untrained(t)
  ELSE tx' = [t EXCEPT !.pc = "train", !.t = 2, !.attempt = 1, !.dis = tries]
       /\ Say(DCS(t))

\* Before sendPage: whether phase B is to be repeated after this page.
Trained(t) == [t EXCEPT !.train = FALSE, !.repeatB = (Doc[Page(t)] = "EOM")]

\* Head of sendPhaseB's loop over the pages.
NextPage(t0) ==
  LET t == [t0 EXCEPT !.v17 = FALSE] IN
  IF t.abort THEN End(t, "failed")
  ELSE IF t.repeatB
  THEN tx' = [t EXCEPT !.pc = "dis", !.first = FALSE] /\ HangUp
  ELSE IF t.train THEN SendTraining(t, 3)
  ELSE SendPage(Trained(t))

\* RTN and FTT end the tries at a rate; other failures use up one of them.
TrainAgain(t, cost) ==
  LET drop == t.rate > 0
      again == IF t.t > cost THEN [t EXCEPT !.t = @ - cost]
               ELSE [t EXCEPT !.t = 2, !.attempt = @ + 1,
                              !.rate = IF drop THEN @ - 1 ELSE @]
  IN IF t.abort \/ (t.t <= cost /\ ~drop /\ t.attempt >= 3)
     THEN Untrained(t)
     ELSE tx' = again /\ Say(DCS(again))
-----------------------------------------------------------------------------
\* countPage and notifyPageSent, then the next page, the next job or the end.
Counted(t, retrain, waive) ==
  LET u == [t EXCEPT !.counted = @ + 1, !.ntrys = 0,
                     !.train = @ \/ retrain,
                     !.waived = IF waive THEN @ \cup {Page(t)} ELSE @]
  IN CASE Doc[Page(t)] = "EOP" ->
            End(u, IF t.v17 THEN "v17fail" ELSE "ok")
       [] Doc[Page(t)] = "next" ->
            /\ tx' = IF u.abort THEN [u EXCEPT !.pc = "done", !.status = "retry"]
                     ELSE [u EXCEPT !.pc = "dis", !.first = FALSE, !.repeatB = FALSE]
            /\ HangUp
       [] OTHER -> NextPage(u)

\* The page is sent once more, at most twice.
Resend(t) ==
  IF t.ntrys + 1 > 2 THEN Failed(t) ELSE NextPage([t EXCEPT !.ntrys = @ + 1])

Ignored(t) ==
  \/ t.rtn = "IGNORE"
  \/ t.rtn = "RETRANSMIT-IGNORE" /\ t.ntrys >= 2

\* RTN: the configured handling; a page that is given up counts as sent.
Rejected(t) ==
  CASE t.rtn = "GIVEUP" -> End(t, "failed")
    [] Ignored(t) -> Counted(t, TRUE, TRUE)
    [] t.rate = 0 /\ ~Ignored(t) -> Failed(t)
    [] OTHER -> Resend([t EXCEPT !.train = TRUE, !.rate = @ - 1])

Repeated(t, crp) ==
  [t EXCEPT !.used = IF ~crp THEN @ + 1 ELSE IF t.pc = "ppm" THEN 0 ELSE 1,
            !.crps = IF crp THEN @ + 1 ELSE @]

\* No answer to a command (or CRP): again, three times at most.  Only sendPPM
\* looks whether the user has given up.
SendAgain(t, crp) ==
  LET u == Repeated(t, crp) IN
  IF u.used >= 3 \/ u.crps >= 3 \/ (t.pc = "ppm" /\ ~crp /\ t.abort)
  THEN IF t.pc \in {"rr", "ctc"} \/ (crp /\ t.pc = "ppm") THEN Failed(t) ELSE NoAnswer(t)
  ELSE tx' = u /\ Say(Command(u))

\* Phase D: the answer to a page.
PageAnswer(t, fcf) ==
  CASE fcf = "MCF" -> Counted(t, FALSE, FALSE)
    [] fcf = "RTN" -> Rejected(t)
    [] fcf = "CFR" -> Resend(t)
    [] fcf \in {"FTT", "DIS"} -> Resend([t EXCEPT !.train = TRUE])
    [] fcf = "CRP" -> SendAgain(t, TRUE)
    [] OTHER -> Failed(t)
-----------------------------------------------------------------------------
\* The block is over; the answer to the last one is the answer to the page.
\* Answers of phase B to another block lead back there, but RTN does not.
BlockAnswer(t, fcf) ==
  IF t.block = LastBlock(t) THEN PageAnswer(t, fcf)
  ELSE IF fcf \in {"DIS", "FTT"} THEN PageAnswer([t EXCEPT !.repeatB = TRUE], fcf)
  ELSE SendFrames(NewBlock(t, t.block + 1))

\* After the fourth PPR: go on at the same rate or a lower one (CTC), or leave
\* the frames that are bad (EOR), which a sender that goes on never does.
GiveUpBlock(t, bad) ==
  LET all == Cardinality(bad) >= Cardinality(t.toSend)
      v17 == t.v17 \/ (t.rate = MaxRate /\ bad = 1..FrameCount
                       /\ t.retrained > 0 /\ t.counted = 0)
      slower == t.retrained > 0 /\ t.rate > 0 /\ all
      u == [t EXCEPT !.toSend = bad, !.pprs = 0, !.v17 = v17]
  IN IF t.persistent /\ bad # {} /\ ~(t.rate = 0 /\ all /\ t.retrained > 0)
     THEN SendCommand([u EXCEPT !.retrained = IF slower THEN 0 ELSE @ + 1,
                                !.rate = IF slower THEN @ - 1 ELSE @], "ctc")
     ELSE IF bad # {} /\ (Format # "MR" \/ 2 * Cardinality(bad) > FrameCount)
     THEN Failed(u)
     ELSE SendCommand([u EXCEPT !.eor = TRUE], "eor")

\* Frames to send again; CFR asks for all of them.
FramesBad(t, s) ==
  LET bad == IF s.fcf = "CFR" THEN 1..FrameCount
             ELSE IF s.fcf = "CTR" THEN t.toSend ELSE s.bad
      pprs == IF s.fcf = "PPR" THEN t.pprs + 1 ELSE 0
  IN IF pprs = 4 THEN GiveUpBlock(t, bad)
     ELSE SendFrames([t EXCEPT !.toSend = bad, !.pprs = pprs])

\* RNR: the receiver wants to be asked again; at most for T1.
FlowControl(t) ==
  IF t.flow >= FlowLimit THEN NoAnswer(t)
  ELSE SendCommand([t EXCEPT !.flow = @ + 1], "rr")
-----------------------------------------------------------------------------
\* getPrologue: anything but DIS and DCN is ignored, until T1 is over.
HearDIS ==
  /\ tx.pc = "dis"
  /\ CASE line.fcf = "DIS" -> NextPage([tx EXCEPT !.train = TRUE, !.repeatB = FALSE])
       [] line.fcf = "DCN" -> Failed(tx)
       [] OTHER -> UNCHANGED tx /\ HangUp

\* sendTraining: the answer to DCS and TCF.
HearTrained ==
  /\ tx.pc = "train"
  /\ CASE line.fcf = "CFR" -> SendPage(Trained(tx))
       [] line.fcf \in {"FTT", "RTN"} -> TrainAgain(tx, 2)
       [] line.fcf = "CRP" -> TrainAgain(tx, 1)
       [] line.fcf = "DIS" -> SendTraining(tx, tx.dis - 1)
       [] line.fcf = "DCN" -> Untrained([tx EXCEPT
            !.v17 = @ \/ (tx.rate = MaxRate /\ tx.attempt = 1 /\ tx.dis = 3)])
       [] OTHER -> Untrained(tx)

\* sendPPM: the answer to a post-page message.
HearPPM == tx.pc = "ppm" /\ PageAnswer(tx, line.fcf)

\* blockFrame: the answer to PPS, or to RR after it.
HearPPS ==
  /\ tx.pc = "pps" \/ (tx.pc = "rr" /\ ~tx.eor)
  /\ CASE line.fcf \in {"MCF", "DIS", "RTN"} -> BlockAnswer(tx, line.fcf)
       [] line.fcf = "PPR" -> FramesBad(tx, line)
       [] line.fcf = "RNR" -> FlowControl(tx)
       [] line.fcf = "CRP" -> SendAgain(tx, TRUE)
       [] line.fcf = "FTT" /\ tx.pc = "pps" -> BlockAnswer(tx, "FTT")
       [] line.fcf \in {"CFR", "CTR"} /\ tx.pc = "pps" -> FramesBad(tx, line)
       [] OTHER -> Failed(tx)

\* CTC: PPR is taken for the lack of an answer.
HearCTC ==
  /\ tx.pc = "ctc"
  /\ CASE line.fcf = "CTR" -> SendFrames(tx)
       [] line.fcf \in {"CRP", "PPR"} -> SendAgain(tx, line.fcf = "CRP")
       [] line.fcf \in {"DIS", "FTT", "RTN"} -> BlockAnswer(tx, line.fcf)
       [] OTHER -> Failed(tx)

\* EOR, or RR after it: ERR confirms the block without the bad frames.
HearEOR ==
  /\ tx.pc = "eor" \/ (tx.pc = "rr" /\ tx.eor)
  /\ CASE line.fcf = "ERR" ->
            BlockAnswer([tx EXCEPT !.eor = FALSE, !.waived = @ \cup {Page(tx)}], "MCF")
       [] line.fcf = "RNR" -> FlowControl(tx)
       [] line.fcf = "CRP" -> SendAgain(tx, TRUE)
       [] line.fcf \in {"DIS", "FTT", "RTN"} /\ tx.pc = "eor" ->
            BlockAnswer([tx EXCEPT !.eor = FALSE], line.fcf)
       [] OTHER -> Failed(tx)

\* The receiver has hung up, or the sender has.
HearNothing == tx.pc = "done" /\ UNCHANGED tx /\ HangUp

SenderHears ==
  /\ Heard("sender", FALSE, {}, TRUE)
  /\ HearDIS \/ HearTrained \/ HearPPM \/ HearPPS \/ HearCTC \/ HearEOR \/ HearNothing
  /\ missed' = 0

\* recvFrame: T4 runs out, or the frame is spoiled.
SenderMisses ==
  \/ tx.pc = "train" /\ TrainAgain(tx, 1)
  \/ tx.pc \in Commands /\ SendAgain(tx, FALSE)

\* getPrologue: T1 runs out.
SenderGivesUp == tx.pc = "dis" /\ Failed(tx)

\* abortRequested
Abort ==
  /\ MayAbort /\ tx.pc # "done" /\ ~tx.abort
  /\ tx' = [tx EXCEPT !.abort = TRUE]
  /\ UNCHANGED lineVars

TxTypeOK ==
  /\ tx.pc \in TxStates /\ tx.status \in Statuses
  /\ tx.counted \in 0..Len(Doc) /\ tx.waived \subseteq Pages
  /\ tx.block \in 1..BlockCount /\ tx.toSend \subseteq 1..FrameCount
  /\ tx.rate \in 0..MaxRate /\ tx.used \in 0..2 /\ tx.crps \in 0..2
  /\ tx.ntrys \in 0..2 /\ tx.pprs \in 0..3
=============================================================================
