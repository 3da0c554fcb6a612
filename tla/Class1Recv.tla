----------------------------- MODULE Class1Recv -----------------------------
(***************************************************************************)
(* The receiving station of a Class 1 call (faxd/Class1Recv.c++), as       *)
(* FaxServer::recvFax runs it (faxd/FaxRecv.c++): identification and       *)
(* training, pages with and without error correction, the post-page        *)
(* answers, and the end of the call.  Each action takes one signal off the *)
(* line, or the lack of one, and ends with the answer.                     *)
(***************************************************************************)
EXTENDS T30Line

CONSTANTS
  Idents,  \* bound: how often DIS is sent before T1 is over
  MaxSlow  \* bound: how often a save takes longer than the sender waits

ASSUME RecvConstants ==
  /\ Idents \in Nat \ {0} /\ MaxSlow \in Nat

VARIABLES
  rx,     \* the receiver: where it is, and its counters
  saved   \* the pages written to the documents of the call

recvVars == <<rx, saved>>

RxStates == {"eom", "ident", "page", "ppm", "pps", "ctc", "rr", "end", "done"}
PPMs == {"MPS", "EOM", "EOP"}

\* Before the data of a page: recvPage's resetLineCounts, and the start of
\* recvPageECMData.
NoBlock == [have |-> {}, fcount |-> 0, pprs |-> 0, seen |-> TRUE, sendERR |-> FALSE]
\* Mutants: the buffer of the block, or of the page, keeps what is in it.
NoPageBlock(r) == [r EXCEPT !.block = 0, !.image = {}, !.post = "NULL", !.good = FALSE]
NoPageImage(r) == [r EXCEPT !.block = 0, !.data = NoBlock, !.post = "NULL", !.good = FALSE]
NoPage(r) == [r EXCEPT !.block = 0, !.data = NoBlock, !.image = {}, !.post = "NULL",
                       !.good = FALSE]

RxInit(conf) ==
  /\ rx = [pc |-> "ident", bad |-> conf.bad, missing |-> conf.missing, sent |-> "DIS", page |-> 0, block |-> 0, data |-> NoBlock,
           image |-> {}, post |-> "NULL", good |-> FALSE, ec |-> FALSE, ppm |-> "NULL",
           tries |-> 0, slow |-> 0, emsg |-> FALSE, docs |-> 1]
  /\ saved = <<>>

\* transmitFrame: the answer, kept in signalSent in case it is asked for again.
Answer(r, pc, s) == rx' = [r EXCEPT !.pc = pc, !.sent = s.fcf] /\ Say(s)
Stay == UNCHANGED recvVars /\ HangUp

\* recvAbort: DCN, unless the sender has disconnected.
Reject(r) == Answer(r, "done", ToSender("DCN"))
Over(r) == rx' = [r EXCEPT !.pc = "done"] /\ HangUp
Save(units, sure) == saved' = Append(saved, [units |-> units, sure |-> sure])
-----------------------------------------------------------------------------
\* A page that ends early is saved as far as it came (abortPageECMRecv,
\* saveUnconfirmedPages), and never confirmed.
Keep(r) ==
  LET units == IF r.ec THEN r.image \cup r.data.have ELSE r.image IN
  IF units # {} /\ r.pc \notin {"end", "eom"} THEN Save(units, FALSE) ELSE UNCHANGED saved

Abandon(r) == Keep(r) /\ Reject(r)
Disconnected(r) == Keep(r) /\ Over(r)
Invalid(r) == IF r.ec THEN Abandon(r) ELSE Reject(r) /\ UNCHANGED saved

PPR(r) ==
  [ToSender("PPR") EXCEPT !.bad = (1..FrameCount) \ {u[3] : u \in r.data.have}]

\* Mutant: the block to come is taken for a repeated one.
ConfirmedEarly(r, s) ==
  LET page == (r.page \div PageWrap) * PageWrap + s.page IN
  ~(page > r.page \/ (page = r.page /\ s.block > r.block))

\* A block already confirmed: its page and number are behind ours.  The number
\* of the page is the last byte of a count that goes on from ours.
Confirmed(r, s) ==
  LET page == (r.page \div PageWrap) * PageWrap + s.page IN
  ~(page > r.page \/ (page = r.page /\ s.block >= r.block))

\* recvTraining and the start of the page, or FTT.
Train(r) ==
  /\ UNCHANGED saved
  /\ IF line.hs THEN Answer([NoPage(r) EXCEPT !.ec = line.ec], "page", ToSender("CFR"))
     ELSE Answer(r, r.pc, ToSender("FTT"))

\* After the page is on disk: ERR or MCF, or RTN for a bad page that is saved;
\* no answer when flow control has failed.  Then the next page, the next
\* document (recvEOMBegin) or the end of the call (recvEnd).
ConfirmPage(r) ==
  LET yes == ToSender(IF r.data.sendERR THEN "ERR" ELSE "MCF")
      next == NoPage([r EXCEPT !.page = IF r.ec THEN @ + 1 ELSE @])
  IN CASE r.emsg -> Reject(r)
       [] ~r.emsg /\ ~r.good ->
            Answer([next EXCEPT !.tries = 0], "ident", ToSender("RTN"))
       [] ~r.emsg /\ r.good /\ r.post = "MPS" -> Answer(next, "page", yes)
       [] ~r.emsg /\ r.good /\ r.post = "EOM" ->
            Answer([next EXCEPT !.page = 0, !.tries = 0, !.docs = @ + 1], "eom", yes)
       [] OTHER -> Answer(next, "end", yes)

SavePage(r) == Save(r.image, r.good) /\ ConfirmPage(r)

\* writeECMData: the block is added to the page.
SaveBlock(r) ==
  LET s == [r EXCEPT !.image = @ \cup r.data.have] IN
  IF r.post # "NULL"
  THEN IF s.image = {} THEN Reject(s) /\ UNCHANGED saved
       ELSE SavePage([s EXCEPT !.good = TRUE])
  ELSE /\ Answer([s EXCEPT !.block = @ + 1, !.data = NoBlock], "page",
                 ToSender(IF r.data.sendERR THEN "ERR" ELSE "MCF"))
       /\ UNCHANGED saved

Stored(r) == IF r.ec THEN SaveBlock(r) ELSE SavePage(r)

\* The data is written by a thread; while that takes long the sender is held
\* off with RNR, without error correction with CRP.
Store(r) ==
  \/ Stored(r)
  \/ /\ r.slow < MaxSlow
     /\ Answer([r EXCEPT !.slow = @ + 1, !.tries = 0], "rr",
               ToSender(IF r.ec THEN "RNR" ELSE "CRP"))
     /\ UNCHANGED saved
-----------------------------------------------------------------------------
\* A post-page message and no page: MCF again if the last one was sent just
\* now, else the configured handling.
MissedThePage(r, again) ==
  /\ UNCHANGED saved
  /\ IF again THEN Answer(r, IF r.ppm = "MPS" THEN "page" ELSE "ppm", ToSender("MCF"))
     ELSE CASE r.missing = "CFR" -> Answer(NoPage(r), "page", ToSender("CFR"))
            [] r.missing = "DCN" -> Reject(r)
            [] OTHER -> Answer(r, "ppm", ToSender("RTN"))

\* recvPage on a post-page message; carrier: the page's carrier was heard just
\* before.  9 seconds after MCF is one repetition of the message or two, and a
\* page whose carrier was not heard may take less than that or more.
PostPage(r0, post, carrier) ==
  LET r == [r0 EXCEPT !.ppm = post, !.post = post, !.ec = @ /\ r0.image # {}] IN
  IF r.image # {} /\ (r.good \/ r.bad = "RTNSAVE")
  THEN Store([r EXCEPT !.post = IF r.good THEN @ ELSE "MPS"])
  ELSE IF r.image = {} /\ ~carrier
  THEN \E again \in BOOLEAN :
         /\ again => r.sent = "MCF" /\ r0.ppm = post /\ missed <= 1
         /\ (r.sent = "MCF" /\ r0.ppm = post /\ missed = 0 /\ ~line.hs) => again
         /\ MissedThePage(r, again)
  ELSE /\ UNCHANGED saved
       /\ IF r.image = {} \/ r.bad = "DCN" THEN Reject(r)
          ELSE Answer(r, "ppm", ToSender("RTN"))

\* recvPage's frames of phase D, when no page data precedes them.
PhaseD(r) ==
  CASE line.fcf \in PPMs -> PostPage(r, line.fcf, FALSE)
    [] line.fcf = "DCS" -> Train(r)
    [] line.fcf = "RR" -> Answer(r, "page", ToSender(r.sent)) /\ UNCHANGED saved
    [] line.fcf = "DCN" -> Disconnected(r)
    [] OTHER -> Invalid(r)
-----------------------------------------------------------------------------
\* recvIdentification: DCS and training, or DIS (RTN) again.
RecvIdent ==
  /\ rx.pc = "ident"
  /\ CASE line.fcf = "DCS" -> Train(rx)
       [] line.fcf = "DCN" -> Over(rx) /\ UNCHANGED saved
       [] line.fcf \in PPMs /\ rx.sent = "RTN" ->
            Answer(rx, "ident", ToSender("RTN")) /\ UNCHANGED saved
       [] OTHER -> Answer(rx, "ident", ToSender("DIS")) /\ UNCHANGED saved

\* recvPage without error correction: the page, then its message.
RecvPage(hs, got, ok) ==
  /\ rx.pc = "page" /\ ~rx.ec
  /\ LET r == [rx EXCEPT !.image = got, !.good = (got = line.image), !.page = @ + 1] IN
     IF line.fcf = "DCS" \/ ~hs
     THEN IF ok THEN PhaseD(rx) ELSE Stay
     ELSE IF ~ok
     THEN rx' = [r EXCEPT !.pc = "ppm"] /\ HangUp /\ UNCHANGED saved
     ELSE IF line.fcf \in PPMs THEN PostPage(r, line.fcf, TRUE) ELSE Invalid(r)

RecvPPM(ok) == rx.pc = "ppm" /\ IF ok THEN PhaseD(rx) ELSE Stay

\* recvPageECMData: PPS says how many frames there were (its count of 0 stands
\* for none when no data was seen).  The last frame of a block is not missed
\* when no data came, unless the format is JBIG.
JudgePPS(r, seen) ==
  LET n == IF line.count = 0 /\ (~seen \/ (line.post = "NULL" /\ r.data.pprs = 0))
           THEN 0 ELSE line.count + 1
      fcount == IF r.data.fcount < n THEN n ELSE r.data.fcount
      needed == IF fcount < 2 \/ n # 0 \/ Format = "JBIG" THEN fcount ELSE fcount - 1
      missing == (1..needed) \ {u[3] : u \in r.data.have}
      s == [r EXCEPT !.data.fcount = fcount,
                     !.post = IF line.post = "NULL" THEN @ ELSE line.post]
      whole == fcount > 0 /\ missing = {}
  IN CASE whole /\ ~Confirmed(r, line) -> Store(s)
       [] Confirmed(r, line) ->
            /\ Answer([s EXCEPT !.data = [NoBlock EXCEPT !.pprs = r.data.pprs]],
                      "page", ToSender("MCF"))
            /\ UNCHANGED saved
       [] r.data.pprs = 3 /\ ~whole /\ ~Confirmed(r, line) ->
            /\ Answer([s EXCEPT !.data.pprs = 0, !.tries = 0], "ctc", PPR(s))
            /\ UNCHANGED saved
       [] OTHER ->
            /\ Answer([s EXCEPT !.data.pprs = @ + 1], "page", PPR(s))
            /\ UNCHANGED saved

Continue(r) ==
  Answer([r EXCEPT !.data.pprs = 0], "page", ToSender("CTR")) /\ UNCHANGED saved
EndOfBlock(r) ==
  Store([r EXCEPT !.data.sendERR = TRUE,
                  !.post = IF line.post = "NULL" THEN @ ELSE line.post])

\* A frame where the data of a block was expected: the answer was not heard.
RTNC(r) ==
  CASE line.fcf = "PPS" ->
         /\ Answer(r, "page", IF Confirmed(r, line) THEN ToSender("MCF") ELSE PPR(r))
         /\ UNCHANGED saved
    [] line.fcf = "EOR" /\ r.data.fcount > 0 -> EndOfBlock(r)
    [] line.fcf = "EOR" /\ r.data.fcount = 0 ->
         Answer(r, "page", ToSender("ERR")) /\ UNCHANGED saved
    [] line.fcf = "CTC" -> Continue(r)
    [] line.fcf = "RR" -> Answer(r, "page", ToSender(r.sent)) /\ UNCHANGED saved
    [] line.fcf = "DCN" -> Disconnected(r)
    [] OTHER -> IF r.image \cup r.data.have = {} THEN PhaseD([r EXCEPT !.good = TRUE])
                ELSE Abandon(r)

RecvBlock(hs, got, ok) ==
  /\ rx.pc = "page" /\ rx.ec
  /\ LET most == CHOOSE n \in {0} \cup {u[3] : u \in got} : \A u \in got : u[3] <= n
         r == [rx EXCEPT !.data.have = @ \cup got,
                         !.data.fcount = IF @ < most THEN most ELSE @]
     IN IF line.fcf # "PPS" \/ ~hs
        THEN IF ok THEN RTNC(rx) ELSE Stay
        ELSE \E seen \in BOOLEAN :
               /\ got # {} => seen
               /\ line.image = {} => ~seen
               /\ IF ok THEN JudgePPS(r, seen)
                  ELSE rx' = [r EXCEPT !.pc = "pps", !.data.seen = seen]
                       /\ HangUp /\ UNCHANGED saved

RecvPPS(ok) ==
  /\ rx.pc = "pps"
  /\ IF ~ok THEN Stay
     ELSE CASE line.fcf = "PPS" -> JudgePPS(rx, rx.data.seen)
            [] line.fcf = "DCN" -> Disconnected(rx)
            [] OTHER -> Abandon(rx)

\* After the fourth PPR.
RecvCTC ==
  /\ rx.pc = "ctc"
  /\ CASE line.fcf = "PPS" /\ rx.tries < 5 ->
            Answer([rx EXCEPT !.tries = @ + 1], "ctc", PPR(rx)) /\ UNCHANGED saved
       [] line.fcf = "CTC" -> Continue(rx)
       [] line.fcf = "EOR" -> EndOfBlock(rx)
       [] line.fcf = "DCN" -> Disconnected(rx)
       [] OTHER -> Abandon(rx)

\* The sender asks whether the data is written: any frame will do, but DCN
\* ends the call, and then nothing is confirmed.
RecvRR ==
  /\ rx.pc = "rr"
  /\ IF line.fcf = "DCN"
     THEN /\ IF rx.ec THEN Keep(rx) ELSE Save(rx.image, rx.good)
          /\ Over(rx)
     ELSE Store(rx)

\* recvEnd
RecvEnd ==
  /\ rx.pc = "end" /\ UNCHANGED saved
  /\ CASE line.fcf \in {"PPS", "EOP", "RR"} -> Answer(rx, "end", ToSender("MCF"))
       [] line.fcf = "DCN" -> Over(rx)
       [] OTHER -> Reject(rx)

ReceiverActs(hs, got, ok) ==
  \/ RecvPage(hs, got, ok) \/ RecvBlock(hs, got, ok) \/ RecvPPM(ok) \/ RecvPPS(ok)
  \/ ok /\ (RecvIdent \/ RecvCTC \/ RecvRR \/ RecvEnd)
  \/ (rx.pc \in {"eom", "done"} \/ (~ok /\ rx.pc \in {"ident", "ctc", "rr", "end"})) /\ Stay
-----------------------------------------------------------------------------
\* recvEOMBegin: T2 has passed, the next document begins.
NextDocument == rx.pc = "eom" /\ Answer(rx, "ident", ToSender("DIS")) /\ UNCHANGED saved

\* Mutant: T1 starts again with every DIS.
IdentTimeoutAgain ==
  /\ rx.pc = "ident" /\ UNCHANGED saved
  /\ Answer(rx, "ident", ToSender("DIS"))

\* recvIdentification: DIS again, until T1 is over.  A call that was never
\* identified ends without DCN.
IdentTimeout ==
  /\ rx.pc = "ident" /\ UNCHANGED saved
  /\ IF rx.tries < Idents
     THEN Answer([rx EXCEPT !.tries = @ + 1], "ident", ToSender("DIS"))
     ELSE IF rx.docs = 1 /\ rx.page = 0 THEN Over(rx) ELSE Reject(rx)

\* RNR is sent twice; then the data is saved without an answer.
FlowTimeout ==
  /\ rx.pc = "rr"
  /\ IF rx.tries = 0
     THEN Answer([rx EXCEPT !.tries = 1], "rr", ToSender(rx.sent)) /\ UNCHANGED saved
     ELSE Stored([rx EXCEPT !.emsg = TRUE])

\* T2 after RTN or the fourth PPR.
AnswerTimeout == rx.pc \in {"ppm", "ctc"} /\ Abandon(rx)

\* The page does not come, nor its message: the receiver waits for these long.
PageTimeout == rx.pc \in {"page", "pps"} /\ Abandon(rx)
EndTimeout == rx.pc = "end" /\ Over(rx) /\ UNCHANGED saved

RxTypeOK ==
  /\ rx.pc \in RxStates /\ rx.post \in PPMs \cup {"NULL"}
  /\ rx.page \in Nat /\ rx.block \in 0..BlockCount
  /\ rx.data.fcount \in 0..FrameCount /\ rx.data.pprs \in 0..3
  /\ rx.data.have \subseteq UNION {PageUnits(p) : p \in Pages}
  /\ \A i \in 1..Len(saved) : saved[i].units \subseteq UNION {PageUnits(p) : p \in Pages}
=============================================================================
