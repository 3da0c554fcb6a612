------------------------------ MODULE T30Line ------------------------------
(***************************************************************************)
(* The telephone line between two Class 1 modems, as Class1Modem's frame   *)
(* routines use it (faxd/Class1.c++: transmitFrame, transmitData,          *)
(* recvFrame, abortReceive).  T.30 is half duplex: one station speaks, the *)
(* other listens.  A signal is an HDLC frame on the slow V.21 carrier,     *)
(* preceded, when hs holds, by a message on the high speed carrier whose   *)
(* image is a set of units <<page, block, frame>>.                         *)
(*                                                                         *)
(* Noise is chosen at the ear of the listener: it may miss the high speed  *)
(* carrier, units of the image, or the frame.  MaxFaults bounds how often  *)
(* that happens in a call.  A station that has taken a signal off the line *)
(* answers in the same step, or leaves the line silent.                    *)
(***************************************************************************)
EXTENDS Naturals, FiniteSets, Sequences

CONSTANTS
  MaxFaults,   \* bound: how much noise may spoil in one call
  Doc,         \* the post-page message of each page: "MPS", "EOM" or "EOP";
               \* "next" ends a job of a batch, it is sent as EOM
  BlockCount,  \* error correction: blocks of a page, the last one not full
  FrameCount,  \* error correction: frames of a block
  MaxRate,     \* signalling rates are 0..MaxRate
  PageWrap,    \* page numbers are sent modulo this (256 in the code)
  Format,      \* data format: "MR", "MMR" or "JBIG"
  Configs      \* configurations: rtnHandling and class1PersistentECM of the
               \* sender, badPageHandling and missedPageHandling of the receiver

ASSUME LineConstants ==
  /\ MaxFaults \in Nat /\ MaxRate \in Nat /\ PageWrap \in Nat \ {0}
  /\ BlockCount \in Nat \ {0} /\ FrameCount \in Nat \ {0}
  /\ Doc \in Seq({"MPS", "EOM", "EOP", "next"}) /\ Doc # <<>>
  /\ Format \in {"MR", "MMR", "JBIG"}
  /\ Configs \subseteq
       [rtn : {"RETRANSMIT-IGNORE", "RETRANSMIT", "IGNORE", "GIVEUP"},
        persistent : BOOLEAN,
        bad : {"RTN", "RTNSAVE", "DCN"}, missing : {"RTN", "CFR", "DCN"}]
  /\ \A p \in 1..Len(Doc) : Doc[p] = "EOP" <=> p = Len(Doc)

VARIABLES
  line,    \* the signal being sent, or Silence
  faults,  \* what noise has spoiled
  missed   \* signals in a row the receiver has not heard

lineVars == <<line, faults, missed>>

Pages == 1..Len(Doc)
PageUnits(p) == {p} \X (1..BlockCount) \X (1..FrameCount)
BlockUnits(p, b) == {p} \X {b} \X (1..FrameCount)

\* The fields a frame of either protocol may carry.
Signal(to, fcf) ==
  [to |-> to, fcf |-> fcf, hs |-> FALSE, image |-> {}, post |-> "NULL",
   page |-> 0, block |-> 0, count |-> 0, bad |-> {}, rate |-> 0, ec |-> FALSE]

ToReceiver(fcf) == Signal("receiver", fcf)
ToSender(fcf) == Signal("sender", fcf)
Silence == Signal("nobody", "none")
Quiet == line = Silence

\* The listener takes the signal off the line: it notices the high speed
\* carrier (hs), gets units of the image (got) and the frame (ok).
Heard(me, hs, got, ok) ==
  LET spoiled == (IF hs = line.hs /\ got = line.image THEN 0 ELSE 1)
                 + (IF ok THEN 0 ELSE 1)
  IN /\ line.to = me
     /\ hs => line.hs
     /\ got \subseteq (IF hs THEN line.image ELSE {})
     /\ faults + spoiled <= MaxFaults
     /\ faults' = faults + spoiled

Say(s) == line' = s
HangUp == line' = Silence

LineTypeOK ==
  /\ faults \in 0..MaxFaults /\ missed \in 0..3
  /\ line.to \in {"nobody", "sender", "receiver"}
=============================================================================
