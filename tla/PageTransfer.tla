---------------------------- MODULE PageTransfer ----------------------------
(***************************************************************************)
(* What a call promises to faxsend, which keeps the number of pages sent   *)
(* in the queue file and sends only the others in the next call: a page    *)
(* counts when the other side has it, or has been told of its errors.      *)
(***************************************************************************)
EXTENDS Naturals

CONSTANT Count   \* pages of the document, at least one

VARIABLES
  counted,  \* pages that need not be sent again
  waived,   \* pages known to have errors
  kept,     \* pages the receiver has in full
  result    \* of the call, "none" before its end

transferVars == <<counted, waived, kept, result>>

Init == counted = 0 /\ waived = {} /\ kept = {} /\ result = "none"

\* The page being sent arrives, perhaps not for the first time.
Deliver ==
  /\ kept' = kept \cup {counted + 1} /\ counted < Count
  /\ UNCHANGED <<counted, waived, result>>

\* The receiver reports errors.
Waive ==
  /\ result = "none" /\ counted < Count
  /\ waived' = waived \cup {counted + 1}
  /\ UNCHANGED <<counted, kept, result>>

\* A call ends well when the last page is confirmed, and only then; it may
\* still have found V.17 to be in trouble.
Finish(n) ==
  /\ result = "none" /\ result' \in {"none", "ok", "retry", "failed", "v17fail", "batchfail"}
  /\ result' \notin {"none", "v17fail"} => (result' = "ok" <=> n = Count)

Confirm ==
  /\ counted < Count /\ counted + 1 \in kept \cup waived'
  /\ waived' \in {waived, waived \cup {counted + 1}}
  /\ counted' = counted + 1 /\ Finish(counted')
  /\ UNCHANGED kept

GiveUp == Finish(counted) /\ result' # "none" /\ UNCHANGED <<counted, waived, kept>>

Next == Deliver \/ Waive \/ Confirm \/ GiveUp

Spec == Init /\ [][Next]_transferVars /\ WF_transferVars(GiveUp)
=============================================================================
