----------------------------- MODULE MCFaxSend -----------------------------
(***************************************************************************)
(* Small batches for TLC.                                                  *)
(***************************************************************************)
EXTENDS FaxSend

TwoJobs == [j \in Jobs |-> IF j = "j1" THEN <<1, 2>> ELSE <<1>>]
=============================================================================
