------------------------------ MODULE MCUUCPLock ------------------------------
(***************************************************************************)
(* Three processes want one modem; each may die at any moment and be       *)
(* replaced by a new one.                                                  *)
(***************************************************************************)
EXTENDS UUCPLock, TLC

Alike == Permutations(Processes)
=============================================================================
