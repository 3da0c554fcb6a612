------------------------------ MODULE MCFaxQueue ------------------------------
(***************************************************************************)
(* Instances of the scheduler for TLC: up to three jobs, two destinations  *)
(* and two modems.                                                         *)
(***************************************************************************)
EXTENDS FaxQueueProperties, TLC

CONSTANTS j1, j2, j3, d1, d2, m1, m2

OneDest == [j \in Jobs |-> d1]
TwoDests == [j \in Jobs |-> IF j = j3 THEN d2 ELSE d1]

AnyModem == [j \in Jobs |-> NoModem]
OneForM1 == [j \in Jobs |-> IF j = j1 THEN m1 ELSE NoModem]

\* With one destination all jobs are alike; with two, j1 and j2 are.
AllAlike == Permutations(Jobs) \cup Permutations(Modems)
PairAlike == Permutations({j1, j2}) \cup Permutations(Modems)
ModemsAlike == Permutations(Modems)
=============================================================================
