---------------------------- MODULE MCJobService ----------------------------
(***************************************************************************)
(* Instances of JobService for TLC: one client with one job.               *)
(***************************************************************************)
EXTENDS JobService

CONSTANTS s1, j1
=============================================================================
