---------------------------- MODULE MCSchedTimeout ----------------------------
(***************************************************************************)
(* Five seconds of three ticks each: several passes, asked for at every   *)
(* point of a second and served on time or late.                           *)
(***************************************************************************)
EXTENDS SchedTimeout
=============================================================================
