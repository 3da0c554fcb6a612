------------------------------ MODULE MCDevice ------------------------------
(***************************************************************************)
(* The instance of Device for TLC: one device, its constants are in the    *)
(* cfg.                                                                    *)
(***************************************************************************)
EXTENDS Device
=============================================================================
