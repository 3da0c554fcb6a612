----------------------------- MODULE MCFaxCall -----------------------------
(***************************************************************************)
(* Small calls for TLC.                                                    *)
(***************************************************************************)
EXTENDS FaxCall

OnePage == <<"EOP">>
ThreePages == <<"MPS", "next", "EOP">>

\* Not in a run: a change of format, before which the sender leaves out the end
\* of the page (README, section 5).
NewFormat == <<"EOM", "EOP">>

\* Not in a run either: a short page with the message of the page before it.
TwoAlike == <<"MPS", "MPS", "EOP">>

Config(rtn, persistent, bad, missing) ==
  [rtn |-> rtn, persistent |-> persistent, bad |-> bad, missing |-> missing]
Default == Config("RETRANSMIT-IGNORE", TRUE, "RTN", "RTN")
TwoConfigs == {Default, Config("IGNORE", FALSE, "RTNSAVE", "CFR")}
OneConfig == {Default}
=============================================================================
