----------------------------- MODULE MCTptbmSync -----------------------------
(* Instances of TptbmSync for TLC: the option sets of each run.            *)
EXTENDS TptbmSync

XactMode   == [duration |-> FALSE, rampup |-> FALSE, rampdown |-> FALSE]
FullRamp   == [duration |-> TRUE,  rampup |-> TRUE,  rampdown |-> TRUE]
NoRampUp   == [duration |-> TRUE,  rampup |-> FALSE, rampdown |-> TRUE]
NoRampDown == [duration |-> TRUE,  rampup |-> TRUE,  rampdown |-> FALSE]

SafeArgs       == {XactMode, FullRamp, NoRampUp}
XactArgs       == {XactMode}
NoRampDownArgs == {NoRampDown}
=============================================================================
