---------------------------- MODULE MCGridSample ----------------------------
(* Instances of GridSample for TLC: the sets and limits of each run.       *)
EXTENDS GridSample

AllTypes   == TxnTypes
WriteTypes == {"charge", "topup", "purge"}
OneCharge  == {1}
=============================================================================
