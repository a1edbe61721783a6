--------------------------- MODULE MCXlaSubscriber ---------------------------
(* Instances of XlaSubscriber for TLC: the programs of each run.           *)
EXTENDS XlaSubscriber

OnlySub1 == {"sub1"}
=============================================================================
