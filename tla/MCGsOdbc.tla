------------------------------ MODULE MCGsOdbc ------------------------------
(* GsOdbc with the bindings at the thresholds of odbcTypeCompatible.       *)
EXTENDS GsOdbc

MCParamTypes ==
    [c : CTypes, db : {"NUMERIC"}, w : {4}, d : {0}]
    \cup [c : {"CHAR", "SSHORT"}, db : {"CHAR"}, w : {0, 3, 57, 58}, d : {0}]
    \cup [c : {"CHAR", "SLONG"}, db : DbTypes \ {"CHAR", "NUMERIC"}, w : {0, 1}, d : {0, 2}]

MCColBindings == [c : {"CHAR", "SBIGINT"}, len : {0, 5}]
MCValues      == {8, 16, 24, 32, 53, 64}
MCSetters     == ColTypes
=============================================================================
