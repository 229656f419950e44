---------------------------- MODULE MCParamQuery ----------------------------
(* Instances of ParamQuery for TLC.                                        *)
EXTENDS ParamQuery, TLC

CONSTANTS edc17, sid208, p1, p2

TwoSources   == {edc17, sid208}
OneEdited    == {edc17}
TwoProcesses == {p1, p2}
TwoRows      == {1, 2}

\* The second version of a table has one more row.
OneRowMore == (0 :> {}) @@ (1 :> {1}) @@ (2 :> {1, 2})
=============================================================================
