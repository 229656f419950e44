--------------------------- MODULE MCBenchmarkRun ---------------------------
(* Instances of BenchmarkRun for TLC.                                      *)
EXTENDS BenchmarkRun

CONSTANTS p1, p2

OneProc  == {p1}
TwoProcs == {p1, p2}

FourCases == <<"c1", "c2", "c3", "c4">>
OneCase    == <<"c1">>
=============================================================================
