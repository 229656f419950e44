-------------------------- MODULE MCOssImageDelete --------------------------
(* Instances of OssImageDelete for TLC.                                    *)
EXTENDS OssImageDelete, TLC

CONSTANTS p1, p2, k1, k2

OneProc  == {p1}
TwoProcs == {p1, p2}
OneKey   == {k1}
TwoKeys  == {k1, k2}
NoKeys   == {}

\* The processes are alike.  (Used by runs without liveness properties only.)
ProcSymmetry == Permutations(Procs)
=============================================================================
