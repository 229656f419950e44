---------------------------- MODULE MCChatSession ----------------------------
(* Instances of ChatSession for TLC.                                       *)
EXTENDS ChatSession, TLC

CONSTANTS p1, p2

OneProc  == {p1}
TwoProcs == {p1, p2}

\* The processes are alike.
ProcSymmetry == Permutations(Procs)
=============================================================================
