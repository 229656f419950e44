---------------------------- MODULE RunLifecycle ----------------------------
(***************************************************************************)
(* What the admin pages promise about one benchmark run: its cases are     *)
(* predicted one by one, each at most once; it can be paused and resumed;  *)
(* it is completed only when every case has its prediction.                *)
(***************************************************************************)
EXTENDS Naturals, FiniteSets

CONSTANT Cases

VARIABLES phase, done

Init == phase = "none" /\ done = {}

Create == phase = "none" /\ phase' = "queued" /\ UNCHANGED done

\* A run starts once, and goes on after a pause.
Begin == phase \in {"queued", "paused"} /\ phase' = "running" /\ UNCHANGED done

Predict ==
  /\ phase = "running"
  /\ \E c \in Cases \ done : done' = done \cup {c}
  /\ UNCHANGED phase

Pause == phase = "running" /\ phase' = "paused" /\ UNCHANGED done

Complete == phase = "running" /\ done = Cases /\ phase' = "completed" /\ UNCHANGED done

\* An error ends the run, even one that strikes while its end is being logged.
Fail == phase \in {"running", "completed"} /\ phase' = "failed" /\ UNCHANGED done

Next == Create \/ Begin \/ Predict \/ Pause \/ Complete \/ Fail

Spec == Init /\ [][Next]_<<phase, done>>
=============================================================================
