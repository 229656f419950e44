------------------------ MODULE BenchmarkRun_proofs ------------------------
(***************************************************************************)
(* Theorems about BenchmarkRun, for one uvicorn process, any dataset and   *)
(* any number of kills and failed file operations: the types, that no case *)
(* is run twice, that reports and progress are those of the predictions,   *)
(* that no run is stuck, and that the run implements RunLifecycle.         *)
(***************************************************************************)
EXTENDS BenchmarkRun, FiniteSetTheorems, SequenceTheorems, WellFoundedInduction, TLAPS

\* One process: what `npm run dev` starts.
Alone == \A p, q \in Procs : p = q

Prediction == [case : ToSet(Cases), error : BOOLEAN]

-----------------------------------------------------------------------------
(* Cases and counts.                                                       *)

\* The case a task takes is one it has left (the loop over the remaining cases).
LEMMA LeastIsOne ==
  ASSUME NEW S \in SUBSET Nat, S # {} PROVE Min(S) \in S
  <1>1. PICK x \in S : \A y \in S : ~ (<<y, x>> \in OpToRel(<, Nat))
    BY NatLessThanWellFounded, WFMin, Zenon
  <1>2. \A y \in S : x <= y
    <2> SUFFICES ASSUME NEW y \in S PROVE x <= y
      OBVIOUS
    <2>1. ~ (<<y, x>> \in OpToRel(<, Nat))
      BY <1>1
    <2>2. x \in Nat /\ y \in Nat
      OBVIOUS
    <2>3. ~ (y < x)
      BY <2>1, <2>2, Zenon DEF OpToRel
    <2> QED
      BY <2>2, <2>3
  <1> QED
    BY <1>2 DEF Min

\* The dataset is finite, and has no more cases than positions.
LEMMA CasesFinite ==
  /\ N \in Nat
  /\ IsFiniteSet(ToSet(Cases)) /\ Cardinality(ToSet(Cases)) <= N
  /\ \A i \in 1 .. N : Cases[i] \in ToSet(Cases)
  /\ \A c \in ToSet(Cases) : \E i \in 1 .. N : Cases[i] = c
  <1>1. N \in Nat /\ DOMAIN Cases = 1 .. N /\ Cases \in [1 .. N -> ToSet(Cases)]
    BY CasesAssumption DEF N
  <1>2. /\ \A i \in 1 .. N : Cases[i] \in ToSet(Cases)
        /\ \A c \in ToSet(Cases) : \E i \in 1 .. N : Cases[i] = c
    BY <1>1 DEF ToSet
  <1>3. Cases \in Surjection(1 .. N, ToSet(Cases))
    BY <1>1, <1>2 DEF Surjection
  <1>4. IsFiniteSet(1 .. N) /\ Cardinality(1 .. N) = N
    <2>1. 1 \in Int /\ N \in Int /\ (1 > N => N = 0)
      BY <1>1
    <2>2. IsFiniteSet(1 .. N) /\ Cardinality(1 .. N) = IF 1 > N THEN 0 ELSE N - 1 + 1
      BY <2>1, FS_Interval
    <2> QED
      BY <1>1, <2>1, <2>2
  <1> QED
    BY <1>1, <1>2, <1>3, <1>4, FS_Surjection

\* Every prediction is of another case, and there are as many as cases processed.
Counted == EachCaseOnce /\ Cardinality(Processed) = Len(preds)

\* Predictions are bounded by the cases, errors by the predictions.
LEMMA CountsType ==
  ASSUME preds \in Seq(Prediction), Counted
  PROVE  /\ Processed \in SUBSET ToSet(Cases) /\ IsFiniteSet(Processed)
         /\ Cardinality(Processed) \in 0 .. N
         /\ Errors \in 0 .. Cardinality(Processed)
         /\ IsFiniteSet({i \in DOMAIN preds : preds[i].error})
         /\ Len(preds) \in 0 .. N
  <1>1. Len(preds) \in Nat /\ DOMAIN preds = 1 .. Len(preds)
        /\ \A i \in 1 .. Len(preds) : preds[i] \in Prediction
    OBVIOUS
  <1>2. Processed \in SUBSET ToSet(Cases)
    BY <1>1 DEF Processed, Prediction
  <1>3. IsFiniteSet(Processed) /\ Cardinality(Processed) <= Cardinality(ToSet(Cases))
    BY <1>2, CasesFinite, FS_Subset
  <1>4. Cardinality(Processed) \in Nat /\ Cardinality(ToSet(Cases)) \in Nat
    BY <1>3, CasesFinite, FS_CardinalityType
  <1>5. IsFiniteSet(DOMAIN preds) /\ Cardinality(DOMAIN preds) = Len(preds)
    <2>1. 1 \in Int /\ Len(preds) \in Int /\ (1 > Len(preds) => Len(preds) = 0)
      BY <1>1
    <2>2. /\ IsFiniteSet(1 .. Len(preds))
          /\ Cardinality(1 .. Len(preds)) = IF 1 > Len(preds) THEN 0 ELSE Len(preds) - 1 + 1
      BY <2>1, FS_Interval
    <2> QED
      BY <1>1, <2>1, <2>2
  <1> DEFINE bad == {i \in DOMAIN preds : preds[i].error}
  <1>6. bad \in SUBSET DOMAIN preds
    OBVIOUS
  <1>7. IsFiniteSet(bad) /\ Cardinality(bad) <= Cardinality(DOMAIN preds)
    BY <1>5, <1>6, FS_Subset
  <1>8. Cardinality(bad) \in Nat
    BY <1>7, FS_CardinalityType
  <1>9. Errors \in 0 .. Cardinality(Processed)
    BY <1>1, <1>5, <1>7, <1>8 DEF Errors, Counted
  <1> QED
    BY <1>1, <1>2, <1>3, <1>4, <1>7, <1>9, CasesFinite DEF Counted

\* A prediction of a case not yet processed adds one to each count (_append_jsonl).
LEMMA Appended ==
  ASSUME preds \in Seq(Prediction), Counted,
         NEW c \in ToSet(Cases), c \notin Processed, NEW error \in BOOLEAN,
         preds' = Append(preds, [case |-> c, error |-> error])
  PROVE  /\ preds' \in Seq(Prediction) /\ Counted'
         /\ Len(preds') = Len(preds) + 1
         /\ Processed' = Processed \cup {c}
         /\ Cardinality(Processed') = Cardinality(Processed) + 1
         /\ Errors' = IF error THEN Errors + 1 ELSE Errors
  <1> DEFINE new == [case |-> c, error |-> error]
             n == Len(preds)
  <1>1. new \in Prediction
    BY DEF Prediction
  <1>2. /\ n \in Nat /\ DOMAIN preds = 1 .. n
        /\ preds' \in Seq(Prediction) /\ Len(preds') = n + 1 /\ DOMAIN preds' = 1 .. n + 1
        /\ \A i \in 1 .. n : preds'[i] = preds[i]
        /\ preds'[n + 1] = new
    BY <1>1
  <1>3. Processed' = Processed \cup {c}
    <2>1. Processed' = {preds'[i].case : i \in 1 .. n + 1}
      BY <1>2 DEF Processed
    <2>2. 1 .. n + 1 = (1 .. n) \cup {n + 1}
      BY <1>2
    <2>3. Processed' = {preds'[i].case : i \in 1 .. n} \cup {preds'[n + 1].case}
      BY <2>1, <2>2
    <2>4. {preds'[i].case : i \in 1 .. n} = {preds[i].case : i \in 1 .. n}
      BY <1>2
    <2> QED
      BY <1>2, <2>3, <2>4 DEF Processed
  <1>4. Cardinality(Processed') = Cardinality(Processed) + 1
    BY <1>3, CountsType, FS_AddElement
  <1>5. Errors' = IF error THEN Errors + 1 ELSE Errors
    <2> DEFINE bad == {i \in DOMAIN preds : preds[i].error}
    <2>1. {i \in DOMAIN preds' : preds'[i].error} = IF error THEN bad \cup {n + 1} ELSE bad
      <3>1. new.error = error
        OBVIOUS
      <3>2. \A i : i \in 1 .. n + 1 <=> i \in 1 .. n \/ i = n + 1
        BY <1>2
      <3> QED
        BY <1>2, <3>1, <3>2
    <2>2. IsFiniteSet(bad) /\ n + 1 \notin bad
      BY <1>2, CountsType
    <2>3. Cardinality(bad \cup {n + 1}) = Cardinality(bad) + 1
      BY <2>2, FS_AddElement
    <2> QED
      BY <2>1, <2>3 DEF Errors
  <1>6. EachCaseOnce'
    <2>1. \A i \in 1 .. n : preds[i].case \in Processed
      BY <1>2 DEF Processed
    <2>2. \A i, j \in 1 .. n : preds[i].case = preds[j].case => i = j
      BY <1>2 DEF Counted, EachCaseOnce, IsInjective
    <2>3. \A i, j \in 1 .. n + 1 : preds'[i].case = preds'[j].case => i = j
      <3>1. new.case = c
        OBVIOUS
      <3>2. \A i \in 1 .. n + 1 : i \in 1 .. n \/ i = n + 1
        BY <1>2
      <3> QED
        BY <1>2, <2>1, <2>2, <3>1, <3>2
    <2> QED
      BY <1>2, <2>3 DEF EachCaseOnce, IsInjective
  <1> QED
    BY <1>2, <1>3, <1>4, <1>5, <1>6 DEF Counted

\* What is counted depends on the predictions only.
LEMMA SamePredictions ==
  ASSUME preds' = preds
  PROVE  /\ Processed' = Processed /\ Errors' = Errors /\ Remaining' = Remaining
         /\ Counted' = Counted
  BY DEF Processed, Errors, Remaining, Counted, EachCaseOnce
-----------------------------------------------------------------------------
(* The invariant.                                                          *)

\* What the files say while a task is at each place of the runner.
PlaceFits ==
  \A p \in Procs :
    LET t == task[p]
    IN  /\ t.pc = "scheduled" =>
             IF t.resume THEN status.state = "paused" ELSE status.state = "queued"
        /\ t.pc \in {"case", "progress", "report", "complete", "pausing", "paused"}
             => status.state = "running"
        /\ t.pc = "finish" => status.state = "completed"
        /\ t.pc = "failing" => status.state \in {"running", "completed"}

\* The cases a task has left are the ones without a prediction.
LeftFits ==
  \A p \in Procs :
    LET t == task[p]
    IN  /\ t.pc = "case" => t.todo # {} /\ t.todo = Remaining
        /\ t.pc = "progress" => t.todo # {} /\ t.todo \ {Min(t.todo)} = Remaining
        /\ t.pc \in {"report", "complete", "finish"} => Remaining = {}

\* Its counters are those of the predictions, also when it was resumed.
CountersFit ==
  \A p \in Procs :
    task[p].pc \in {"case", "progress"}
      => task[p].completed = Cardinality(Processed) /\ task[p].failed = Errors

\* The report of the predictions made so far; none before the first one.
ReportCurrent == report = IF preds = <<>> THEN -1 ELSE Len(preds)

\* A run without predictions has no report before it is at its end.
ReportFits ==
  /\ status.state \in {"none", "queued"} => preds = <<>> /\ report = -1
  /\ \A p \in Procs :
       /\ task[p].pc \in {"case", "progress", "pausing"} /\ preds = <<>> => report = -1
       /\ task[p].pc = "paused" => ReportCurrent
       /\ task[p].pc \in {"complete", "finish"} => report = Len(preds)

\* A completed run has no case left, and no case is lost from it.
CompletedFits == status.state = "completed" => Remaining = {} /\ report = Len(preds)

\* The progress of status.json is that of the predictions file ...
Shown == status.completed = Cardinality(Processed) /\ status.failed = Errors

\* ... except between a prediction and its progress, and where an exception left it.
PageFits ==
  \A p \in Procs :
    task[p].pc \in {"case", "report", "complete", "finish", "pausing", "paused"} => Shown

Inv ==
  /\ TypeOK /\ Counted
  /\ PlaceFits /\ LeftFits /\ CountersFit /\ ReportFits /\ PageFits
  /\ CompletedFits /\ PausedReportIsCurrent /\ ProgressIsCurrent /\ RunningHasTask

\* TypeOK, with the parts the provers need.
LEMMA TypeParts ==
  ASSUME TypeOK
  PROVE  /\ status \in [state : States, completed : 0 .. N, failed : 0 .. N]
         /\ preds \in Seq(Prediction) /\ Len(preds) \in Nat
         /\ report \in Int
         /\ \A p \in Procs :
              task[p] \in [pc : PCs, resume : BOOLEAN, cancel : BOOLEAN,
                           todo : SUBSET (1 .. N), completed : 0 .. N, failed : 0 .. N]
         /\ DOMAIN task = Procs /\ faults \in Nat
  BY BoundAssumption DEF TypeOK, Prediction

LEMMA InvInit == Init => Inv
  <1> SUFFICES ASSUME Init PROVE Inv
    OBVIOUS
  <1> USE DEF Init, NoTask
  <1>1. Processed = {} /\ Cardinality(Processed) = 0
    <2>1. Processed = {}
      BY DEF Processed
    <2> QED
      BY <2>1, FS_EmptySet
  <1>2. N \in Nat
    BY CasesFinite
  <1>3. /\ 0 \in 0 .. N /\ {} \in SUBSET (1 .. N)
        /\ 0 \in 0 .. MaxFaults
    BY <1>2, BoundAssumption
  <1>4. TypeOK
    BY <1>3 DEF TypeOK, States, PCs
  <1>5. Counted
    BY <1>1 DEF Counted, EachCaseOnce, IsInjective
  <1> QED
    BY <1>4, <1>5
    DEF Inv, PlaceFits, LeftFits, CountersFit, ReportFits, PageFits, CompletedFits,
        PausedReportIsCurrent, ProgressIsCurrent, RunningHasTask


-----------------------------------------------------------------------------
(* The invariant is kept.                                                  *)

\* _run_case works on a case without a prediction, and its prediction takes the
\* case, and no other, from those left.
LEMMA NextCase ==
  ASSUME TypeOK, Counted, LeftFits, NEW p \in Procs, NEW error \in BOOLEAN, Predict(p, error)
  PROVE  /\ preds' \in Seq(Prediction) /\ Counted'
         /\ Len(preds') = Len(preds) + 1 /\ preds' # <<>>
         /\ Cardinality(Processed') = Cardinality(Processed) + 1
         /\ Errors' = IF error THEN Errors + 1 ELSE Errors
         /\ Remaining' = task[p].todo \ {Min(task[p].todo)}
         /\ \E c \in ToSet(Cases) \ Processed : Processed' = Processed \cup {c}
  <1> DEFINE m == Min(task[p].todo)
  <1>1. task[p].todo # {} /\ task[p].todo = Remaining /\ Remaining \in SUBSET (1 .. N)
    BY DEF Predict, LeftFits, Remaining
  <1>2. m \in Remaining
    <2>1. task[p].todo \in SUBSET Nat
      BY <1>1, CasesFinite
    <2> QED
      BY <1>1, <2>1, LeastIsOne
  <1>3. m \in 1 .. N /\ Cases[m] \in ToSet(Cases) /\ Cases[m] \notin Processed
    BY <1>2, CasesFinite DEF Remaining
  <1>4. /\ preds \in Seq(Prediction)
        /\ preds' = Append(preds, [case |-> Cases[m], error |-> error])
    BY TypeParts DEF Predict
  <1> HIDE DEF m
  <1>5. /\ preds' \in Seq(Prediction) /\ Counted'
        /\ Len(preds') = Len(preds) + 1
        /\ Processed' = Processed \cup {Cases[m]}
        /\ Cardinality(Processed') = Cardinality(Processed) + 1
        /\ Errors' = IF error THEN Errors + 1 ELSE Errors
    BY <1>3, <1>4, Appended
  <1>6. Remaining' = Remaining \ {m}
    <2>1. \A i \in 1 .. N : Cases[i] = Cases[m] => i = m
      BY <1>3, CasesAssumption DEF IsInjective, N
    <2> QED
      BY <1>2, <1>5, <2>1 DEF Remaining
  <1>7. preds' # <<>>
    BY <1>4, TypeParts
  <1> QED
    BY <1>1, <1>3, <1>5, <1>6, <1>7 DEF m

\* The first step of a task finds the predictions, and counts them, as they are.
LEMMA BeginFits ==
  ASSUME Inv, NEW p \in Procs, Begin(p)
  PROVE  LET t == task'[p] IN
         /\ status'.state = "running" /\ preds' = preds /\ report' = report
         /\ t.pc = (IF Remaining = {} THEN "report" ELSE "case")
         /\ t.todo = Remaining
         /\ t.completed = Cardinality(Processed) /\ t.failed = Errors
         /\ status'.completed = Cardinality(Processed) /\ status'.failed = Errors
         /\ t.resume = task[p].resume /\ t.cancel = task[p].cancel
         /\ task' = [task EXCEPT ![p] = t]
         /\ preds = <<>> => report = -1
  <1>1. /\ task[p] \in [pc : PCs, resume : BOOLEAN, cancel : BOOLEAN,
                        todo : SUBSET (1 .. N), completed : 0 .. N, failed : 0 .. N]
        /\ DOMAIN task = Procs
    BY TypeParts DEF Inv
  <1>2. ~task[p].resume => preds = <<>> /\ report = -1
    BY DEF Begin, Inv, PlaceFits, ReportFits
  <1>3. preds = <<>> => /\ Remaining = 1 .. N
                        /\ Cardinality(Processed) = 0 /\ Errors = 0
    <2> SUFFICES ASSUME preds = <<>>
                 PROVE  Remaining = 1 .. N /\ Cardinality(Processed) = 0 /\ Errors = 0
      OBVIOUS
    <2>1. Processed = {} /\ {i \in DOMAIN preds : preds[i].error} = {}
      BY DEF Processed
    <2>2. Cardinality({}) = 0
      BY FS_EmptySet
    <2>3. Remaining = 1 .. N
      BY <2>1 DEF Remaining
    <2> QED
      BY <2>1, <2>2, <2>3 DEF Errors
  <1>4. preds = <<>> => report = -1
    <2>1. task[p].resume => status.state = "paused"
      BY DEF Begin, Inv, PlaceFits
    <2> QED
      BY <1>2, <2>1 DEF Inv, PausedReportIsCurrent
  <1> DEFINE todo == IF task[p].resume THEN Remaining ELSE 1 .. N
             n == Progress(task[p].resume)
  <1>5. /\ todo = Remaining
        /\ n.completed = Cardinality(Processed) /\ n.failed = Errors
    BY <1>2, <1>3 DEF Progress
  <1>6. /\ status' = [state |-> "running", completed |-> n.completed, failed |-> n.failed]
        /\ task' = [task EXCEPT ![p] = [task[p] EXCEPT !.pc = NextPc(todo), !.todo = todo,
                                         !.completed = n.completed, !.failed = n.failed]]
        /\ preds' = preds /\ report' = report
    BY DEF Begin
  <1> HIDE DEF todo, n
  <1> QED
    BY <1>1, <1>4, <1>5, <1>6 DEF NextPc


\* Everything that can happen in a process.
ProcessStep(p) ==
  \/ Request(p) \/ TaskStep(p)
  \/ BodyError(p) \/ UncaughtError(p) \/ Kill(p) \/ Shutdown(p) \/ Exit(p)

\* schedule_benchmark_run puts a task in place that has not begun.
LEMMA Scheduled ==
  ASSUME TypeOK, NEW p \in Procs, Start(p) \/ Resume(p)
  PROVE  /\ task'[p].pc = "scheduled" /\ preds' = preds /\ report' = report /\ faults' = faults
         /\ \/ status.state = "none" /\ status'.state = "queued" /\ ~task'[p].resume
            \/ status.state = "paused" /\ status' = status /\ task'[p].resume
  <1> DEFINE u(r) == [NoTask EXCEPT !.pc = "scheduled", !.resume = r]
  <1>1. \A r \in BOOLEAN : u(r).pc = "scheduled" /\ u(r).resume = r
    BY DEF NoTask
  <1>2. CASE Start(p)
    <2>1. task' = [task EXCEPT ![p] = u(FALSE)]
      BY <1>2 DEF Start, Schedule
    <2>2. status' = [status EXCEPT !.state = "queued"] /\ status.state = "none"
      BY <1>2 DEF Start
    <2> HIDE DEF u
    <2> QED
      BY <1>1, <1>2, <2>1, <2>2, TypeParts DEF Start
  <1>3. CASE Resume(p)
    <2>1. task' = [task EXCEPT ![p] = u(TRUE)]
      BY <1>3 DEF Resume, Schedule
    <2> HIDE DEF u
    <2> QED
      BY <1>1, <1>3, <2>1, TypeParts DEF Resume, MayResume
  <1> QED
    BY <1>2, <1>3

\* Types: counters stay within the dataset, since no case is counted twice.
LEMMA TypeStep ==
  ASSUME Inv, NEW p \in Procs, ProcessStep(p) PROVE TypeOK'
  <1> DEFINE Task == [pc : PCs, resume : BOOLEAN, cancel : BOOLEAN,
                      todo : SUBSET (1 .. N), completed : 0 .. N, failed : 0 .. N]
  <1>0. TypeOK /\ Counted
    BY DEF Inv
  <1>1. /\ status \in [state : States, completed : 0 .. N, failed : 0 .. N]
        /\ preds \in Seq(Prediction) /\ Len(preds) \in Nat /\ report \in -1 .. Len(preds)
        /\ task \in [Procs -> Task] /\ \A q \in Procs : task[q].failed <= task[q].completed
        /\ stopping \in [Procs -> BOOLEAN]
        /\ faults \in 0 .. MaxFaults
    BY <1>0, TypeParts DEF TypeOK
  <1>2. N \in Nat /\ MaxFaults \in Nat
    BY CasesFinite, BoundAssumption
  <1>3. /\ Cardinality(Processed) \in 0 .. N /\ Errors \in 0 .. Cardinality(Processed)
    BY <1>0, <1>1, CountsType
  <1>4. ASSUME NEW u \in Task, u.failed <= u.completed, task' = [task EXCEPT ![p] = u],
               status' \in [state : States, completed : 0 .. N, failed : 0 .. N],
               preds' = preds, report' \in {report, Len(preds)},
               stopping' \in [Procs -> BOOLEAN], faults' \in 0 .. MaxFaults
        PROVE  TypeOK'
    BY <1>1, <1>4 DEF TypeOK, Prediction
  <1>5. {"queued", "running", "paused", "failed", "completed"} \subseteq States
    BY DEF States
  <1>6. task[p] \in Task /\ task[p].failed <= task[p].completed
    BY <1>1
  <1>7. NoTask \in Task /\ NoTask.failed <= NoTask.completed
    BY <1>2 DEF NoTask, PCs
  <1>8. \A u \in Task, c \in PCs : [u EXCEPT !.pc = c] \in Task
    OBVIOUS
  <1>9. CASE Start(p) \/ Resume(p)
    <2> DEFINE u(r) == [NoTask EXCEPT !.pc = "scheduled", !.resume = r]
    <2>1. \A r \in BOOLEAN : u(r) \in Task /\ u(r).failed <= u(r).completed
      BY <1>7 DEF PCs
    <2>2. task' = [task EXCEPT ![p] = u(FALSE)] \/ task' = [task EXCEPT ![p] = u(TRUE)]
      BY <1>9 DEF Start, Resume, Schedule
    <2>3. status' \in [state : States, completed : 0 .. N, failed : 0 .. N]
      BY <1>1, <1>5, <1>9 DEF Start, Resume
    <2> HIDE DEF u
    <2>4. preds' = preds /\ report' = report /\ stopping' = stopping /\ faults' = faults
      BY <1>9 DEF Start, Resume
    <2> QED
      BY <1>1, <1>4, <2>1, <2>2, <2>3, <2>4
  <1>10. CASE Begin(p)
    <2>1. /\ task'[p].pc \in {"report", "case"}
          /\ task'[p].todo = Remaining
          /\ task'[p].completed = Cardinality(Processed) /\ task'[p].failed = Errors
          /\ task'[p].resume = task[p].resume /\ task'[p].cancel = task[p].cancel
          /\ task' = [task EXCEPT ![p] = task'[p]]
          /\ preds' = preds /\ report' = report
      BY <1>10, BeginFits
    <2>2. Remaining \in SUBSET (1 .. N)
      BY DEF Remaining
    <2>3. status' \in [state : States, completed : 0 .. N, failed : 0 .. N]
          /\ stopping' = stopping /\ faults' = faults
      <3>1. ASSUME NEW r PROVE Progress(r).completed \in 0 .. N /\ Progress(r).failed \in 0 .. N
        BY <1>2, <1>3 DEF Progress
      <3> QED
        BY <1>1, <1>5, <1>10, <3>1 DEF Begin
    <2>4. task'[p] \in Task /\ task'[p].failed <= task'[p].completed
      <3>1. task'[p] = [task[p] EXCEPT !.pc = task'[p].pc, !.todo = task'[p].todo,
                                       !.completed = task'[p].completed, !.failed = task'[p].failed]
        BY <1>1, <1>10 DEF Begin
      <3>2. /\ task'[p].pc \in PCs /\ task'[p].todo \in SUBSET (1 .. N)
            /\ task'[p].completed \in 0 .. N /\ task'[p].failed \in 0 .. N
        BY <1>2, <1>3, <2>1, <2>2 DEF PCs
      <3>3. task'[p] \in Task
        BY <1>6, <3>1, <3>2
      <3> QED
        BY <1>3, <2>1, <3>3
    <2> QED
      BY <1>1, <1>4, <2>1, <2>3, <2>4
  <1>11. ASSUME NEW error \in BOOLEAN, Predict(p, error) PROVE TypeOK'
    <2>1. /\ preds' \in Seq(Prediction) /\ Counted' /\ Len(preds') = Len(preds) + 1
          /\ Cardinality(Processed') = Cardinality(Processed) + 1
          /\ Errors' = IF error THEN Errors + 1 ELSE Errors
      BY <1>11, NextCase DEF Inv
    <2>2. Cardinality(Processed') \in 0 .. N /\ Errors' \in 0 .. Cardinality(Processed')
      <3>1. PICK c \in ToSet(Cases) \ Processed : Processed' = Processed \cup {c}
        BY <1>11, NextCase DEF Inv
      <3>2. Processed' \in SUBSET ToSet(Cases)
        BY <1>0, <1>1, <3>1, CountsType
      <3>3. IsFiniteSet(Processed') /\ Cardinality(Processed') <= Cardinality(ToSet(Cases))
        BY <3>2, CasesFinite, FS_Subset
      <3>4. Cardinality(Processed') \in Nat /\ Cardinality(ToSet(Cases)) \in Nat
        BY <3>3, CasesFinite, FS_CardinalityType
      <3> QED
        BY <1>2, <1>3, <2>1, <3>3, <3>4, CasesFinite
    <2>3. task[p].completed = Cardinality(Processed) /\ task[p].failed = Errors
      BY <1>11 DEF Predict, Inv, CountersFit
    <2> DEFINE u == [task[p] EXCEPT !.pc = "progress", !.completed = @ + 1,
                                    !.failed = IF error THEN @ + 1 ELSE @]
    <2>4. u.completed = Cardinality(Processed') /\ u.failed = Errors'
      BY <1>3, <1>6, <2>1, <2>3
    <2>5. u \in Task /\ u.failed <= u.completed
      <3>1. u = [task[p] EXCEPT !.pc = "progress", !.completed = u.completed, !.failed = u.failed]
        BY <1>6
      <3>2. u.completed \in 0 .. N /\ u.failed \in 0 .. N /\ u.failed <= u.completed
        BY <1>2, <2>2, <2>4
      <3>3. "progress" \in PCs
        BY DEF PCs
      <3> HIDE DEF u
      <3> QED
        BY <1>6, <3>1, <3>2, <3>3
    <2>6. /\ task' = [task EXCEPT ![p] = u]
          /\ status' = status /\ report' = report /\ stopping' = stopping /\ faults' = faults
      BY <1>11 DEF Predict
    <2> HIDE DEF u
    <2>7. task' \in [Procs -> Task] /\ \A q \in Procs : task'[q].failed <= task'[q].completed
      BY <1>1, <2>5, <2>6
    <2> QED
      BY <1>1, <2>1, <2>6, <2>7 DEF TypeOK, Prediction
  <1>12. CASE WriteProgress(p)
    <2> DEFINE todo == task[p].todo \ {Min(task[p].todo)}
               u == [task[p] EXCEPT !.pc = NextPc(todo), !.todo = todo]
    <2>1. NextPc(todo) \in PCs
      BY DEF NextPc, PCs
    <2>2. u \in Task /\ u.failed <= u.completed
      BY <1>6, <2>1
    <2>3. /\ task' = [task EXCEPT ![p] = u]
          /\ preds' = preds /\ report' = report /\ stopping' = stopping /\ faults' = faults
      BY <1>12 DEF WriteProgress
    <2>4. status' \in [state : States, completed : 0 .. N, failed : 0 .. N]
      BY <1>1, <1>6, <1>12 DEF WriteProgress
    <2> HIDE DEF u
    <2> QED
      BY <1>1, <1>4, <2>2, <2>3, <2>4
  <1>13. ASSUME NEW c \in PCs, task' = [task EXCEPT ![p].pc = c],
                status' = status \/ \E s \in States : status' = [status EXCEPT !.state = s],
                preds' = preds, report' \in {report, Len(preds)},
                stopping' = stopping, faults' \in 0 .. MaxFaults
         PROVE  TypeOK'
    <2>1. task' = [task EXCEPT ![p] = [task[p] EXCEPT !.pc = c]]
      BY <1>1, <1>13
    <2>2. [task[p] EXCEPT !.pc = c] \in Task
          /\ [task[p] EXCEPT !.pc = c].failed <= [task[p] EXCEPT !.pc = c].completed
      BY <1>6, <1>8
    <2>3. status' \in [state : States, completed : 0 .. N, failed : 0 .. N]
      BY <1>1, <1>13
    <2> QED
      BY <1>1, <1>4, <1>13, <2>1, <2>2, <2>3
  <1>14. CASE NeverBegin(p) \/ WriteReport(p) \/ Complete(p) \/ Finish(p)
    BY <1>1, <1>5, <1>13, <1>14 DEF NeverBegin, WriteReport, Complete, Finish, PCs
  <1>15. CASE Cancelled(p) \/ PauseReport(p) \/ PauseStatus(p) \/ Fail(p)
    BY <1>1, <1>5, <1>13, <1>15 DEF Cancelled, PauseReport, PauseStatus, Fail, PCs
  <1>16. CASE BodyError(p) \/ UncaughtError(p)
    <2>1. faults' \in 0 .. MaxFaults
      BY <1>1, <1>2, <1>16 DEF BodyError, UncaughtError, Fault
    <2> QED
      BY <1>1, <1>13, <1>16, <2>1 DEF BodyError, UncaughtError, PCs
  <1>17. CASE Kill(p) \/ Exit(p)
    <2>1. faults' \in 0 .. MaxFaults
      BY <1>1, <1>2, <1>17 DEF Kill, Exit, Fault
    <2> QED
      BY <1>1, <1>4, <1>7, <1>17, <2>1 DEF Kill, Exit
  <1>18. CASE Pause(p) \/ Shutdown(p)
    <2> DEFINE u == [task[p] EXCEPT !.cancel = TRUE]
    <2>1. u \in Task /\ u.failed <= u.completed
      BY <1>6
    <2>2. task' = [task EXCEPT ![p] = u]
      BY <1>1, <1>18 DEF Pause, Shutdown
    <2> HIDE DEF u
    <2> QED
      BY <1>1, <1>4, <1>18, <2>1, <2>2 DEF Pause, Shutdown
  <1> QED
    BY <1>9, <1>10, <1>11, <1>12, <1>14, <1>15, <1>16, <1>17, <1>18
    DEF ProcessStep, Request, TaskStep

\* What the files say fits the place of the task.
LEMMA PlaceStep ==
  ASSUME Alone, Inv, NEW p \in Procs, ProcessStep(p) PROVE PlaceFits'
  <1>0. TypeOK /\ PlaceFits /\ \A q \in Procs : q = p
    BY DEF Inv, Alone
  <1>1. /\ task[p] \in [pc : PCs, resume : BOOLEAN, cancel : BOOLEAN,
                        todo : SUBSET (1 .. N), completed : 0 .. N, failed : 0 .. N]
        /\ DOMAIN task = Procs /\ status \in [state : States, completed : 0 .. N, failed : 0 .. N]
    BY <1>0, TypeParts
  <1> USE <1>0, <1>1 DEF PlaceFits
  <1>2. CASE Start(p) \/ Resume(p)
    BY <1>2, Scheduled
  <1>3. CASE Begin(p)
    BY <1>3, BeginFits
  <1>4. CASE \E error \in BOOLEAN : Predict(p, error)
    BY <1>4 DEF Predict
  <1>5. CASE WriteProgress(p)
    BY <1>5 DEF WriteProgress, NextPc
  <1>6. CASE NeverBegin(p) \/ WriteReport(p) \/ Complete(p) \/ Finish(p)
    BY <1>6 DEF NeverBegin, WriteReport, Complete, Finish
  <1>7. CASE Cancelled(p) \/ PauseReport(p) \/ PauseStatus(p) \/ Fail(p)
    BY <1>7 DEF Cancelled, PauseReport, PauseStatus, Fail
  <1>8. CASE BodyError(p) \/ UncaughtError(p) \/ Kill(p) \/ Exit(p)
    BY <1>8 DEF BodyError, UncaughtError, Kill, Exit, NoTask
  <1>9. CASE Pause(p) \/ Shutdown(p)
    BY <1>9 DEF Pause, Shutdown
  <1> QED
    BY <1>2, <1>3, <1>4, <1>5, <1>6, <1>7, <1>8, <1>9 DEF ProcessStep, Request, TaskStep


\* Only _run_case changes the predictions.
LEMMA PredictionsKept ==
  ASSUME NEW p \in Procs, ProcessStep(p), ~ \E error \in BOOLEAN : Predict(p, error)
  PROVE  preds' = preds
  BY DEF ProcessStep, Request, TaskStep, Start, Pause, Resume, Begin, NeverBegin, WriteProgress,
         WriteReport, Complete, Finish, Cancelled, PauseReport, PauseStatus, Fail,
         BodyError, UncaughtError, Kill, Shutdown, Exit

\* No case is counted twice.
LEMMA CountedStep ==
  ASSUME Inv, NEW p \in Procs, ProcessStep(p) PROVE Counted'
  <1>1. CASE \E error \in BOOLEAN : Predict(p, error)
    BY <1>1, NextCase DEF Inv
  <1>2. CASE ~ \E error \in BOOLEAN : Predict(p, error)
    BY <1>2, PredictionsKept, SamePredictions DEF Inv
  <1> QED
    BY <1>1, <1>2

\* The task's cases are those left, and its counters those of the predictions.
LEMMA WorkStep ==
  ASSUME Alone, Inv, NEW p \in Procs, ProcessStep(p) PROVE LeftFits' /\ CountersFit'
  <1>0. TypeOK /\ LeftFits /\ CountersFit /\ \A q \in Procs : q = p
    BY DEF Inv, Alone
  <1>1. /\ task[p] \in [pc : PCs, resume : BOOLEAN, cancel : BOOLEAN,
                        todo : SUBSET (1 .. N), completed : 0 .. N, failed : 0 .. N]
        /\ DOMAIN task = Procs
    BY <1>0, TypeParts
  <1> USE <1>0, <1>1
  <1>2. CASE \E error \in BOOLEAN : Predict(p, error)
    <2>1. PICK error \in BOOLEAN : Predict(p, error)
      BY <1>2
    <2>2. /\ Cardinality(Processed') = Cardinality(Processed) + 1
          /\ Errors' = IF error THEN Errors + 1 ELSE Errors
          /\ Remaining' = task[p].todo \ {Min(task[p].todo)}
      BY <2>1, NextCase DEF Inv
    <2>3. /\ task[p].todo # {}
          /\ task[p].completed = Cardinality(Processed) /\ task[p].failed = Errors
      BY <2>1 DEF Predict, LeftFits, CountersFit
    <2>4. /\ task'[p].pc = "progress" /\ task'[p].todo = task[p].todo
          /\ task'[p].completed = task[p].completed + 1
          /\ task'[p].failed = IF error THEN task[p].failed + 1 ELSE task[p].failed
      BY <2>1 DEF Predict
    <2> QED
      BY <2>2, <2>3, <2>4 DEF LeftFits, CountersFit
  <1>3. ASSUME ~ \E error \in BOOLEAN : Predict(p, error)
        PROVE  Remaining' = Remaining /\ Processed' = Processed /\ Errors' = Errors
    BY <1>3, PredictionsKept, SamePredictions
  <1>4. CASE Begin(p)
    <2>1. Remaining' = Remaining /\ Processed' = Processed /\ Errors' = Errors
      BY <1>4, BeginFits, SamePredictions
    <2>2. /\ task'[p].pc = (IF Remaining = {} THEN "report" ELSE "case")
          /\ task'[p].todo = Remaining
          /\ task'[p].completed = Cardinality(Processed) /\ task'[p].failed = Errors
      BY <1>4, BeginFits
    <2> QED
      BY <2>1, <2>2 DEF LeftFits, CountersFit
  <1>5. CASE WriteProgress(p)
    <2>1. Remaining' = Remaining /\ Processed' = Processed /\ Errors' = Errors
      BY <1>5, SamePredictions DEF WriteProgress
    <2> DEFINE todo == task[p].todo \ {Min(task[p].todo)}
    <2>2. todo = Remaining
      BY <1>5 DEF WriteProgress, LeftFits
    <2>3. /\ task'[p].pc = NextPc(todo) /\ task'[p].todo = todo
          /\ task'[p].completed = task[p].completed /\ task'[p].failed = task[p].failed
      BY <1>5 DEF WriteProgress
    <2>4. task[p].completed = Cardinality(Processed) /\ task[p].failed = Errors
      BY <1>5 DEF WriteProgress, CountersFit
    <2> HIDE DEF todo
    <2> QED
      BY <2>1, <2>2, <2>3, <2>4 DEF LeftFits, CountersFit, NextPc
  <1>6. ASSUME preds' = preds,
               task'[p].pc \in {"none", "scheduled", "pausing", "paused", "failing", "done"}
        PROVE  LeftFits' /\ CountersFit'
    BY <1>6, SamePredictions DEF LeftFits, CountersFit
  <1>7. ASSUME preds' = preds, task' = [task EXCEPT ![p].cancel = TRUE]
        PROVE  LeftFits' /\ CountersFit'
    BY <1>7, SamePredictions DEF LeftFits, CountersFit
  <1>8. CASE WriteReport(p) \/ Complete(p)
    <2>1. /\ Remaining' = Remaining
          /\ task[p].pc \in {"report", "complete"} /\ task'[p].pc \in {"complete", "finish"}
      BY <1>8, SamePredictions DEF WriteReport, Complete
    <2> QED
      BY <2>1 DEF LeftFits, CountersFit
  <1>9. CASE Start(p) \/ Resume(p) \/ Kill(p) \/ Exit(p)
    BY <1>6, <1>9, Scheduled DEF Kill, Exit, NoTask
  <1>10. CASE NeverBegin(p) \/ Finish(p) \/ Cancelled(p) \/ PauseReport(p) \/ PauseStatus(p)
              \/ Fail(p) \/ BodyError(p) \/ UncaughtError(p)
    BY <1>6, <1>10
    DEF NeverBegin, Finish, Cancelled, PauseReport, PauseStatus, Fail, BodyError, UncaughtError
  <1>11. CASE Pause(p) \/ Shutdown(p)
    BY <1>7, <1>11 DEF Pause, Shutdown
  <1> QED
    BY <1>2, <1>4, <1>5, <1>8, <1>9, <1>10, <1>11 DEF ProcessStep, Request, TaskStep

\* Reports are those of the predictions, at the pauses and at the end.
LEMMA ReportStep ==
  ASSUME Alone, Inv, NEW p \in Procs, ProcessStep(p)
  PROVE  ReportFits' /\ CompletedFits' /\ PausedReportIsCurrent'
  <1>0. /\ TypeOK /\ PlaceFits /\ LeftFits /\ ReportFits /\ CompletedFits
        /\ PausedReportIsCurrent /\ \A q \in Procs : q = p
    BY DEF Inv, Alone
  <1>1. /\ task[p] \in [pc : PCs, resume : BOOLEAN, cancel : BOOLEAN,
                        todo : SUBSET (1 .. N), completed : 0 .. N, failed : 0 .. N]
        /\ DOMAIN task = Procs
        /\ status \in [state : States, completed : 0 .. N, failed : 0 .. N]
        /\ preds \in Seq(Prediction)
    BY <1>0, TypeParts
  <1> USE <1>0, <1>1 DEF ReportFits, ReportCurrent, CompletedFits, PausedReportIsCurrent
  <1>2. CASE \E error \in BOOLEAN : Predict(p, error)
    <2>1. PICK error \in BOOLEAN : Predict(p, error)
      BY <1>2
    <2>2. preds' # <<>>
      BY <2>1, NextCase DEF Inv
    <2>3. status'.state = "running" /\ task'[p].pc = "progress"
      BY <2>1 DEF Predict, PlaceFits
    <2> QED
      BY <2>2, <2>3
  <1>3. ASSUME preds' = preds PROVE Remaining' = Remaining
    BY <1>3, SamePredictions
  <1>4. CASE Start(p) \/ Resume(p)
    BY <1>3, <1>4, Scheduled
  <1>5. CASE Begin(p)
    <2>1. /\ status'.state = "running" /\ preds' = preds /\ report' = report
          /\ task'[p].pc \in {"report", "case"}
          /\ preds = <<>> => report = -1
      BY <1>5, BeginFits
    <2> QED
      BY <2>1
  <1>6. CASE WriteProgress(p)
    <2>1. /\ status'.state = "running" /\ preds' = preds /\ report' = report
          /\ task'[p].pc \in {"report", "case"} /\ task[p].pc = "progress"
      BY <1>6 DEF WriteProgress, PlaceFits, NextPc
    <2> QED
      BY <2>1
  <1>7. CASE WriteReport(p) \/ Complete(p) \/ Finish(p)
    <2>1. preds' = preds /\ Remaining' = Remaining
      BY <1>3, <1>7 DEF WriteReport, Complete, Finish
    <2> QED
      BY <1>7, <2>1 DEF WriteReport, Complete, Finish, PlaceFits, LeftFits
  <1>8. CASE Cancelled(p) \/ PauseReport(p) \/ PauseStatus(p) \/ Fail(p)
    <2>1. preds' = preds /\ Remaining' = Remaining
      BY <1>3, <1>8 DEF Cancelled, PauseReport, PauseStatus, Fail
    <2> QED
      BY <1>8, <2>1 DEF Cancelled, PauseReport, PauseStatus, Fail, PlaceFits
  <1>9. CASE BodyError(p)
    <2>1. /\ preds' = preds /\ Remaining' = Remaining /\ status' = status
          /\ task'[p].pc = "failing" /\ status.state \in {"running", "completed"}
          /\ report' = report \/ task[p].pc = "report"
      BY <1>3, <1>9 DEF BodyError, PlaceFits
    <2>2. task[p].pc = "report" => status.state = "running"
      BY DEF PlaceFits
    <2> QED
      BY <2>1, <2>2
  <1>10. CASE UncaughtError(p) \/ NeverBegin(p) \/ Kill(p) \/ Exit(p)
    <2>1. /\ preds' = preds /\ Remaining' = Remaining /\ status' = status /\ report' = report
          /\ task'[p].pc \in {"none", "done"}
      BY <1>3, <1>10 DEF UncaughtError, NeverBegin, Kill, Exit, NoTask
    <2> QED
      BY <2>1
  <1>11. CASE Pause(p) \/ Shutdown(p)
    <2>1. /\ preds' = preds /\ Remaining' = Remaining /\ status' = status /\ report' = report
          /\ task'[p].pc = task[p].pc
      BY <1>3, <1>11 DEF Pause, Shutdown
    <2> QED
      BY <2>1
  <1> QED
    BY <1>2, <1>4, <1>5, <1>6, <1>7, <1>8, <1>9, <1>10, <1>11 DEF ProcessStep, Request, TaskStep


\* The page's progress is the file's.
LEMMA PageStep ==
  ASSUME Alone, Inv, NEW p \in Procs, ProcessStep(p)
  PROVE  PageFits' /\ ProgressIsCurrent'
  <1> DEFINE Quiet == {"case", "report", "complete", "finish", "pausing", "paused"}
             Page(s, t) == s.state \in {"paused", "completed"} \/ t[p].pc \in Quiet
  <1>0. /\ TypeOK /\ PlaceFits /\ CountersFit /\ PageFits /\ ProgressIsCurrent
        /\ \A q \in Procs : q = p
    BY DEF Inv, Alone
  <1>1. /\ task[p] \in [pc : PCs, resume : BOOLEAN, cancel : BOOLEAN,
                        todo : SUBSET (1 .. N), completed : 0 .. N, failed : 0 .. N]
        /\ DOMAIN task = Procs
        /\ status \in [state : States, completed : 0 .. N, failed : 0 .. N]
    BY <1>0, TypeParts
  <1>2. Page(status, task) => Shown
    BY <1>0 DEF PageFits, ProgressIsCurrent, Shown
  <1>3. ASSUME Page(status', task') => Shown' PROVE PageFits' /\ ProgressIsCurrent'
    BY <1>0, <1>3 DEF PageFits, ProgressIsCurrent, Shown
  <1>4. ASSUME preds' = preds, status'.completed = status.completed,
               status'.failed = status.failed, Page(status', task') => Page(status, task)
        PROVE  PageFits' /\ ProgressIsCurrent'
    BY <1>2, <1>3, <1>4, SamePredictions DEF Shown
  <1>5. CASE Begin(p)
    <2>1. Processed' = Processed /\ Errors' = Errors
      BY <1>5, BeginFits, SamePredictions
    <2>2. status'.completed = Cardinality(Processed) /\ status'.failed = Errors
      BY <1>5, BeginFits
    <2> QED
      BY <1>3, <2>1, <2>2 DEF Shown
  <1>6. CASE \E error \in BOOLEAN : Predict(p, error)
    <2>1. PICK error \in BOOLEAN : Predict(p, error)
      BY <1>6
    <2>2. status' = status /\ status.state = "running"
      BY <1>0, <2>1 DEF Predict, PlaceFits
    <2>3. task'[p].pc = "progress"
      BY <1>1, <2>1 DEF Predict
    <2> QED
      BY <1>3, <2>2, <2>3
  <1>7. CASE WriteProgress(p)
    <2>1. Processed' = Processed /\ Errors' = Errors
      BY <1>7, SamePredictions DEF WriteProgress
    <2>2. status'.completed = task[p].completed /\ status'.failed = task[p].failed
      BY <1>1, <1>7 DEF WriteProgress
    <2>3. task[p].completed = Cardinality(Processed) /\ task[p].failed = Errors
      BY <1>0, <1>7 DEF WriteProgress, CountersFit
    <2> QED
      BY <1>3, <2>1, <2>2, <2>3 DEF Shown
  <1>8. CASE Start(p) \/ Resume(p)
    <2>1. /\ preds' = preds /\ status'.completed = status.completed
          /\ status'.failed = status.failed
          /\ status'.state \in {"queued", status.state}
      BY <1>1, <1>8 DEF Start, Resume
    <2>2. task'[p].pc = "scheduled"
      BY <1>0, <1>8, Scheduled
    <2> QED
      BY <1>4, <2>1, <2>2
  <1>9. CASE WriteReport(p) \/ Complete(p) \/ Finish(p) \/ Cancelled(p) \/ PauseReport(p)
             \/ PauseStatus(p)
    <2>1. /\ preds' = preds /\ status'.completed = status.completed
          /\ status'.failed = status.failed /\ task[p].pc \in Quiet
      BY <1>1, <1>9 DEF WriteReport, Complete, Finish, Cancelled, PauseReport, PauseStatus
    <2> QED
      BY <1>4, <2>1
  <1>10. CASE Fail(p) \/ NeverBegin(p) \/ BodyError(p) \/ UncaughtError(p) \/ Kill(p) \/ Exit(p)
    <2>1. /\ preds' = preds /\ status'.completed = status.completed
          /\ status'.failed = status.failed
          /\ status'.state \in {"failed", status.state}
          /\ task'[p].pc \in {"failing", "done", "none"}
      BY <1>1, <1>10
      DEF Fail, NeverBegin, BodyError, UncaughtError, Kill, Exit, NoTask
    <2> QED
      BY <1>4, <2>1
  <1>11. CASE Pause(p) \/ Shutdown(p)
    <2>1. preds' = preds /\ status' = status /\ task'[p].pc = task[p].pc
      BY <1>1, <1>11 DEF Pause, Shutdown
    <2> QED
      BY <1>4, <2>1
  <1> QED
    BY <1>5, <1>6, <1>7, <1>8, <1>9, <1>10, <1>11 DEF ProcessStep, Request, TaskStep

\* A run shown as running has its task.
LEMMA AliveStep ==
  ASSUME Alone, Inv, NEW p \in Procs, ProcessStep(p)
  PROVE  RunningHasTask'
  <1>0. /\ TypeOK /\ PlaceFits /\ RunningHasTask
        /\ \A q \in Procs : q = p
    BY DEF Inv, Alone
  <1>1. /\ task[p] \in [pc : PCs, resume : BOOLEAN, cancel : BOOLEAN,
                        todo : SUBSET (1 .. N), completed : 0 .. N, failed : 0 .. N]
        /\ DOMAIN task = Procs /\ faults \in Nat
        /\ status \in [state : States, completed : 0 .. N, failed : 0 .. N]
    BY <1>0, TypeParts
  <1> USE <1>0, <1>1
  <1>2. ASSUME Live(p)' \/ status'.state # "running" \/ faults' > 0
        PROVE  RunningHasTask'
    BY <1>2 DEF RunningHasTask
  <1>3. CASE Start(p) \/ Resume(p)
    BY <1>2, <1>3, Scheduled DEF Live
  <1>4. CASE Begin(p)
    <2>1. task'[p].pc \in {"report", "case"}
      BY <1>4, BeginFits
    <2> QED
      BY <1>2, <2>1 DEF Live
  <1>5. CASE \E error \in BOOLEAN : Predict(p, error)
    <2>1. task'[p].pc = "progress"
      BY <1>5 DEF Predict
    <2> QED
      BY <1>2, <2>1 DEF Live
  <1>6. CASE WriteProgress(p)
    <2>1. task'[p].pc \in {"report", "case"}
      BY <1>6 DEF WriteProgress, NextPc
    <2> QED
      BY <1>2, <2>1 DEF Live
  <1>7. CASE NeverBegin(p) \/ WriteReport(p) \/ Complete(p) \/ Finish(p)
    <2>1. /\ task'[p].pc \in {"complete", "finish", "done"}
          /\ task'[p].pc = "done" => status'.state # "running"
      BY <1>7 DEF NeverBegin, WriteReport, Complete, Finish, PlaceFits
    <2> QED
      BY <1>2, <2>1 DEF Live
  <1>8. CASE Cancelled(p) \/ PauseReport(p) \/ PauseStatus(p) \/ Fail(p)
    <2>1. /\ task'[p].pc \in {"pausing", "paused", "done"}
          /\ task'[p].pc = "done" => status'.state # "running"
      BY <1>8 DEF Cancelled, PauseReport, PauseStatus, Fail
    <2> QED
      BY <1>2, <2>1 DEF Live
  <1>9. CASE BodyError(p) \/ UncaughtError(p) \/ Kill(p)
    BY <1>2, <1>9 DEF BodyError, UncaughtError, Kill, Fault, NoTask
  <1>10. CASE Exit(p)
    <2>1. ~Live(p) /\ task'[p].pc = "none" /\ status' = status /\ faults' = faults
      BY <1>10 DEF Exit, NoTask
    <2>2. status.state # "running" \/ faults > 0
      BY <2>1 DEF RunningHasTask
    <2> QED
      BY <1>2, <2>1, <2>2
  <1>11. CASE Pause(p) \/ Shutdown(p)
    <2>1. /\ task'[p].pc = task[p].pc /\ status' = status /\ faults' = faults
      BY <1>11 DEF Pause, Shutdown
    <2> QED
      BY <2>1 DEF RunningHasTask, Live
  <1> QED
    BY <1>3, <1>4, <1>5, <1>6, <1>7, <1>8, <1>9, <1>10, <1>11
    DEF ProcessStep, Request, TaskStep

\* With one process the invariant holds.
LEMMA InvHolds == ASSUME Alone PROVE Spec => []Inv
  <1>1. Inv /\ [Next]_vars => Inv'
    <2> SUFFICES ASSUME Inv, [Next]_vars PROVE Inv'
      OBVIOUS
    <2>1. ASSUME NEW p \in Procs, ProcessStep(p) PROVE Inv'
      BY <2>1, TypeStep, CountedStep, PlaceStep, WorkStep, ReportStep, PageStep, AliveStep
      DEF Inv
    <2>2. CASE UNCHANGED vars
      <3>1. Remaining' = Remaining /\ Processed' = Processed /\ Errors' = Errors /\ Counted' = Counted
        BY <2>2, SamePredictions DEF vars
      <3> QED
        BY <2>2, <3>1
        DEF vars, Inv, TypeOK, PlaceFits, LeftFits, CountersFit, ReportFits, ReportCurrent,
            PageFits, Shown, CompletedFits, PausedReportIsCurrent, ProgressIsCurrent, RunningHasTask, Live
    <2> QED
      BY <2>1, <2>2 DEF Next, ProcessStep
  <1> QED
    BY <1>1, InvInit, PTL DEF Spec

-----------------------------------------------------------------------------
(* The theorems.                                                           *)

\* However often a run is paused, resumed, shut down or killed, no case is run
\* twice (processed_case_ids in DocSearchBenchmarkRunner.run).
THEOREM NoCaseTwice == ASSUME Alone PROVE Spec => []EachCaseOnce
  <1>1. Inv => EachCaseOnce
    BY DEF Inv, Counted
  <1> QED
    BY <1>1, InvHolds, PTL

\* The types and the bounds of the counters.
THEOREM Typing == ASSUME Alone PROVE Spec => []TypeOK
  <1>1. Inv => TypeOK
    BY DEF Inv
  <1> QED
    BY <1>1, InvHolds, PTL

\* A run without cases left has a prediction for each of them.
LEMMA NothingLeft == ASSUME TypeOK, Counted, Remaining = {} PROVE Processed = ToSet(Cases)
  <1>1. Processed \in SUBSET ToSet(Cases)
    BY TypeParts, CountsType
  <1> QED
    BY <1>1, CasesFinite DEF Remaining

\* A completed run is complete, and so is its report (the end of run).
THEOREM CompletedComplete == ASSUME Alone PROVE Spec => []CompletedIsComplete
  <1>1. Inv => CompletedIsComplete
    BY NothingLeft DEF Inv, CompletedFits, CompletedIsComplete
  <1> QED
    BY <1>1, InvHolds, PTL

\* A paused run's report is that of its predictions (the handler of CancelledError).
THEOREM PausedCurrent == ASSUME Alone PROVE Spec => []PausedReportIsCurrent
  <1>1. Inv => PausedReportIsCurrent
    BY DEF Inv
  <1> QED
    BY <1>1, InvHolds, PTL

\* While a case runs, and when the run is paused or completed, the progress shown is
\* that of the predictions file, errors included, however often it was resumed.
THEOREM ProgressCurrent == ASSUME Alone PROVE Spec => []ProgressIsCurrent
  <1>1. Inv => ProgressIsCurrent
    BY DEF Inv
  <1> QED
    BY <1>1, InvHolds, PTL

\* Without faults no run is left running without a task.
THEOREM NeverStuck == ASSUME Alone PROVE Spec => []RunningHasTask
  <1>1. Inv => RunningHasTask
    BY DEF Inv
  <1> QED
    BY <1>1, InvHolds, PTL


\* The run goes through the life cycle the admin pages show: each action is one
\* of RunLifecycle's or a stutter.
THEOREM Refinement == ASSUME Alone PROVE Spec => ImplementsLifecycle
  <1>1. Init => Lifecycle!Init
    BY DEF Init, Lifecycle!Init, Processed
  <1>2. Inv /\ [Next]_vars => [Lifecycle!Next]_<<status.state, Processed>>
    <2> SUFFICES ASSUME Inv, [Next]_vars
                 PROVE  [Lifecycle!Next]_<<status.state, Processed>>
      OBVIOUS
    <2>0. /\ TypeOK /\ Counted /\ PlaceFits /\ LeftFits
          /\ status \in [state : States, completed : 0 .. N, failed : 0 .. N]
      BY TypeParts DEF Inv
    <2> USE <2>0 DEF Lifecycle!Next
    <2>1. ASSUME status'.state = status.state, preds' = preds
          PROVE  UNCHANGED <<status.state, Processed>>
      BY <2>1, SamePredictions
    <2>2. ASSUME NEW p \in Procs, Start(p) \/ Resume(p)
          PROVE  Lifecycle!Create \/ UNCHANGED <<status.state, Processed>>
      BY <2>1, <2>2, Scheduled, SamePredictions DEF Lifecycle!Create
    <2>3. ASSUME NEW p \in Procs, Begin(p) PROVE Lifecycle!Begin
      <3>1. status'.state = "running" /\ Processed' = Processed
        BY <2>3, BeginFits, SamePredictions
      <3>2. status.state \in {"queued", "paused"}
        BY <2>3 DEF Begin, PlaceFits
      <3> QED
        BY <3>1, <3>2 DEF Lifecycle!Begin
    <2>4. ASSUME NEW p \in Procs, NEW error \in BOOLEAN, Predict(p, error)
          PROVE  Lifecycle!Predict
      <3>1. status.state = "running" /\ status' = status
        BY <2>4 DEF Predict, PlaceFits
      <3>2. \E c \in ToSet(Cases) \ Processed : Processed' = Processed \cup {c}
        BY <2>4, NextCase
      <3> QED
        BY <3>1, <3>2 DEF Lifecycle!Predict
    <2>5. ASSUME NEW p \in Procs, Complete(p) PROVE Lifecycle!Complete
      <3>1. status.state = "running" /\ Processed = ToSet(Cases)
        BY <2>5, NothingLeft DEF Complete, PlaceFits, LeftFits
      <3>2. status'.state = "completed" /\ Processed' = Processed
        BY <2>5, SamePredictions DEF Complete
      <3> QED
        BY <3>1, <3>2 DEF Lifecycle!Complete
    <2>6. ASSUME NEW p \in Procs, PauseStatus(p) PROVE Lifecycle!Pause
      BY <2>6, SamePredictions DEF PauseStatus, PlaceFits, Lifecycle!Pause
    <2>7. ASSUME NEW p \in Procs, Fail(p) PROVE Lifecycle!Fail
      BY <2>7, SamePredictions DEF Fail, PlaceFits, Lifecycle!Fail
    <2>8. ASSUME NEW p \in Procs,
                 \/ Pause(p) \/ NeverBegin(p) \/ WriteProgress(p) \/ WriteReport(p) \/ Finish(p)
                 \/ Cancelled(p) \/ PauseReport(p) \/ BodyError(p) \/ UncaughtError(p)
                 \/ Kill(p) \/ Shutdown(p) \/ Exit(p)
          PROVE  UNCHANGED <<status.state, Processed>>
      BY <2>1, <2>8
      DEF Pause, NeverBegin, WriteProgress, WriteReport, Finish, Cancelled, PauseReport,
          BodyError, UncaughtError, Kill, Shutdown, Exit
    <2>9. CASE UNCHANGED vars
      BY <2>1, <2>9 DEF vars
    <2> QED
      BY <2>2, <2>3, <2>4, <2>5, <2>6, <2>7, <2>8, <2>9 DEF Next, Request, TaskStep
  <1> QED
    BY <1>1, <1>2, InvHolds, PTL DEF Spec, ImplementsLifecycle, Lifecycle!Spec

=============================================================================
