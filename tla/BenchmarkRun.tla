---------------------------- MODULE BenchmarkRun ----------------------------
(***************************************************************************)
(* One DocSearch benchmark run: the files of its directory, the admin      *)
(* endpoints that start, pause and resume it (api/admin_benchmark.py), and *)
(* the asyncio task that works through the cases (benchmark/doc_search.py).*)
(*                                                                         *)
(* The files are shared by all uvicorn processes; the task map is memory   *)
(* of one.  A task yields only while it awaits _run_case, so a process     *)
(* serves requests only when its task is there or not begun; a kill may    *)
(* come between any two file writes.  Reading or writing one file is one   *)
(* step.                                                                   *)
(***************************************************************************)
EXTENDS Integers, Sequences, FiniteSets, SequencesExt, FiniteSetsExt

CONSTANTS
  Procs,      \* uvicorn processes
  Cases,      \* the dataset: a sequence of distinct case ids
  MaxFaults   \* bound: kills and failed file operations

ASSUME CasesAssumption == Cases \in Seq(ToSet(Cases)) /\ IsInjective(Cases)
ASSUME BoundAssumption == MaxFaults \in Nat

VARIABLES
  status,     \* status.json: the run's state and its progress
  preds,      \* predictions.jsonl
  report,     \* report.json: how many predictions it evaluates, -1 if absent
  task,       \* task[p]: the run's task in p's task map
  stopping,   \* stopping[p]: p shuts down gracefully
  faults      \* kills and failed file operations so far

vars == <<status, preds, report, task, stopping, faults>>

N == Len(Cases)

\* A task's cases still to do are positions in the dataset; it takes the least.
NoTask == [pc |-> "none", resume |-> FALSE, cancel |-> FALSE,
           todo |-> {}, completed |-> 0, failed |-> 0]

Init ==
  /\ status = [state |-> "none", completed |-> 0, failed |-> 0]
  /\ preds = <<>>
  /\ report = -1
  /\ task = [p \in Procs |-> NoTask]
  /\ stopping = [p \in Procs |-> FALSE]
  /\ faults = 0

-----------------------------------------------------------------------------
(* The admin endpoints.                                                    *)

Live(p) == task[p].pc \notin {"none", "done"}

\* p's event loop is free: its task, if any, waits for its first step or for a case.
Serving(p) == ~stopping[p] /\ task[p].pc \in {"none", "done", "scheduled", "case"}

\* schedule_benchmark_run.
Schedule(p, resume) ==
  task' = [task EXCEPT ![p] = [NoTask EXCEPT !.pc = "scheduled", !.resume = resume]]

\* POST runs: create_run and schedule.
Start(p) ==
  /\ Serving(p)
  /\ status.state = "none"
  /\ status' = [status EXCEPT !.state = "queued"]
  /\ Schedule(p, FALSE)
  /\ UNCHANGED <<preds, report, stopping, faults>>

\* POST pause: cancels the task of this process; 404 without one, 409 if it is
\* done.  A new run has begun before anyone knows its id.
Pause(p) ==
  /\ Serving(p)
  /\ Live(p)
  /\ task[p].pc = "scheduled" => task[p].resume
  /\ task' = [task EXCEPT ![p].cancel = TRUE]
  /\ UNCHANGED <<status, preds, report, stopping, faults>>

\* Mutant: a failed run can be resumed too.
PausedOrFailed(state) == state \in {"paused", "failed"}

MayResume(state) == state = "paused"

\* POST resume: 409 unless the run is paused and this process has no live task.
Resume(p) ==
  /\ Serving(p)
  /\ MayResume(status.state)
  /\ ~Live(p)
  /\ Schedule(p, TRUE)
  /\ UNCHANGED <<status, preds, report, stopping, faults>>

-----------------------------------------------------------------------------
(* DocSearchBenchmarkRunner.run.                                           *)

Processed == {preds[i].case : i \in DOMAIN preds}

Errors == Cardinality({i \in DOMAIN preds : preds[i].error})

\* Mutants: everything is run again; the case the pause interrupted is skipped.
Everything == 1 .. N
AfterInterrupted == {i \in Len(preds) + 2 .. N : Cases[i] \notin Processed}

Remaining == {i \in 1 .. N : Cases[i] \notin Processed}

\* Mutant: a resumed run counts from zero.
FromZero(resume) == [completed |-> 0, failed |-> 0]

Progress(resume) ==
  IF resume THEN [completed |-> Cardinality(Processed), failed |-> Errors]
  ELSE [completed |-> 0, failed |-> 0]

NextPc(todo) == IF todo = {} THEN "report" ELSE "case"

\* The task's first step reads the predictions of a resumed run and marks the
\* run as running, up to the first case.
Begin(p) ==
  LET t == task[p]
      todo == IF t.resume THEN Remaining ELSE 1 .. N
      n == Progress(t.resume)
  IN  /\ t.pc = "scheduled" /\ ~t.cancel
      /\ status' = [state |-> "running", completed |-> n.completed, failed |-> n.failed]
      /\ task' = [task EXCEPT ![p] = [t EXCEPT !.pc = NextPc(todo), !.todo = todo,
                                       !.completed = n.completed, !.failed = n.failed]]
      /\ UNCHANGED <<preds, report, stopping, faults>>

\* A task cancelled before its first step never runs.
NeverBegin(p) ==
  /\ task[p].pc = "scheduled" /\ task[p].cancel
  /\ task' = [task EXCEPT ![p].pc = "done"]
  /\ UNCHANGED <<status, preds, report, stopping, faults>>

\* _run_case returns, with an error or not, and its prediction is appended.
Predict(p, error) ==
  LET t == task[p]
  IN  /\ t.pc = "case" /\ ~t.cancel
      /\ preds' = Append(preds, [case |-> Cases[Min(t.todo)], error |-> error])
      /\ task' = [task EXCEPT ![p] = [t EXCEPT !.pc = "progress", !.completed = @ + 1,
                                       !.failed = IF error THEN @ + 1 ELSE @]]
      /\ UNCHANGED <<status, report, stopping, faults>>

\* The progress is written, and the next case begins.
WriteProgress(p) ==
  LET t == task[p]
      todo == t.todo \ {Min(t.todo)}
  IN  /\ t.pc = "progress"
      /\ status' = [status EXCEPT !.completed = t.completed, !.failed = t.failed]
      /\ task' = [task EXCEPT ![p] = [t EXCEPT !.pc = NextPc(todo), !.todo = todo]]
      /\ UNCHANGED <<preds, report, stopping, faults>>

\* After the last case: _write_run_reports ...
WriteReport(p) ==
  /\ task[p].pc = "report"
  /\ report' = Len(preds)
  /\ task' = [task EXCEPT ![p].pc = "complete"]
  /\ UNCHANGED <<status, preds, stopping, faults>>

\* ... then the status, then an event.
Complete(p) ==
  /\ task[p].pc = "complete"
  /\ status' = [status EXCEPT !.state = "completed"]
  /\ task' = [task EXCEPT ![p].pc = "finish"]
  /\ UNCHANGED <<preds, report, stopping, faults>>

Finish(p) ==
  /\ task[p].pc = "finish"
  /\ task' = [task EXCEPT ![p].pc = "done"]
  /\ UNCHANGED <<status, preds, report, stopping, faults>>

\* The await of the case raises CancelledError.
Cancelled(p) ==
  /\ task[p].pc = "case" /\ task[p].cancel
  /\ task' = [task EXCEPT ![p].pc = "pausing"]
  /\ UNCHANGED <<status, preds, report, stopping, faults>>

\* Mutant: no report is written for the predictions made so far.
NoPauseReport(p) ==
  /\ task[p].pc = "pausing"
  /\ task' = [task EXCEPT ![p].pc = "paused"]
  /\ UNCHANGED <<status, preds, report, stopping, faults>>

\* except CancelledError: a report if there is any prediction, ...
PauseReport(p) ==
  /\ task[p].pc = "pausing"
  /\ report' = IF preds = <<>> THEN report ELSE Len(preds)
  /\ task' = [task EXCEPT ![p].pc = "paused"]
  /\ UNCHANGED <<status, preds, stopping, faults>>

\* Mutant: the handler is missing, the cancelled task just ends.
PauseSilently(p) ==
  /\ task[p].pc = "paused"
  /\ task' = [task EXCEPT ![p].pc = "done"]
  /\ UNCHANGED <<status, preds, report, stopping, faults>>

\* ... then the status.
PauseStatus(p) ==
  /\ task[p].pc = "paused"
  /\ status' = [status EXCEPT !.state = "paused"]
  /\ task' = [task EXCEPT ![p].pc = "done"]
  /\ UNCHANGED <<preds, report, stopping, faults>>

\* except Exception.
Fail(p) ==
  /\ task[p].pc = "failing"
  /\ status' = [status EXCEPT !.state = "failed"]
  /\ task' = [task EXCEPT ![p].pc = "done"]
  /\ UNCHANGED <<preds, report, stopping, faults>>

-----------------------------------------------------------------------------
(* Faults and shutdown.                                                    *)

Fault == faults < MaxFaults /\ faults' = faults + 1

\* A file operation, or the evaluation, of the try body raises.  The reports may
\* have been written before the one that fails.
BodyError(p) ==
  /\ Fault
  /\ task[p].pc \in {"case", "progress", "report", "complete", "finish"}
  /\ task[p].pc = "case" => ~task[p].cancel
  /\ report' \in IF task[p].pc = "report" THEN {report, Len(preds)} ELSE {report}
  /\ task' = [task EXCEPT ![p].pc = "failing"]
  /\ UNCHANGED <<status, preds, stopping>>

\* The same before the try, or in a handler: nothing catches it, the task is dead.
UncaughtError(p) ==
  /\ Fault
  /\ task[p].pc \in {"scheduled", "pausing", "paused", "failing"}
  /\ task[p].pc = "scheduled" => ~task[p].cancel
  /\ task' = [task EXCEPT ![p].pc = "done"]
  /\ UNCHANGED <<status, preds, report, stopping>>

\* The process is killed, and started again with an empty task map.
Kill(p) ==
  /\ Fault
  /\ task[p].pc # "none"
  /\ task' = [task EXCEPT ![p] = NoTask]
  /\ stopping' = [stopping EXCEPT ![p] = FALSE]
  /\ UNCHANGED <<status, preds, report>>

\* A graceful shutdown: asyncio.run cancels every task, waits for it, and exits.
Shutdown(p) ==
  /\ Serving(p)
  /\ Live(p)
  /\ stopping' = [stopping EXCEPT ![p] = TRUE]
  /\ task' = [task EXCEPT ![p].cancel = TRUE]
  /\ UNCHANGED <<status, preds, report, faults>>

Exit(p) ==
  /\ stopping[p] /\ ~Live(p)
  /\ stopping' = [stopping EXCEPT ![p] = FALSE]
  /\ task' = [task EXCEPT ![p] = NoTask]
  /\ UNCHANGED <<status, preds, report, faults>>

Request(p) == Start(p) \/ Pause(p) \/ Resume(p)

TaskStep(p) ==
  \/ Begin(p) \/ NeverBegin(p) \/ (\E error \in BOOLEAN : Predict(p, error))
  \/ WriteProgress(p) \/ WriteReport(p) \/ Complete(p) \/ Finish(p)
  \/ Cancelled(p) \/ PauseReport(p) \/ PauseStatus(p) \/ Fail(p)

Next ==
  \E p \in Procs :
    \/ Request(p) \/ TaskStep(p)
    \/ BodyError(p) \/ UncaughtError(p) \/ Kill(p) \/ Shutdown(p) \/ Exit(p)

Spec == Init /\ [][Next]_vars

\* The event loop runs its task, and every case returns (its requests time out).
FairSpec == Spec /\ \A p \in Procs : WF_vars(TaskStep(p)) /\ WF_vars(Exit(p))

-----------------------------------------------------------------------------
(* Properties.                                                             *)

States == {"none", "queued", "running", "paused", "failed", "completed"}

PCs == {"none", "scheduled", "case", "progress", "report", "complete", "finish",
        "pausing", "paused", "failing", "done"}

\* Types; a task counts no more cases than there are.
TypeOK ==
  /\ status \in [state : States, completed : 0 .. N, failed : 0 .. N]
  /\ preds \in Seq([case : ToSet(Cases), error : BOOLEAN])
  /\ report \in -1 .. Len(preds)
  /\ task \in [Procs -> [pc : PCs, resume : BOOLEAN, cancel : BOOLEAN,
                          todo : SUBSET (1 .. N), completed : 0 .. N, failed : 0 .. N]]
  /\ \A p \in Procs : task[p].failed <= task[p].completed
  /\ stopping \in [Procs -> BOOLEAN]
  /\ faults \in 0 .. MaxFaults

\* However often the run is paused, resumed and shut down, no case is run twice
\* (processed_case_ids).
EachCaseOnce == IsInjective([i \in DOMAIN preds |-> preds[i].case])

\* A completed run has a prediction for every case, and its report covers them all.
CompletedIsComplete ==
  status.state = "completed" => Processed = ToSet(Cases) /\ report = Len(preds)

\* A paused run offers a report of exactly the predictions made so far; only
\* a run paused before its first prediction has none (_ensure_report_excel).
PausedReportIsCurrent ==
  status.state = "paused" => report = IF preds = <<>> THEN -1 ELSE Len(preds)

\* Whenever the page waits for the run - a case is running, or the run is paused or
\* completed - it shows the counts of the predictions file: a resumed run counts
\* again from the file, errors included, and a pause never hits between the two.
ProgressIsCurrent ==
  (status.state \in {"paused", "completed"} \/ \E p \in Procs : task[p].pc = "case")
    => status.completed = Cardinality(Processed) /\ status.failed = Errors

\* A run shown as running has a task that works on it, unless a fault struck:
\* pausing, resuming and shutting down never leave it stuck.
RunningHasTask ==
  status.state = "running" /\ faults = 0 => \E p \in Procs : Live(p)

\* "This run already has an active task" (the 409 of resume_doc_search_run): a
\* run has one live task at most.
OneLiveTask == Cardinality({p \in Procs : Live(p)}) <= 1

\* The run goes through the life cycle the admin pages show.
Lifecycle ==
  INSTANCE RunLifecycle WITH Cases <- ToSet(Cases), phase <- status.state, done <- Processed

ImplementsLifecycle == Lifecycle!Spec

\* A run that is running ends, or is paused, or a fault struck.
Settles ==
  status.state = "running" ~> status.state \in {"completed", "failed", "paused"} \/ faults > 0
=============================================================================
