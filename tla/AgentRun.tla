------------------------------ MODULE AgentRun ------------------------------
(***************************************************************************)
(* The agent runs that serve one request (agent/runtime/service.py):       *)
(* perhaps the repair answer gate, then the main agent or the renderer and *)
(* its retry.  A run asks the model again and again; the tool calls of a   *)
(* response (agent/runtime/factory.py) run as tasks of one event loop.     *)
(* They share the loop guard (agent/context/guard.py), which limits them,  *)
(* and the tool history, in which the reviews look for earlier results.    *)
(* The guard tells calls apart as they are written; a result is recorded   *)
(* under the code the parser finds in the text of the call, and a review   *)
(* looks for the text itself, in upper case.                               *)
(*                                                                         *)
(* A call runs without yielding up to its await of a service, if it has    *)
(* one, and again from its answer on.                                      *)
(***************************************************************************)
EXTENDS Integers, FiniteSets, Sequences

CONSTANTS
  Codes, Ecus, Entries, Queries, Questions,   \* arguments of the tools
  Upper,         \* codes and ECUs without blanks around them, in upper case
  Parsed,        \* the code a result about this text is recorded under, in upper case
  Vague,         \* queries in which the review finds nothing to compare
  MaxCalls,      \* max_tool_calls
  MaxExternal,   \* max_external_tool_calls
  MaxAsks,       \* max_ask_user_calls
  MaxSameTool,   \* max_same_tool_repeat
  MaxSameArgs,   \* max_same_args_repeat
  MaxNoGain,     \* max_no_gain_streak
  Parallel,      \* bound: tool calls in one response
  Known          \* bound: what the case context may know before the request

ASSUME BudgetAssumption ==
  /\ MaxCalls \in Nat /\ MaxExternal \in Nat /\ MaxAsks \in Nat
  /\ MaxSameTool \in Nat /\ MaxSameArgs \in Nat /\ MaxNoGain \in Nat
\* The parser reads upper case as it reads lower case, and finds nothing more in what it
\* made of a text; a text in which it finds no code is recorded as it is.
ASSUME SpellingAssumption ==
  /\ \A c \in Codes :
       /\ {Upper[c], Parsed[c]} \subseteq Codes
       /\ Parsed[Parsed[c]] = Parsed[c] /\ Parsed[Upper[c]] = Parsed[c]
       /\ Upper[Parsed[c]] = Parsed[c]
  /\ \A x \in Codes \cup Ecus : Upper[Upper[x]] = Upper[x]
  /\ \A e \in Ecus : Upper[e] \in Ecus
ASSUME ParallelAssumption == Parallel \in Nat \ {0}

VARIABLES
  run,      \* which agent runs
  pc,       \* it waits for the model, for its tool calls, or the request has ended
  queue,    \* calls of the response that have not begun
  waiting,  \* calls that await a service, each with its number
  passed,   \* calls the guard let pass so far, equal ones numbered
  broken,   \* exceptions raised by calls of the response
  asked,    \* a call of the response has been deferred
  guard,    \* the counters of the guard
  history,  \* runtime_tool_history
  context,  \* what the case context knew before the request
  outcome   \* how the request ended

vars == <<run, pc, queue, waiting, passed, broken, asked, guard, history, context, outcome>>

-----------------------------------------------------------------------------
(* Tools.                                                                  *)

Lookups   == [tool : {"lookup_ecu_candidates"}, code : Codes]
Diagnoses == [tool : {"dtc_diagnosis"}, code : Codes, ecu : Ecus]
Titles    == [tool : {"lookup_repair_knowledge_titles"}, query : Queries]
Reads     == [tool : {"get_repair_knowledge_context"}, entry : Entries]
Params    == [tool : {"query_parameters"}, query : Queries]
Asks      == [tool : {"ask_user_question"}, question : Questions]

External == Lookups \cup Diagnoses
Calls    == External \cup Titles \cup Reads \cup Params \cup Asks
Tools    == {c.tool : c \in Calls}

\* The tools each agent is given.
ToolsOf(r) ==
  CASE r = "gate" -> Titles \cup Reads \cup Asks
    [] r = "main" -> Calls
    [] OTHER      -> Calls \ Asks

\* The answers of the services, and those made by a review instead.
Lookup    == {"nothing", "one", "many"}   \* ECUs found; a failed lookup has none
Diagnosis == {"failed", "ok"}
Results   == Lookup \cup Diagnosis \cup {"empty", "clarify", "match", "nomatch", "blocked"}

ResultsOf(c) ==
  CASE c \in Lookups          -> Lookup
    [] c \in Diagnoses        -> Diagnosis
    [] c \in Titles \cup Reads -> {"ok", "empty"}
    [] OTHER                  -> {"failed", "clarify", "match", "nomatch"}

\* _infer_info_gain.
NoGain(result) == result \in {"failed", "nothing", "empty", "nomatch", "blocked"}

-----------------------------------------------------------------------------
(* LoopGuard.                                                              *)

NewGuard == [total |-> 0, external |-> 0, asks |-> 0, streak |-> 0,
             tools |-> [t \in Tools |-> 0], args |-> [c \in Calls |-> 0]]

OverCalls(c)    == guard.total >= MaxCalls
\* Mutant: off by one.
OverExternalLate(c) == c \in External /\ guard.external > MaxExternal
OverExternal(c) == c \in External /\ guard.external >= MaxExternal
OverAsks(c)     == c \in Asks /\ guard.asks >= MaxAsks
OverTool(c)     == guard.tools[c.tool] >= MaxSameTool
OverArgs(c)     == guard.args[c] >= MaxSameArgs

\* before_tool_call raises at the first limit that is exceeded ...
Over(c) == OverCalls(c) \/ OverExternal(c) \/ OverAsks(c) \/ OverTool(c) \/ OverArgs(c)

One(condition) == IF condition THEN 1 ELSE 0

\* Mutant: equal calls are counted before the other limits are checked.
CountedArgsFirst(c) ==
  [guard EXCEPT !.total = @ + 1,
                !.external = @ + One(~OverCalls(c) /\ c \in External),
                !.asks = @ + One(c \in Asks),
                !.tools[c.tool] = @ + One(~OverCalls(c) /\ ~OverExternal(c) /\ ~OverAsks(c)),
                !.args[c] = @ + 1]

\* ... each counter is counted up before its limit is checked.
Counted(c) ==
  LET toExternal == ~OverCalls(c)
      toAsks     == toExternal /\ ~OverExternal(c)
      toTool     == toAsks /\ ~OverAsks(c)
      toArgs     == toTool /\ ~OverTool(c)
  IN  [total    |-> guard.total + 1,
       external |-> guard.external + One(toExternal /\ c \in External),
       asks     |-> guard.asks + One(toAsks /\ c \in Asks),
       streak   |-> guard.streak,
       tools    |-> [guard.tools EXCEPT ![c.tool] = @ + One(toTool)],
       args     |-> [guard.args EXCEPT ![c] = @ + One(toArgs)]]

\* The error code tells a run-away question from the rest.
Raised(c) ==
  IF ~OverCalls(c) /\ ~OverExternal(c) /\ OverAsks(c) THEN "ask limit" ELSE "limit"

\* Mutant: a call that a review blocks is taken for progress.
StreakOfServices(g, result) ==
  [g EXCEPT !.streak = IF NoGain(result) /\ result # "blocked" THEN @ + 1 ELSE 0]

\* after_tool_call.
Streak(g, result) == [g EXCEPT !.streak = IF NoGain(result) THEN @ + 1 ELSE 0]

-----------------------------------------------------------------------------
(* The reviews.                                                            *)

Recorded(c) == {i \in DOMAIN history : history[i].call = c}

\* The last of these results, as a set of at most one.
Latest(is) == {history[i].result : i \in {i \in is : \A j \in is : j <= i}}

\* The codes results are recorded under, the diagnosis service being switched on.
Recordings == {Parsed[c] : c \in Codes}

\* Lookups recorded under the code as the call writes it.
LookupsOf(c) ==
  {i \in DOMAIN history : history[i].call \in Lookups /\ Parsed[history[i].call.code] = Upper[c.code]}

\* The latest of them, in this request or before it.
LatestLookup(c) ==
  IF LookupsOf(c) # {} THEN Latest(LookupsOf(c))
  ELSE {context.lookup[k] : k \in Recordings \cap {Upper[c.code]}}

\* Diagnoses recorded under code and ECU as the call writes them.  One that was blocked
\* for want of an ECU does not count.
DiagnosesOf(c) ==
  {i \in DOMAIN history :
     /\ history[i].call \in Diagnoses /\ history[i].result \in Diagnosis
     /\ Parsed[history[i].call.code] = Upper[c.code]
     /\ Upper[history[i].call.ecu] = Upper[c.ecu]}

LatestDiagnosis(c) ==
  IF DiagnosesOf(c) # {} THEN Latest(DiagnosesOf(c))
  ELSE {context.diagnosis[k][Upper[c.ecu]] : k \in Recordings \cap {Upper[c.code]}}

\* The ECU the user has chosen, and the latest results before the request.
Contexts ==
  LET ecus == {Upper[e] : e \in Ecus}
  IN  [ecu : {{}} \cup {{e} : e \in ecus},
       lookup : [Recordings -> Lookup \cup {"none"}],
       diagnosis : [Recordings -> [ecus -> Diagnosis \cup {"none"}]]]

ASSUME KnownAssumption == Known \subseteq Contexts

\* Mutant: the review forgets what this request has found out.
ReviewContext(c) ==
  LET known == Recordings \cap {Upper[c.code]}
      lookup == {context.lookup[k] : k \in known}
  IN  IF "nothing" \in lookup THEN {"blocked"}
      ELSE IF "many" \in lookup /\ Upper[c.ecu] \notin context.ecu THEN {"clarify"}
      ELSE {context.diagnosis[k][Upper[c.ecu]] : k \in known} \cap Diagnosis

\* review_fault_diagnosis_execution: what it returns instead of a diagnosis, if it
\* blocks it.
ReviewDiagnosis(c) ==
  LET lookup == LatestLookup(c)
  IN  IF "nothing" \in lookup THEN {"blocked"}
      ELSE IF "many" \in lookup /\ Upper[c.ecu] \notin context.ecu THEN {"clarify"}
      ELSE LatestDiagnosis(c) \cap Diagnosis

\* review_parameter_query_execution: the latest result that is none of a failure.  A
\* vague query (no source, target or row) is never blocked.
ReviewParams(c) ==
  IF c.query \in Vague THEN {}
  ELSE Latest({i \in Recorded(c) : history[i].result # "failed"})

Review(c) ==
  IF c \in Diagnoses THEN ReviewDiagnosis(c)
  ELSE IF c \in Params THEN ReviewParams(c)
  ELSE {}

-----------------------------------------------------------------------------
(* A run.                                                                  *)

Init ==
  /\ run \in {"gate", "main"}
  /\ pc = "model"
  /\ queue = <<>> /\ waiting = {} /\ passed = {} /\ broken = {} /\ asked = FALSE
  /\ guard = NewGuard
  /\ history = <<>>
  /\ context \in Known
  /\ outcome = "none"

End(o) == pc' = "ended" /\ outcome' = o /\ UNCHANGED run

Go(r) == run' = r /\ pc' = "model" /\ UNCHANGED outcome

\* The model answers with tool calls.
Respond ==
  /\ pc = "model"
  /\ \E n \in 1 .. Parallel : queue' \in [1 .. n -> ToolsOf(run)]
  /\ pc' = "tools"
  /\ UNCHANGED <<run, waiting, passed, broken, asked, guard, history, context, outcome>>

\* The model answers with a text.  That of the gate lets the renderer answer, or a
\* review of it asks the user; that of the renderer may be asked for again, once.
Answer ==
  /\ pc = "model"
  /\ CASE run = "gate"   -> Go("render") \/ End("question")
       [] run = "render" -> Go("retry") \/ End("text")
       [] OTHER          -> End("text")
  /\ UNCHANGED <<queue, waiting, passed, broken, asked, guard, history, context>>

HasChoice ==
  \E i \in DOMAIN history : history[i].call \in External /\ history[i].result \in {"many", "clarify"}

\* Mutant: a retry whose model fails starts over with the renderer.
BreakRetries(e) ==
  CASE run = "gate"  -> Go("main")
    [] run = "retry" -> IF e = "error" THEN Go("render") ELSE End("text")
    [] OTHER -> IF e = "error" THEN End("error") ELSE End("guard")

\* What follows an exception: the gate gives way to the main agent, the retry to
\* the text it was to improve; any other than the guard's ends with an error.  The
\* guard's ends with the card of ECUs to choose from, if one may be in the messages of
\* the run (which of the results are is left open), with a question, or without.
Break(e) ==
  CASE run = "gate"  -> Go("main")
    [] run = "retry" -> End("text")
    [] OTHER -> IF e = "error" THEN End("error")
                ELSE \/ End("guard")
                     \/ HasChoice /\ End("card")
                     \/ e # "ask limit" /\ guard.asks < MaxAsks /\ End("guard question")

\* The model fails.
ModelError ==
  /\ pc = "model"
  /\ Break("error")
  /\ UNCHANGED <<queue, waiting, passed, broken, asked, guard, history, context>>

\* _record_tool_result: a streak that is too long raises, and the result is lost.
\* A question about parameters defers the call, whoever made it.
Record(g, c, result, open) ==
  LET after == Streak(g, result)
      lost  == NoGain(result) /\ after.streak > MaxNoGain
  IN  /\ guard' = after
      /\ waiting' = open
      /\ history' = IF lost THEN history ELSE Append(history, [call |-> c, result |-> result])
      /\ broken' = IF lost THEN broken \cup {"limit"} ELSE broken
      /\ asked' = (asked \/ (c \in Params /\ result = "clarify"))

\* The next call begins: the guard, the review, and if there is a service to wait
\* for, the request to it.
Begin ==
  LET c == Head(queue)
      g == Counted(c)
      x == [n |-> g.args[c], call |-> c]
  IN  /\ pc = "tools" /\ queue # <<>>
      /\ queue' = Tail(queue)
      /\ IF Over(c)
         THEN /\ guard' = g
              /\ broken' = broken \cup {Raised(c)}
              /\ UNCHANGED <<waiting, passed, asked, history>>
         ELSE /\ passed' = passed \cup {x}
              /\ IF c \in Asks
                 THEN /\ guard' = g /\ asked' = TRUE
                      /\ UNCHANGED <<waiting, broken, history>>
                 ELSE IF c \in Titles \cup Reads
                 THEN \E result \in ResultsOf(c) : Record(g, c, result, waiting)
                 ELSE IF Review(c) # {}
                 THEN \E result \in Review(c) : Record(g, c, result, waiting)
                 ELSE /\ guard' = g /\ waiting' = waiting \cup {x}
                      /\ UNCHANGED <<broken, asked, history>>
      /\ UNCHANGED <<run, pc, context, outcome>>

\* A service answers.
Receive(x) ==
  /\ pc = "tools" /\ x \in waiting
  /\ \E result \in ResultsOf(x.call) : Record(guard, x.call, result, waiting \ {x})
  /\ UNCHANGED <<run, pc, queue, passed, context, outcome>>

\* A tool raises an exception.
ToolError(x) ==
  /\ pc = "tools" /\ x \in waiting
  /\ waiting' = waiting \ {x}
  /\ broken' = broken \cup {"error"}
  /\ UNCHANGED <<run, pc, queue, passed, asked, guard, history, context, outcome>>

\* All calls of the response have returned.  The renderer cannot be deferred.
Return ==
  /\ pc = "tools" /\ queue = <<>> /\ waiting = {} /\ broken = {}
  /\ asked' = FALSE
  /\ IF ~asked THEN Go(run)
     ELSE IF run \in {"gate", "main"} THEN End("question")
     ELSE Break("error")
  /\ UNCHANGED <<queue, waiting, passed, broken, guard, history, context>>

\* An exception ends the run.  What comes back from calls still open is not waited
\* for.
Raise ==
  /\ pc = "tools" /\ queue = <<>>
  /\ \E e \in broken : Break(e)
  /\ waiting' = {} /\ broken' = {} /\ asked' = FALSE
  /\ UNCHANGED <<queue, passed, guard, history, context>>

Step ==
  \/ Respond \/ Answer \/ ModelError \/ Begin \/ Return \/ Raise
  \/ \E x \in waiting : Receive(x) \/ ToolError(x)

Ended == pc = "ended" /\ UNCHANGED vars

Next == Step \/ Ended

Spec == Init /\ [][Next]_vars

\* The event loop runs what is ready; the model and the services answer, or time out.
FairSpec == Spec /\ WF_vars(Step)

-----------------------------------------------------------------------------
(* Properties.                                                             *)

PCs      == {"model", "tools", "ended"}
Runs     == {"gate", "main", "render", "retry"}
Outcomes == {"none", "text", "question", "guard", "card", "guard question", "error"}

Numbered == [n : Nat, call : Calls]

Guards == [total : Nat, external : Nat, asks : Nat, streak : Nat,
           tools : [Tools -> Nat], args : [Calls -> Nat]]

\* Types.  Equal calls have different numbers; a counter that is checked later is at most one that is checked earlier.
TypeOK ==
  /\ run \in Runs /\ pc \in PCs /\ outcome \in Outcomes
  /\ queue \in Seq(Calls)
  /\ passed \subseteq Numbered /\ waiting \subseteq passed
  /\ broken \subseteq {"limit", "ask limit", "error"} /\ asked \in BOOLEAN
  /\ guard \in Guards
  /\ \A x \in passed : x.n <= guard.args[x.call]
  /\ \A c \in Calls : guard.args[c] <= guard.tools[c.tool] /\ guard.tools[c.tool] <= guard.total
  /\ guard.external <= guard.total /\ guard.asks <= guard.total
  /\ history \in Seq([call : Calls, result : Results])
  /\ context \in Contexts

Made(C) == {x \in passed : x.call \in C}

OfTool(t) == {c \in Calls : c.tool = t}

\* Whatever the model asks for, in parallel and in one run after the other, the
\* request never makes more calls than each budget allows, and the question the guard
\* makes up to end a run (_try_build_guard_ask_user_response) is within the budget of
\* questions.
WithinBudgets ==
  /\ Cardinality(Made(Calls)) <= MaxCalls
  /\ Cardinality(Made(External)) <= MaxExternal
  /\ Cardinality(Made(Asks)) + One(outcome = "guard question") <= MaxAsks
  /\ \A t \in Tools : Cardinality(Made(OfTool(t))) <= MaxSameTool
  /\ \A c \in Calls : Cardinality(Made({c})) <= MaxSameArgs

\* The results the agents see and the answer is made from never hold more than
\* max_no_gain_streak in a row that bring nothing new, in the order in which parallel
\* calls return and across the change from one run to the next (after_tool_call).
NoGainIsBounded ==
  \A i \in DOMAIN history :
    i > MaxNoGain => \E j \in i - MaxNoGain .. i : ~NoGain(history[j].result)

\* Results about the fault the call is about, however its code is written.
SameFault(c) ==
  {i \in DOMAIN history :
     history[i].call \in External /\ Parsed[history[i].call.code] = Parsed[c.code]}

\* The user has chosen the ECU, or the latest lookup of the fault left no choice.
NotGuessed(c) ==
  \A i \in SameFault(c) : history[i].call \in Lookups /\ history[i].result = "many" =>
    \/ Upper[c.ecu] \in context.ecu
    \/ \E j \in SameFault(c) : j > i /\ history[j].call \in Lookups /\ history[j].result = "one"

\* No result of a diagnosis of this fault and ECU is recorded.
NotDiagnosed(c) ==
  \A i \in SameFault(c) : history[i].call \in Diagnoses /\ Upper[history[i].call.ecu] = Upper[c.ecu]
    => history[i].result \notin Diagnosis

\* A diagnosis whose code is written the way the parser writes it is never asked of the
\* service again once its result has been recorded, nor for an ECU the user has not chosen
\* once a lookup has found several, however the code was written in the earlier calls
\* (review_fault_diagnosis_execution).  Calls of one response can still overtake each
\* other.
DiagnosesAreReviewed ==
  [][ \A x \in waiting' \ waiting :
        x.call \in Diagnoses /\ Upper[x.call.code] = Parsed[x.call.code]
          => NotDiagnosed(x.call) /\ NotGuessed(x.call) ]_vars

\* Every request is answered, however long the model goes on asking for tools.
AlwaysAnswers == <>(pc = "ended")
=============================================================================
