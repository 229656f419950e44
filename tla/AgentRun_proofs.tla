--------------------------- MODULE AgentRun_proofs ---------------------------
(***************************************************************************)
(* Theorems about AgentRun, for any tools' arguments, any budgets and any   *)
(* number of parallel calls: the types, that no budget is exceeded, that    *)
(* what is known is not asked for again, and that no run goes on for ever.  *)
(***************************************************************************)
EXTENDS AgentRun, FiniteSetTheorems, RecursionLemmas, TLAPS

-----------------------------------------------------------------------------
(* Types.                                                                  *)

\* Every agent is given some of the tools (factory.py, create_agent and the others).
LEMMA ToolsType == \A r : ToolsOf(r) \subseteq Calls
  BY DEF ToolsOf, Calls, External

\* Each step of before_tool_call, with the counter it counts up.
LEMMA CountedFields ==
  ASSUME NEW c \in Calls, guard \in Guards
  PROVE  /\ Counted(c) \in Guards
         /\ Counted(c).total = guard.total + 1
         /\ Counted(c).streak = guard.streak
         /\ Counted(c).external = guard.external + One(~OverCalls(c) /\ c \in External)
         /\ Counted(c).asks =
              guard.asks + One(~OverCalls(c) /\ ~OverExternal(c) /\ c \in Asks)
         /\ \A t \in Tools : Counted(c).tools[t] =
              IF t = c.tool
              THEN guard.tools[t] + One(~OverCalls(c) /\ ~OverExternal(c) /\ ~OverAsks(c))
              ELSE guard.tools[t]
         /\ \A d \in Calls : Counted(c).args[d] =
              IF d = c
              THEN guard.args[d] + One(~OverCalls(c) /\ ~OverExternal(c) /\ ~OverAsks(c) /\ ~OverTool(c))
              ELSE guard.args[d]
  <1> DEFINE nExternal == One(~OverCalls(c) /\ c \in External)
             nAsks     == One(~OverCalls(c) /\ ~OverExternal(c) /\ c \in Asks)
             nTool     == One(~OverCalls(c) /\ ~OverExternal(c) /\ ~OverAsks(c))
             nArgs     == One(~OverCalls(c) /\ ~OverExternal(c) /\ ~OverAsks(c) /\ ~OverTool(c))
             ts == [guard.tools EXCEPT ![c.tool] = @ + nTool]
             as == [guard.args EXCEPT ![c] = @ + nArgs]
  <1>1. c.tool \in Tools
    BY DEF Tools
  <1>2. Counted(c) = [total |-> guard.total + 1, external |-> guard.external + nExternal,
                      asks |-> guard.asks + nAsks, streak |-> guard.streak,
                      tools |-> ts, args |-> as]
    BY DEF Counted
  <1>3. nExternal \in Nat /\ nAsks \in Nat /\ nTool \in Nat /\ nArgs \in Nat
    BY DEF One
  <1> HIDE DEF nExternal, nAsks, nTool, nArgs
  <1>4. ts \in [Tools -> Nat] /\ as \in [Calls -> Nat]
    BY <1>1, <1>3 DEF Guards
  <1>5. /\ \A t \in Tools : ts[t] = IF t = c.tool THEN guard.tools[t] + nTool ELSE guard.tools[t]
        /\ \A d \in Calls : as[d] = IF d = c THEN guard.args[d] + nArgs ELSE guard.args[d]
    BY <1>1 DEF Guards
  <1> HIDE DEF ts, as
  <1>6. Counted(c) \in Guards
    <2>1. /\ guard.total + 1 \in Nat /\ guard.external + nExternal \in Nat
          /\ guard.asks + nAsks \in Nat /\ guard.streak \in Nat
      BY <1>3 DEF Guards
    <2>2. [total |-> guard.total + 1, external |-> guard.external + nExternal,
           asks |-> guard.asks + nAsks, streak |-> guard.streak,
           tools |-> ts, args |-> as] \in Guards
      BY <1>4, <2>1 DEF Guards
    <2> QED
      BY <1>2, <2>2, Zenon
  <1>7. /\ Counted(c).total = guard.total + 1 /\ Counted(c).streak = guard.streak
        /\ Counted(c).external = guard.external + nExternal
        /\ Counted(c).asks = guard.asks + nAsks
        /\ Counted(c).tools = ts /\ Counted(c).args = as
    BY <1>2
  <1> QED
    BY <1>5, <1>6, <1>7 DEF nExternal, nAsks, nTool, nArgs

Numbers(g) ==
  /\ g \in Guards
  /\ \A c \in Calls : g.args[c] <= g.tools[c.tool] /\ g.tools[c.tool] <= g.total
  /\ g.external <= g.total /\ g.asks <= g.total

\* Each counter is counted up before its limit is checked (before_tool_call).
LEMMA CountedNumbers ==
  ASSUME NEW c \in Calls, Numbers(guard)
  PROVE  Numbers(Counted(c)) /\ \A d \in Calls : guard.args[d] <= Counted(c).args[d]
  <1>1. \A d \in Calls : d.tool \in Tools /\ guard.tools[d.tool] \in Nat /\ guard.args[d] \in Nat
    BY DEF Numbers, Guards, Tools
  <1>2. guard.total \in Nat /\ guard.external \in Nat /\ guard.asks \in Nat
    BY DEF Numbers, Guards
  <1>3. Counted(c) \in Guards
    BY CountedFields DEF Numbers
  <1>4. Counted(c).external <= Counted(c).total /\ Counted(c).asks <= Counted(c).total
    BY <1>2, CountedFields DEF Numbers, One
  <1>5. ASSUME NEW d \in Calls
        PROVE  /\ Counted(c).args[d] <= Counted(c).tools[d.tool]
               /\ Counted(c).tools[d.tool] <= Counted(c).total
               /\ guard.args[d] <= Counted(c).args[d]
    <2> DEFINE nTool == One(~OverCalls(c) /\ ~OverExternal(c) /\ ~OverAsks(c))
               nArgs == One(~OverCalls(c) /\ ~OverExternal(c) /\ ~OverAsks(c) /\ ~OverTool(c))
    <2>1. nArgs \in Nat /\ nTool \in Nat /\ nArgs <= nTool /\ nTool <= 1
      BY DEF One
    <2>2. /\ Counted(c).total = guard.total + 1
          /\ Counted(c).tools[d.tool] = IF d.tool = c.tool THEN guard.tools[d.tool] + nTool ELSE guard.tools[d.tool]
          /\ Counted(c).args[d] = IF d = c THEN guard.args[d] + nArgs ELSE guard.args[d]
      BY <1>1, CountedFields DEF Numbers
    <2>3. guard.args[d] <= guard.tools[d.tool] /\ guard.tools[d.tool] <= guard.total
      BY DEF Numbers
    <2> HIDE DEF nTool, nArgs
    <2> QED
      BY <1>1, <1>2, <2>1, <2>2, <2>3
  <1> QED
    BY <1>3, <1>4, <1>5 DEF Numbers

\* after_tool_call counts no calls.
LEMMA StreakNumbers ==
  ASSUME NEW g, Numbers(g), NEW result
  PROVE  /\ Numbers(Streak(g, result))
         /\ Streak(g, result).total = g.total /\ Streak(g, result).external = g.external
         /\ Streak(g, result).asks = g.asks /\ Streak(g, result).tools = g.tools
         /\ Streak(g, result).args = g.args
  <1> DEFINE n == IF NoGain(result) THEN g.streak + 1 ELSE 0
             h == [g EXCEPT !.streak = n]
  <1>1. n \in Nat
    BY DEF Numbers, Guards
  <1>2. Streak(g, result) = h
    BY DEF Streak
  <1> HIDE DEF n
  <1>3. h \in Guards
    BY <1>1 DEF Numbers, Guards
  <1>4. /\ h.total = g.total /\ h.external = g.external /\ h.asks = g.asks
        /\ h.tools = g.tools /\ h.args = g.args
    BY DEF Numbers, Guards
  <1> HIDE DEF h
  <1> QED
    BY <1>2, <1>3, <1>4 DEF Numbers

\* What is left of TypeOK, with the counters in one part.
Rest ==
  /\ run \in Runs /\ pc \in PCs /\ outcome \in Outcomes
  /\ queue \in Seq(Calls)
  /\ passed \subseteq Numbered /\ waiting \subseteq passed
  /\ broken \subseteq {"limit", "ask limit", "error"} /\ asked \in BOOLEAN
  /\ history \in Seq([call : Calls, result : Results])
  /\ context \in Contexts

LEMMA TypeParts ==
  TypeOK <=> Rest /\ Numbers(guard) /\ \A x \in passed : x.n <= guard.args[x.call]
  BY DEF TypeOK, Rest, Numbers

\* A review returns a result (review.py of both tools).
LEMMA ReviewType == ASSUME Rest, NEW c PROVE Review(c) \subseteq Results
  <1>1. \A is \in SUBSET (DOMAIN history) : Latest(is) \subseteq Results
    <2> DEFINE Entry == [call : Calls, result : Results]
    <2>1. history \in Seq(Entry)
      BY DEF Rest
    <2>2. \A x \in Entry : x.result \in Results
      OBVIOUS
    <2> HIDE DEF Entry
    <2>3. \A i \in DOMAIN history : history[i] \in Entry
      BY <2>1
    <2> QED
      BY <2>2, <2>3 DEF Latest
  <1>2. ReviewParams(c) \subseteq Results
    <2>1. {i \in Recorded(c) : history[i].result # "failed"} \in SUBSET (DOMAIN history)
      BY DEF Recorded
    <2> QED
      BY <1>1, <2>1 DEF ReviewParams
  <1>3. ReviewDiagnosis(c) \subseteq Results
    BY DEF ReviewDiagnosis, Results
  <1> QED
    BY <1>2, <1>3 DEF Review

\* So does a service.
LEMMA ResultsType == \A c : ResultsOf(c) \subseteq Results
  BY DEF ResultsOf, Results, Lookup, Diagnosis

\* _record_tool_result.
LEMMA RecordType ==
  ASSUME Rest, NEW g, Numbers(g), NEW c \in Calls, NEW result \in Results, NEW open,
         Record(g, c, result, open)
  PROVE  /\ Numbers(guard') /\ waiting' = open
         /\ guard'.total = g.total /\ guard'.external = g.external
         /\ guard'.asks = g.asks /\ guard'.tools = g.tools /\ guard'.args = g.args
         /\ history' \in Seq([call : Calls, result : Results])
         /\ broken' \subseteq {"limit", "ask limit", "error"} /\ asked' \in BOOLEAN
  <1>1. guard' = Streak(g, result)
    BY DEF Record
  <1> DEFINE Entry == [call : Calls, result : Results]
             entry == [call |-> c, result |-> result]
  <1>2. entry \in Entry /\ history \in Seq(Entry)
    BY DEF Rest
  <1>3. history' = history \/ history' = Append(history, entry)
    BY DEF Record
  <1> HIDE DEF Entry, entry
  <1>4. history' \in Seq(Entry)
    BY <1>2, <1>3
  <1> QED
    BY <1>1, <1>4, StreakNumbers DEF Record, Rest, Entry

\* What follows an exception (_run_repair_answer_gate, _handle_guard_exceeded): only a
\* question of the guard's own needs what is left of the budget.
LEMMA BreakType ==
  ASSUME Rest, NEW e, Break(e)
  PROVE  /\ run' \in Runs /\ pc' \in PCs /\ outcome' \in Outcomes
         /\ outcome' = "guard question" => outcome = "guard question" \/ guard.asks < MaxAsks
         /\ pc' = "model" => outcome' = outcome
         /\ pc' # "tools"
  <1>1. CASE run = "gate"
    <2>1. Go("main")
      BY <1>1 DEF Break
    <2> QED
      BY <2>1 DEF Go, Rest, Runs, PCs
  <1>2. CASE run = "retry"
    <2>1. End("text")
      BY <1>2 DEF Break
    <2> QED
      BY <2>1 DEF End, Rest, PCs, Outcomes
  <1>3. CASE run \notin {"gate", "retry"}
    <2>1. \/ End("error") \/ End("guard") \/ End("card")
          \/ guard.asks < MaxAsks /\ End("guard question")
      BY <1>3 DEF Break
    <2> QED
      BY <2>1 DEF End, Rest, PCs, Outcomes
  <1> QED
    BY <1>1, <1>2, <1>3

LEMMA InitType == Init => TypeOK
  <1> SUFFICES ASSUME Init PROVE TypeOK
    OBVIOUS
  <1>1. NewGuard \in Guards /\ Numbers(NewGuard)
    <2>1. \A c \in Calls : c.tool \in Tools
      BY DEF Tools
    <2>2. [t \in Tools |-> 0] \in [Tools -> Nat] /\ [c \in Calls |-> 0] \in [Calls -> Nat]
      OBVIOUS
    <2>3. NewGuard \in Guards
      BY <2>2 DEF NewGuard, Guards
    <2> QED
      BY <2>1, <2>3 DEF NewGuard, Numbers
  <1>2. Rest
    <2>1. /\ run \in {"gate", "main"} /\ pc = "model" /\ outcome = "none" /\ asked = FALSE
          /\ queue = <<>> /\ history = <<>> /\ waiting = {} /\ passed = {} /\ broken = {}
          /\ context \in Contexts
      BY KnownAssumption DEF Init
    <2>2. \A S : <<>> \in Seq(S)
      OBVIOUS
    <2> QED
      BY <2>1, <2>2 DEF Rest, Runs, PCs, Outcomes
  <1> QED
    BY <1>1, <1>2, TypeParts DEF Init

\* A step leaves Rest and the numbers in order.
LEMMA StepType == TypeOK /\ [Next]_vars => TypeOK'
  <1> SUFFICES ASSUME TypeOK, [Next]_vars PROVE TypeOK'
    OBVIOUS
  <1>1. Rest /\ Numbers(guard) /\ \A x \in passed : x.n <= guard.args[x.call]
    BY TypeParts
  <1> SUFFICES Rest' /\ Numbers(guard)' /\ (\A x \in passed : x.n <= guard.args[x.call])'
    BY TypeParts, PTL
  <1>2. CASE Respond
    <2>1. queue' \in Seq(Calls)
      <3>1. PICK n \in 1 .. Parallel : queue' \in [1 .. n -> ToolsOf(run)]
        BY <1>2 DEF Respond
      <3>2. n \in Nat
        BY ParallelAssumption
      <3>3. queue' \in [1 .. n -> Calls]
        BY <3>1, ToolsType
      <3> QED
        BY <3>2, <3>3
    <2> QED
      BY <1>1, <1>2, <2>1 DEF Respond, Rest, PCs, Numbers
  <1>3. CASE Answer
    <2>1. \/ Go("render") \/ Go("retry") \/ End("question") \/ End("text")
      BY <1>3 DEF Answer
    <2>2. run' \in Runs /\ pc' \in PCs /\ outcome' \in Outcomes
      BY <1>1, <2>1 DEF Go, End, Rest, Runs, PCs, Outcomes
    <2> QED
      BY <1>1, <1>3, <2>2 DEF Answer, Rest, Numbers
  <1>4. CASE ModelError
    <2>1. run' \in Runs /\ pc' \in PCs /\ outcome' \in Outcomes
      BY <1>1, <1>4, BreakType DEF ModelError
    <2> QED
      BY <1>1, <1>4, <2>1 DEF ModelError, Rest, Numbers
  <1>5. CASE Return
    <2>1. run' \in Runs /\ pc' \in PCs /\ outcome' \in Outcomes
      <3>1. Go(run) \/ End("question") \/ Break("error")
        BY <1>5 DEF Return
      <3>2. CASE Go(run) \/ End("question")
        BY <1>1, <3>2 DEF Go, End, Rest, Runs, PCs, Outcomes
      <3>3. CASE Break("error")
        BY <1>1, <3>3, BreakType
      <3> QED
        BY <3>1, <3>2, <3>3
    <2> QED
      BY <1>1, <1>5, <2>1 DEF Return, Rest, Numbers
  <1>6. CASE Raise
    <2>1. run' \in Runs /\ pc' \in PCs /\ outcome' \in Outcomes
      BY <1>1, <1>6, BreakType DEF Raise
    <2> QED
      BY <1>1, <1>6, <2>1 DEF Raise, Rest, Numbers
  <1>7. CASE Begin
    <2> DEFINE c == Head(queue)
               g == Counted(c)
               x == [n |-> g.args[c], call |-> c]
    <2>1. c \in Calls /\ queue' \in Seq(Calls)
      <3>1. queue # <<>> /\ queue' = Tail(queue)
        BY <1>7 DEF Begin
      <3>2. queue \in Seq(Calls)
        BY <1>1 DEF Rest
      <3> QED
        BY <3>1, <3>2
    <2>2. Numbers(g) /\ \A d \in Calls : guard.args[d] <= g.args[d]
      BY <1>1, <2>1, CountedNumbers
    <2>3. x \in Numbered /\ x.n <= g.args[x.call] /\ \A d \in Calls : g.args[d] \in Nat /\ guard.args[d] \in Nat
      BY <1>1, <2>1, <2>2 DEF Numbered, Numbers, Guards
    <2>4. \A y \in passed \cup {x} : y \in Numbered /\ y.n <= g.args[y.call]
      <3> SUFFICES ASSUME NEW y \in passed PROVE y \in Numbered /\ y.n <= g.args[y.call]
        BY <2>3
      <3>1. y \in Numbered /\ y.n <= guard.args[y.call]
        BY <1>1 DEF Rest
      <3>2. y.n \in Nat /\ y.call \in Calls
        BY <3>1 DEF Numbered
      <3> QED
        BY <2>2, <2>3, <3>1, <3>2
    <2>5. UNCHANGED <<run, pc, context, outcome>>
      BY <1>7 DEF Begin
    <2>6. CASE Over(c)
      <3>1. /\ guard' = g /\ UNCHANGED <<waiting, passed, asked, history>>
            /\ broken' = broken \cup {Raised(c)}
        BY <1>7, <2>6 DEF Begin
      <3> HIDE DEF c, g, x
      <3>2. Raised(c) \in {"limit", "ask limit"}
        BY DEF Raised
      <3> QED
        BY <1>1, <2>1, <2>2, <2>4, <2>5, <3>1, <3>2 DEF Rest
    <2>7. CASE ~Over(c)
      <3>1. passed' = passed \cup {x}
        BY <1>7, <2>7 DEF Begin
      <3>2. \/ guard' = g /\ asked' = TRUE /\ UNCHANGED <<waiting, broken, history>>
            \/ \E result \in Results : Record(g, c, result, waiting)
            \/ guard' = g /\ waiting' = waiting \cup {x} /\ UNCHANGED <<broken, asked, history>>
        BY <1>1, <1>7, <2>7, ReviewType, ResultsType DEF Begin
      <3> HIDE DEF c, g, x
      <3>3. CASE \E result \in Results : Record(g, c, result, waiting)
        <4>1. /\ Numbers(guard') /\ waiting' = waiting /\ guard'.args = g.args
              /\ history' \in Seq([call : Calls, result : Results])
              /\ broken' \subseteq {"limit", "ask limit", "error"} /\ asked' \in BOOLEAN
          BY <1>1, <2>1, <2>2, <3>3, RecordType
        <4> QED
          BY <1>1, <2>1, <2>4, <2>5, <3>1, <4>1 DEF Rest
      <3>4. CASE \/ guard' = g /\ asked' = TRUE /\ UNCHANGED <<waiting, broken, history>>
                 \/ guard' = g /\ waiting' = waiting \cup {x} /\ UNCHANGED <<broken, asked, history>>
        BY <1>1, <2>1, <2>2, <2>4, <2>5, <3>1, <3>4 DEF Rest
      <3> QED
        BY <3>2, <3>3, <3>4
    <2> QED
      BY <2>6, <2>7
  <1>8. ASSUME NEW x \in waiting, Receive(x)
        PROVE  Rest' /\ Numbers(guard)' /\ (\A y \in passed : y.n <= guard.args[y.call])'
    <2>1. x.call \in Calls
      BY <1>1 DEF Rest, Numbered
    <2>2. \E result \in Results : Record(guard, x.call, result, waiting \ {x})
      BY <1>8, ResultsType DEF Receive
    <2>3. /\ Numbers(guard') /\ waiting' = waiting \ {x} /\ guard'.args = guard.args
          /\ history' \in Seq([call : Calls, result : Results])
          /\ broken' \subseteq {"limit", "ask limit", "error"} /\ asked' \in BOOLEAN
      BY <1>1, <2>1, <2>2, RecordType
    <2> QED
      BY <1>1, <1>8, <2>3 DEF Receive, Rest
  <1>9. ASSUME NEW x \in waiting, ToolError(x)
        PROVE  Rest' /\ Numbers(guard)' /\ (\A y \in passed : y.n <= guard.args[y.call])'
    BY <1>1, <1>9 DEF ToolError, Rest, Numbers
  <1>10. CASE UNCHANGED vars
    BY <1>1, <1>10 DEF vars, Rest, Numbers
  <1> QED
    BY <1>2, <1>3, <1>4, <1>5, <1>6, <1>7, <1>8, <1>9, <1>10 DEF Next, Step, Ended

\* The types, and the order in which before_tool_call counts.
THEOREM Typing == Spec => []TypeOK
  BY InitType, StepType, PTL DEF Spec

-----------------------------------------------------------------------------
(* Budgets.                                                                *)

Of(S, C) == {y \in S : y.call \in C}

\* A call more is one more of every kind it is of.
LEMMA OneMore ==
  ASSUME NEW S, IsFiniteSet(S), NEW x, NEW C
  PROVE  /\ Cardinality(Of(S, C)) \in Nat /\ Cardinality(Of(S \cup {x}, C)) \in Nat
         /\ Cardinality(Of(S \cup {x}, C)) <= Cardinality(Of(S, C)) + One(x.call \in C)
  <1>1. IsFiniteSet(Of(S, C)) /\ Cardinality(Of(S, C)) \in Nat
    <2>1. Of(S, C) \subseteq S
      BY DEF Of
    <2> QED
      BY <2>1, FS_Subset, FS_CardinalityType
  <1>2. CASE x.call \in C
    <2>1. Of(S \cup {x}, C) = Of(S, C) \cup {x}
      BY <1>2 DEF Of
    <2>2. Cardinality(Of(S \cup {x}, C)) =
            IF x \in Of(S, C) THEN Cardinality(Of(S, C)) ELSE Cardinality(Of(S, C)) + 1
      BY <1>1, <2>1, FS_AddElement
    <2> QED
      BY <1>1, <1>2, <2>2 DEF One
  <1>3. CASE x.call \notin C
    <2>1. Of(S \cup {x}, C) = Of(S, C)
      BY <1>3 DEF Of
    <2> QED
      BY <1>1, <1>3, <2>1 DEF One
  <1> QED
    BY <1>2, <1>3

\* The guard has counted at least the calls it let pass, and has let none pass beyond a
\* budget.
Within(S, C, counter, max) ==
  /\ Cardinality(Of(S, C)) \in Nat
  /\ Cardinality(Of(S, C)) <= counter /\ Cardinality(Of(S, C)) <= max

Budgets ==
  /\ Within(passed, Calls, guard.total, MaxCalls)
  /\ Within(passed, External, guard.external, MaxExternal)
  /\ Within(passed, Asks, guard.asks, MaxAsks)
  /\ \A t \in Tools : Within(passed, OfTool(t), guard.tools[t], MaxSameTool)
  /\ \A c \in Calls : Within(passed, {c}, guard.args[c], MaxSameArgs)

\* A question of the guard's own ends the request, and leaves the budget of questions
\* unspent (_can_still_ask_user).
GuardQuestion ==
  outcome = "guard question" => pc = "ended" /\ Cardinality(Of(passed, Asks)) < MaxAsks

BudgetInv == IsFiniteSet(passed) /\ Budgets /\ GuardQuestion

\* What a call that passes does to one budget, and one that is refused.
LEMMA Passing ==
  ASSUME NEW S, IsFiniteSet(S), NEW x, NEW C, NEW n \in Nat, NEW max \in Nat,
         Within(S, C, n, max), x.call \in C => n < max
  PROVE  Within(S \cup {x}, C, n + One(x.call \in C), max)
  <1>1. One(x.call \in C) = IF x.call \in C THEN 1 ELSE 0
    BY DEF One
  <1> QED
    BY <1>1, OneMore DEF Within

LEMMA Refusing ==
  ASSUME NEW S, NEW C, NEW n \in Nat, NEW m \in Nat, n <= m, NEW max \in Nat,
         Within(S, C, n, max)
  PROVE  Within(S, C, m, max)
  BY DEF Within

\* The counters a call leaves, whether it passes or not.
LEMMA BeginBudgets ==
  ASSUME TypeOK, BudgetInv, NEW c \in Calls, NEW x, x.call = c,
         passed' = IF Over(c) THEN passed ELSE passed \cup {x}
  PROVE  LET g == Counted(c)
         IN  /\ Within(passed', Calls, g.total, MaxCalls)
             /\ Within(passed', External, g.external, MaxExternal)
             /\ Within(passed', Asks, g.asks, MaxAsks)
             /\ \A t \in Tools : Within(passed', OfTool(t), g.tools[t], MaxSameTool)
             /\ \A d \in Calls : Within(passed', {d}, g.args[d], MaxSameArgs)
  <1> DEFINE g == Counted(c)
  <1>1. /\ guard \in Guards /\ g \in Guards /\ c.tool \in Tools
        /\ Numbers(guard)
    BY TypeParts, CountedNumbers DEF Numbers, Tools
  <1>2. /\ guard.total \in Nat /\ guard.external \in Nat /\ guard.asks \in Nat
        /\ \A t \in Tools : guard.tools[t] \in Nat
        /\ \A d \in Calls : guard.args[d] \in Nat
        /\ g.total \in Nat /\ g.external \in Nat /\ g.asks \in Nat
        /\ \A t \in Tools : g.tools[t] \in Nat
        /\ \A d \in Calls : g.args[d] \in Nat
    <2> HIDE DEF g
    <2> QED
      BY <1>1 DEF Guards
  <1>3. /\ g.total = guard.total + 1
        /\ g.external = guard.external + One(~OverCalls(c) /\ c \in External)
        /\ g.asks = guard.asks + One(~OverCalls(c) /\ ~OverExternal(c) /\ c \in Asks)
        /\ \A t \in Tools : g.tools[t] =
              IF t = c.tool
              THEN guard.tools[t] + One(~OverCalls(c) /\ ~OverExternal(c) /\ ~OverAsks(c))
              ELSE guard.tools[t]
        /\ \A d \in Calls : g.args[d] =
              IF d = c
              THEN guard.args[d] + One(~OverCalls(c) /\ ~OverExternal(c) /\ ~OverAsks(c) /\ ~OverTool(c))
              ELSE guard.args[d]
    BY <1>1, CountedFields
  <1> HIDE DEF g
  <1>4. CASE Over(c)
    <2>1. /\ guard.total <= g.total /\ guard.external <= g.external /\ guard.asks <= g.asks
          /\ \A t \in Tools : guard.tools[t] <= g.tools[t]
          /\ \A d \in Calls : guard.args[d] <= g.args[d]
      BY <1>2, <1>3 DEF One
    <2>2. passed' = passed
      BY <1>4
    <2>3. /\ Within(passed, Calls, g.total, MaxCalls)
          /\ Within(passed, External, g.external, MaxExternal)
          /\ Within(passed, Asks, g.asks, MaxAsks)
      BY <1>2, <2>1, Refusing, BudgetAssumption DEF BudgetInv, Budgets
    <2>4. \A t \in Tools : Within(passed, OfTool(t), g.tools[t], MaxSameTool)
      BY <1>2, <2>1, Refusing, BudgetAssumption DEF BudgetInv, Budgets
    <2>5. \A d \in Calls : Within(passed, {d}, g.args[d], MaxSameArgs)
      BY <1>2, <2>1, Refusing, BudgetAssumption DEF BudgetInv, Budgets
    <2> QED
      BY <2>2, <2>3, <2>4, <2>5 DEF g
  <1>5. CASE ~Over(c)
    <2>1. ~OverCalls(c) /\ ~OverExternal(c) /\ ~OverAsks(c) /\ ~OverTool(c) /\ ~OverArgs(c)
      BY <1>5 DEF Over
    <2>2. passed' = passed \cup {x} /\ IsFiniteSet(passed)
      BY <1>5 DEF BudgetInv
    <2>3. Within(passed', Calls, g.total, MaxCalls)
      <3>1. guard.total < MaxCalls
        BY <1>2, <2>1, BudgetAssumption DEF OverCalls
      <3>2. g.total = guard.total + One(x.call \in Calls)
        BY <1>3 DEF One
      <3>3. Within(passed, Calls, guard.total, MaxCalls) /\ MaxCalls \in Nat
        BY BudgetAssumption DEF BudgetInv, Budgets
      <3>4. Within(passed \cup {x}, Calls, guard.total + One(x.call \in Calls), MaxCalls)
        BY <1>2, <2>2, <3>1, <3>3, Passing
      <3> QED
        BY <2>2, <3>2, <3>4
    <2>4. Within(passed', External, g.external, MaxExternal)
      <3>1. x.call \in External => guard.external < MaxExternal
        BY <1>2, <2>1, BudgetAssumption DEF OverExternal
      <3>2. g.external = guard.external + One(x.call \in External)
        BY <1>3, <2>1 DEF One
      <3>3. Within(passed, External, guard.external, MaxExternal) /\ MaxExternal \in Nat
        BY BudgetAssumption DEF BudgetInv, Budgets
      <3>4. Within(passed \cup {x}, External, guard.external + One(x.call \in External), MaxExternal)
        BY <1>2, <2>2, <3>1, <3>3, Passing
      <3> QED
        BY <2>2, <3>2, <3>4
    <2>5. Within(passed', Asks, g.asks, MaxAsks)
      <3>1. x.call \in Asks => guard.asks < MaxAsks
        BY <1>2, <2>1, BudgetAssumption DEF OverAsks
      <3>2. g.asks = guard.asks + One(x.call \in Asks)
        BY <1>3, <2>1 DEF One
      <3>3. Within(passed, Asks, guard.asks, MaxAsks) /\ MaxAsks \in Nat
        BY BudgetAssumption DEF BudgetInv, Budgets
      <3>4. Within(passed \cup {x}, Asks, guard.asks + One(x.call \in Asks), MaxAsks)
        BY <1>2, <2>2, <3>1, <3>3, Passing
      <3> QED
        BY <2>2, <3>2, <3>4
    <2>6. ASSUME NEW t \in Tools PROVE Within(passed', OfTool(t), g.tools[t], MaxSameTool)
      <3>1. x.call \in OfTool(t) => guard.tools[t] < MaxSameTool
        BY <1>2, <2>1, BudgetAssumption DEF OverTool, OfTool
      <3>2. g.tools[t] = guard.tools[t] + One(x.call \in OfTool(t))
        BY <1>2, <1>3, <2>1 DEF One, OfTool
      <3>3. Within(passed, OfTool(t), guard.tools[t], MaxSameTool) /\ guard.tools[t] \in Nat
        BY <1>2 DEF BudgetInv, Budgets
      <3>4. Within(passed \cup {x}, OfTool(t), guard.tools[t] + One(x.call \in OfTool(t)), MaxSameTool)
        BY <2>2, <3>1, <3>3, Passing, BudgetAssumption
      <3> QED
        BY <2>2, <3>2, <3>4
    <2>7. ASSUME NEW d \in Calls PROVE Within(passed', {d}, g.args[d], MaxSameArgs)
      <3>1. x.call \in {d} => guard.args[d] < MaxSameArgs
        BY <1>2, <2>1, BudgetAssumption DEF OverArgs
      <3>2. g.args[d] = guard.args[d] + One(x.call \in {d})
        BY <1>2, <1>3, <2>1 DEF One
      <3>3. Within(passed, {d}, guard.args[d], MaxSameArgs) /\ guard.args[d] \in Nat
        BY <1>2 DEF BudgetInv, Budgets
      <3>4. Within(passed \cup {x}, {d}, guard.args[d] + One(x.call \in {d}), MaxSameArgs)
        BY <2>2, <3>1, <3>3, Passing, BudgetAssumption
      <3> QED
        BY <2>2, <3>2, <3>4
    <2> QED
      BY <2>3, <2>4, <2>5, <2>6, <2>7 DEF g
  <1> QED
    BY <1>4, <1>5

LEMMA InitBudgets == Init => BudgetInv
  <1> SUFFICES ASSUME Init PROVE BudgetInv
    OBVIOUS
  <1>1. passed = {} /\ outcome = "none" /\ guard = NewGuard
    BY DEF Init
  <1>2. \A C : Cardinality(Of(passed, C)) = 0
    BY <1>1, FS_EmptySet DEF Of
  <1>3. /\ guard.total = 0 /\ guard.external = 0 /\ guard.asks = 0
        /\ \A t \in Tools : guard.tools[t] = 0
        /\ \A c \in Calls : guard.args[c] = 0
    BY <1>1 DEF NewGuard
  <1>4. IsFiniteSet(passed)
    BY <1>1, FS_EmptySet
  <1> QED
    BY <1>1, <1>2, <1>3, <1>4, BudgetAssumption DEF BudgetInv, Budgets, Within, GuardQuestion

\* A run's end, or the next run, leaves the budgets as they are.
LEMMA NoCall ==
  ASSUME BudgetInv, UNCHANGED passed,
         /\ guard'.total = guard.total /\ guard'.external = guard.external
         /\ guard'.asks = guard.asks /\ guard'.tools = guard.tools /\ guard'.args = guard.args,
         GuardQuestion'
  PROVE  BudgetInv'
  BY DEF BudgetInv, Budgets

LEMMA StepBudgets == TypeOK /\ BudgetInv /\ [Next]_vars => BudgetInv'
  <1> SUFFICES ASSUME TypeOK, BudgetInv, [Next]_vars PROVE BudgetInv'
    OBVIOUS
  <1>1. Rest /\ Numbers(guard) /\ guard.asks \in Nat /\ MaxAsks \in Nat
    BY TypeParts, BudgetAssumption DEF Numbers, Guards
  <1>2. Within(passed, Asks, guard.asks, MaxAsks)
    BY DEF BudgetInv, Budgets
  <1>3. ASSUME pc # "ended", pc' # "ended", outcome' = outcome PROVE GuardQuestion'
    BY <1>3 DEF BudgetInv, GuardQuestion
  <1>4. ASSUME pc # "ended", Break("error") \/ (\E e \in broken : Break(e)), UNCHANGED passed
        PROVE  GuardQuestion'
    <2>1. /\ outcome' = "guard question" => outcome = "guard question" \/ guard.asks < MaxAsks
          /\ pc' = "model" => outcome' = outcome
          /\ pc' # "tools" /\ pc' \in PCs
      BY <1>1, <1>4, BreakType
    <2>2. outcome # "guard question"
      BY <1>4 DEF BudgetInv, GuardQuestion
    <2>3. outcome' = "guard question" => pc' = "ended" /\ guard.asks < MaxAsks
      BY <2>1, <2>2 DEF PCs
    <2>4. guard.asks < MaxAsks => Cardinality(Of(passed, Asks)) < MaxAsks
      BY <1>1, <1>2 DEF Within
    <2> QED
      BY <1>4, <2>3, <2>4 DEF GuardQuestion
  <1>5. CASE Respond
    <2>1. GuardQuestion'
      BY <1>3, <1>5 DEF Respond
    <2> QED
      BY <1>5, <2>1, NoCall DEF Respond
  <1>6. CASE Answer
    <2>1. \/ Go("render") \/ Go("retry") \/ End("question") \/ End("text")
      BY <1>6 DEF Answer
    <2>2. GuardQuestion'
      BY <1>3, <1>6, <2>1 DEF Answer, Go, End, GuardQuestion
    <2> QED
      BY <1>6, <2>2, NoCall DEF Answer
  <1>7. CASE ModelError
    <2>1. GuardQuestion'
      BY <1>4, <1>7 DEF ModelError
    <2> QED
      BY <1>7, <2>1, NoCall DEF ModelError
  <1>8. CASE Return
    <2>1. GuardQuestion'
      <3>1. Go(run) \/ End("question") \/ Break("error")
        BY <1>8 DEF Return
      <3>2. CASE Go(run)
        BY <1>3, <1>8, <3>2 DEF Return, Go
      <3>3. CASE End("question")
        BY <3>3 DEF End, GuardQuestion
      <3>4. CASE Break("error")
        BY <1>4, <1>8, <3>4 DEF Return
      <3> QED
        BY <3>1, <3>2, <3>3, <3>4
    <2> QED
      BY <1>8, <2>1, NoCall DEF Return
  <1>9. CASE Raise
    <2>1. GuardQuestion'
      BY <1>4, <1>9 DEF Raise
    <2> QED
      BY <1>9, <2>1, NoCall DEF Raise
  <1>10. CASE Begin
    <2> DEFINE c == Head(queue)
               g == Counted(c)
               x == [n |-> g.args[c], call |-> c]
    <2>1. c \in Calls
      <3>1. queue # <<>> /\ queue \in Seq(Calls)
        BY <1>1, <1>10 DEF Begin, Rest
      <3> QED
        BY <3>1
    <2>2. Numbers(g)
      BY <1>1, <2>1, CountedNumbers
    <2>3. passed' = IF Over(c) THEN passed ELSE passed \cup {x}
      BY <1>10 DEF Begin
    <2>4. pc = "tools" /\ UNCHANGED <<pc, outcome>>
      BY <1>10 DEF Begin
    <2>5. guard' = g \/ \E result \in Results : Record(g, c, result, waiting)
      BY <1>1, <1>10, ReviewType, ResultsType DEF Begin
    <2>6. x.call = c
      OBVIOUS
    <2> HIDE DEF c, x
    <2>7. /\ Within(passed', Calls, g.total, MaxCalls)
          /\ Within(passed', External, g.external, MaxExternal)
          /\ Within(passed', Asks, g.asks, MaxAsks)
          /\ \A t \in Tools : Within(passed', OfTool(t), g.tools[t], MaxSameTool)
          /\ \A d \in Calls : Within(passed', {d}, g.args[d], MaxSameArgs)
      BY <2>1, <2>3, <2>6, BeginBudgets
    <2> HIDE DEF g
    <2>8. /\ guard'.total = g.total /\ guard'.external = g.external /\ guard'.asks = g.asks
          /\ guard'.tools = g.tools /\ guard'.args = g.args
      BY <1>1, <2>1, <2>2, <2>5, RecordType
    <2>9. Budgets'
      BY <2>7, <2>8 DEF Budgets
    <2>10. IsFiniteSet(passed')
      BY <2>3, FS_AddElement DEF BudgetInv
    <2>11. GuardQuestion'
      BY <1>3, <2>4
    <2> QED
      BY <2>9, <2>10, <2>11 DEF BudgetInv
  <1>11. ASSUME NEW x \in waiting, Receive(x) PROVE BudgetInv'
    <2>1. x.call \in Calls
      BY <1>1 DEF Rest, Numbered
    <2>2. \E result \in Results : Record(guard, x.call, result, waiting \ {x})
      BY <1>11, ResultsType DEF Receive
    <2>3. /\ guard'.total = guard.total /\ guard'.external = guard.external
          /\ guard'.asks = guard.asks /\ guard'.tools = guard.tools /\ guard'.args = guard.args
      BY <1>1, <2>1, <2>2, RecordType
    <2>4. GuardQuestion'
      BY <1>3, <1>11 DEF Receive
    <2> QED
      BY <1>11, <2>3, <2>4, NoCall DEF Receive
  <1>12. ASSUME NEW x \in waiting, ToolError(x) PROVE BudgetInv'
    <2>1. GuardQuestion'
      BY <1>3, <1>12 DEF ToolError
    <2> QED
      BY <1>12, <2>1, NoCall DEF ToolError
  <1>13. CASE UNCHANGED vars
    <2>1. GuardQuestion'
      BY <1>13 DEF vars, BudgetInv, GuardQuestion
    <2> QED
      BY <1>13, <2>1, NoCall DEF vars
  <1> QED
    BY <1>5, <1>6, <1>7, <1>8, <1>9, <1>10, <1>11, <1>12, <1>13 DEF Next, Step, Ended

LEMMA BudgetsSuffice == BudgetInv => WithinBudgets
  <1> SUFFICES ASSUME BudgetInv PROVE WithinBudgets
    OBVIOUS
  <1>1. \A C : Made(C) = Of(passed, C)
    BY DEF Made, Of
  <1>2. Cardinality(Made(Asks)) + One(outcome = "guard question") <= MaxAsks
    <2> DEFINE n == Cardinality(Of(passed, Asks))
    <2>1. /\ n \in Nat /\ n <= MaxAsks /\ MaxAsks \in Nat
          /\ outcome = "guard question" => n < MaxAsks
      BY BudgetAssumption DEF BudgetInv, Budgets, Within, GuardQuestion
    <2>2. Cardinality(Made(Asks)) = n
      BY <1>1
    <2> DEFINE q == One(outcome = "guard question")
    <2>3. q = 0 \/ (q = 1 /\ outcome = "guard question")
      BY Zenon DEF One
    <2> HIDE DEF n, q
    <2>4. n + q <= MaxAsks
      <3>1. q = 0 \/ (q = 1 /\ n < MaxAsks)
        BY <2>1, <2>3, Zenon
      <3>2. n \in Nat /\ n <= MaxAsks /\ MaxAsks \in Nat
        BY <2>1
      <3> QED
        BY ONLY <3>1, <3>2
    <2> QED
      BY <2>2, <2>4, Zenon DEF q
  <1> QED
    BY <1>1, <1>2 DEF BudgetInv, Budgets, Within, WithinBudgets

\* No budget of the request is exceeded, whatever the model asks for (LoopGuard).
THEOREM BudgetsHold == Spec => []WithinBudgets
  <1>1. Spec => [](TypeOK /\ BudgetInv)
    BY InitType, StepType, InitBudgets, StepBudgets, PTL DEF Spec
  <1> QED
    BY <1>1, BudgetsSuffice, PTL

-----------------------------------------------------------------------------
(* Results that bring nothing new.                                         *)

\* The streak is at least the number of such results at the end of the history; a
\* result that is lost has been counted as well.
Trailing ==
  \A k \in 1 .. Len(history) :
    (\A j \in k .. Len(history) : NoGain(history[j].result))
      => Len(history) - k + 1 <= guard.streak

StreakInv == Trailing /\ NoGainIsBounded

\* _record_tool_result, after_tool_call.
LEMMA RecordStreak ==
  ASSUME Rest, StreakInv, NEW g, Numbers(g), g.streak = guard.streak, NEW c, NEW result,
         NEW open, Record(g, c, result, open)
  PROVE  StreakInv'
  <1> DEFINE n == Len(history)
             entry == [call |-> c, result |-> result]
             s == guard.streak
             t == guard'.streak
  <1>1. /\ n \in Nat /\ s \in Nat /\ MaxNoGain \in Nat
        /\ DOMAIN history = 1 .. n
    <2>1. history \in Seq([call : Calls, result : Results])
      BY DEF Rest
    <2> QED
      BY <2>1, BudgetAssumption DEF Numbers, Guards
  <1>2. t = IF NoGain(result) THEN s + 1 ELSE 0
    <2>1. guard' = [g EXCEPT !.streak = IF NoGain(result) THEN g.streak + 1 ELSE 0]
      BY DEF Record, Streak
    <2> QED
      BY <2>1 DEF Numbers, Guards
  <1>3. CASE NoGain(result) /\ t > MaxNoGain
    <2>1. history' = history
      BY <1>3 DEF Record
    <2>2. Trailing'
      BY <1>1, <1>2, <1>3, <2>1 DEF StreakInv, Trailing
    <2> QED
      BY <2>1, <2>2 DEF StreakInv, NoGainIsBounded
  <1>4. CASE ~(NoGain(result) /\ t > MaxNoGain)
    <2>1. history' = Append(history, entry)
      BY <1>4 DEF Record
    <2>2. /\ Len(history') = n + 1 /\ DOMAIN history' = 1 .. n + 1
          /\ \A j \in 1 .. n : history'[j] = history[j]
          /\ history'[n + 1].result = result
      <3> DEFINE Entry == [call : Calls, result : Results]
      <3>1. history \in Seq(Entry) /\ entry.result = result
        BY DEF Rest
      <3> HIDE DEF Entry, entry
      <3> QED
        BY <2>1, <3>1
    <2>3. Trailing'
      <3> SUFFICES ASSUME NEW k \in 1 .. n + 1,
                          \A j \in k .. n + 1 : NoGain(history'[j].result)
                   PROVE  (n + 1) - k + 1 <= t
        BY <2>2 DEF Trailing
      <3>1. NoGain(result) /\ t = s + 1
        BY <1>1, <1>2, <2>2
      <3>2. CASE k = n + 1
        BY <1>1, <3>1, <3>2
      <3>3. CASE k <= n
        <4>1. \A j \in k .. n : NoGain(history[j].result)
          BY <1>1, <2>2
        <4>2. n - k + 1 <= s
          BY <1>1, <3>3, <4>1 DEF StreakInv, Trailing
        <4> QED
          BY <1>1, <3>1, <4>2
      <3> QED
        BY <1>1, <3>2, <3>3
    <2>4. NoGainIsBounded'
      <3> SUFFICES ASSUME NEW i \in 1 .. n + 1, i > MaxNoGain,
                          \A j \in i - MaxNoGain .. i : NoGain(history'[j].result)
                   PROVE  FALSE
        BY <2>2 DEF NoGainIsBounded
      <3>1. CASE i = n + 1
        <4> DEFINE k == i - MaxNoGain
        <4>1. k \in 1 .. n + 1 /\ \A j \in k .. n + 1 : NoGain(history'[j].result)
          BY <1>1, <3>1
        <4>2. (n + 1) - k + 1 <= t
          BY <2>2, <2>3, <4>1 DEF Trailing
        <4>3. NoGain(result)
          BY <1>1, <2>2, <4>1
        <4> QED
          BY <1>1, <1>2, <1>4, <3>1, <4>2, <4>3
      <3>2. CASE i <= n
        <4>1. i \in DOMAIN history /\ \A j \in i - MaxNoGain .. i : NoGain(history[j].result)
          BY <1>1, <2>2, <3>2
        <4> QED
          BY <4>1 DEF StreakInv, NoGainIsBounded
      <3> QED
        BY <1>1, <3>1, <3>2
    <2> QED
      BY <2>3, <2>4 DEF StreakInv
  <1> QED
    BY <1>3, <1>4

LEMMA StepStreak == TypeOK /\ StreakInv /\ [Next]_vars => StreakInv'
  <1> SUFFICES ASSUME TypeOK, StreakInv, [Next]_vars PROVE StreakInv'
    OBVIOUS
  <1>1. Rest /\ Numbers(guard)
    BY TypeParts
  <1>2. ASSUME history' = history, guard'.streak = guard.streak PROVE StreakInv'
    BY <1>2 DEF StreakInv, Trailing, NoGainIsBounded
  <1>3. CASE Respond \/ Answer \/ ModelError \/ Return \/ Raise \/ UNCHANGED vars
    BY <1>2, <1>3 DEF Respond, Answer, ModelError, Return, Raise, vars
  <1>4. CASE Begin
    <2> DEFINE c == Head(queue)
               g == Counted(c)
    <2>1. c \in Calls
      <3>1. queue # <<>> /\ queue \in Seq(Calls)
        BY <1>1, <1>4 DEF Begin, Rest
      <3> QED
        BY <3>1
    <2>2. Numbers(g) /\ g.streak = guard.streak
      BY <1>1, <2>1, CountedNumbers, CountedFields DEF Numbers
    <2>3. \/ guard' = g /\ history' = history
          \/ \E result \in Results : Record(g, c, result, waiting)
      BY <1>1, <1>4, ReviewType, ResultsType DEF Begin
    <2> HIDE DEF c, g
    <2> QED
      BY <1>1, <1>2, <2>2, <2>3, RecordStreak
  <1>5. ASSUME NEW x \in waiting, Receive(x) PROVE StreakInv'
    <2>1. \E result : Record(guard, x.call, result, waiting \ {x})
      BY <1>5 DEF Receive
    <2> QED
      BY <1>1, <2>1, RecordStreak
  <1>6. ASSUME NEW x \in waiting, ToolError(x) PROVE StreakInv'
    BY <1>2, <1>6 DEF ToolError
  <1> QED
    BY <1>3, <1>4, <1>5, <1>6 DEF Next, Step, Ended

\* What the agents see never holds more than max_no_gain_streak results in a row that
\* bring nothing new (after_tool_call, _record_tool_result).
THEOREM NoGainHolds == Spec => []NoGainIsBounded
  <1>1. Init => StreakInv
    BY DEF Init, StreakInv, Trailing, NoGainIsBounded
  <1>2. StreakInv => NoGainIsBounded
    BY DEF StreakInv
  <1> QED
    BY <1>1, <1>2, InitType, StepType, StepStreak, PTL DEF Spec

-----------------------------------------------------------------------------
(* The reviews.                                                            *)

\* The service of the lookup answers with ECUs, or none.
LookupResults ==
  \A i \in DOMAIN history : history[i].call \in Lookups => history[i].result \in Lookup

LEMMA HistoryLength ==
  ASSUME Rest
  PROVE  Len(history) \in Nat /\ DOMAIN history = 1 .. Len(history)
  <1> DEFINE Entry == [call : Calls, result : Results]
  <1>1. history \in Seq(Entry)
    BY DEF Rest
  <1> HIDE DEF Entry
  <1> QED
    BY <1>1

\* A review looks at the last of the results it is about.
LEMMA LatestOf ==
  ASSUME Rest, NEW is \in SUBSET (DOMAIN history), is # {}
  PROVE  \E m \in is : (\A j \in is : j <= m) /\ history[m].result \in Latest(is)
  <1>1. Len(history) \in Nat /\ DOMAIN history = 1 .. Len(history)
    BY HistoryLength
  <1>2. is \in SUBSET (0 .. Len(history))
    BY <1>1
  <1>3. PICK m \in is : \A j \in is : j <= m
    BY <1>1, <1>2, GreatestNumber
  <1>4. history[m].result \in Latest(is)
    BY <1>3 DEF Latest
  <1> QED
    BY <1>3, <1>4

\* review_fault_diagnosis_execution, for a call that writes its code as the parser does.
LEMMA NotReviewed ==
  ASSUME Rest, LookupResults, NEW c \in Diagnoses, Upper[c.code] = Parsed[c.code], Review(c) = {}
  PROVE  NotDiagnosed(c) /\ NotGuessed(c)
  <1>1. /\ "nothing" \notin LatestLookup(c)
        /\ "many" \in LatestLookup(c) => Upper[c.ecu] \in context.ecu
        /\ LatestDiagnosis(c) \cap Diagnosis = {}
    BY DEF Review, ReviewDiagnosis
  <1>2. /\ LookupsOf(c) = {i \in SameFault(c) : history[i].call \in Lookups}
        /\ DiagnosesOf(c) = {i \in SameFault(c) :
             /\ history[i].call \in Diagnoses /\ history[i].result \in Diagnosis
             /\ Upper[history[i].call.ecu] = Upper[c.ecu]}
    BY DEF LookupsOf, DiagnosesOf, SameFault, External
  <1>3. NotDiagnosed(c)
    <2>1. CASE DiagnosesOf(c) = {}
      BY <1>2, <2>1 DEF NotDiagnosed
    <2>2. CASE DiagnosesOf(c) # {}
      <3> DEFINE is == DiagnosesOf(c)
      <3>1. is \in SUBSET (DOMAIN history) /\ is # {} /\ LatestDiagnosis(c) = Latest(is)
        BY <2>2 DEF DiagnosesOf, LatestDiagnosis
      <3>2. \A k \in is : history[k].result \in Diagnosis
        BY DEF DiagnosesOf
      <3> HIDE DEF is
      <3> QED
        BY <1>1, <3>1, <3>2, LatestOf
    <2> QED
      BY <2>1, <2>2
  <1>4. ASSUME NEW i \in LookupsOf(c), history[i].result = "many", Upper[c.ecu] \notin context.ecu
        PROVE  \E j \in LookupsOf(c) : j > i /\ history[j].result = "one"
    <2> DEFINE is == LookupsOf(c)
    <2>1. is \in SUBSET (DOMAIN history) /\ i \in is
      BY <1>4 DEF LookupsOf
    <2>2. LatestLookup(c) = Latest(is)
      BY <2>1 DEF LatestLookup
    <2>3. \A k \in is : history[k].call \in Lookups
      BY DEF LookupsOf
    <2> HIDE DEF is
    <2>4. PICK m \in is : (\A j \in is : j <= m) /\ history[m].result \in Latest(is)
      BY <2>1, LatestOf
    <2>5. history[m].result \in Lookup \ {"nothing", "many"}
      BY <1>1, <1>4, <2>1, <2>2, <2>3, <2>4 DEF LookupResults
    <2>6. history[m].result = "one" /\ m # i /\ i <= m
      BY <1>4, <2>1, <2>4, <2>5 DEF Lookup
    <2>7. m > i
      <3>1. DOMAIN history = 1 .. Len(history) /\ Len(history) \in Nat
        BY HistoryLength
      <3> QED
        BY <2>1, <2>6, <3>1
    <2> QED
      BY <2>6, <2>7 DEF is
  <1>5. NotGuessed(c)
    BY <1>2, <1>4 DEF NotGuessed
  <1> QED
    BY <1>3, <1>5

LEMMA RecordLookups ==
  ASSUME Rest, LookupResults, NEW g, NEW c, NEW result, NEW open,
         c \in Lookups => result \in Lookup, Record(g, c, result, open)
  PROVE  LookupResults'
  <1> DEFINE entry == [call |-> c, result |-> result]
  <1>1. history' = history \/ history' = Append(history, entry)
    BY DEF Record
  <1>2. entry.call = c /\ entry.result = result
    OBVIOUS
  <1> DEFINE Entry == [call : Calls, result : Results]
  <1>3. history \in Seq(Entry)
    BY DEF Rest
  <1> HIDE DEF entry, Entry
  <1>4. CASE history' = Append(history, entry)
    <2>1. /\ Len(history) \in Nat /\ DOMAIN history = 1 .. Len(history)
          /\ DOMAIN history' = 1 .. Len(history) + 1
          /\ history'[Len(history) + 1] = entry
          /\ \A i \in 1 .. Len(history) : history'[i] = history[i]
      BY <1>3, <1>4
    <2>2. ASSUME NEW i \in DOMAIN history', history'[i].call \in Lookups
          PROVE  history'[i].result \in Lookup
      <3>1. CASE i = Len(history) + 1
        BY <1>2, <2>1, <2>2, <3>1
      <3>2. CASE i \in DOMAIN history
        BY <2>1, <2>2, <3>2 DEF LookupResults
      <3> QED
        BY <2>1, <3>1, <3>2
    <2> QED
      BY <2>2 DEF LookupResults
  <1>5. CASE history' = history
    BY <1>5 DEF LookupResults
  <1> QED
    BY <1>1, <1>4, <1>5

LEMMA ToolsDiffer ==
  ASSUME NEW c \in Lookups
  PROVE  /\ c \notin Diagnoses /\ c \notin Params /\ c \notin Titles \cup Reads
         /\ Review(c) = {} /\ ResultsOf(c) = Lookup
  <1>1. c.tool = "lookup_ecu_candidates"
    BY DEF Lookups
  <1>2. c \notin Diagnoses /\ c \notin Params /\ c \notin Titles \cup Reads
    BY <1>1 DEF Diagnoses, Params, Titles, Reads
  <1> QED
    BY <1>2 DEF Review, ResultsOf

LEMMA StepLookups == TypeOK /\ LookupResults /\ [Next]_vars => LookupResults'
  <1> SUFFICES ASSUME TypeOK, LookupResults, [Next]_vars PROVE LookupResults'
    OBVIOUS
  <1>1. Rest
    BY TypeParts
  <1>2. ASSUME history' = history PROVE LookupResults'
    BY <1>2 DEF LookupResults
  <1>3. CASE Respond \/ Answer \/ ModelError \/ Return \/ Raise \/ UNCHANGED vars
    BY <1>2, <1>3 DEF Respond, Answer, ModelError, Return, Raise, vars
  <1>4. CASE Begin
    <2> DEFINE c == Head(queue)
               g == Counted(c)
    <2>1. \/ history' = history
          \/ c \in Titles \cup Reads /\ \E result : Record(g, c, result, waiting)
          \/ Review(c) # {} /\ \E result : Record(g, c, result, waiting)
      BY <1>4 DEF Begin
    <2> HIDE DEF c, g
    <2> QED
      BY <1>1, <1>2, <2>1, ToolsDiffer, RecordLookups
  <1>5. ASSUME NEW x \in waiting, Receive(x) PROVE LookupResults'
    <2>1. PICK result \in ResultsOf(x.call) : Record(guard, x.call, result, waiting \ {x})
      BY <1>5 DEF Receive
    <2>2. x.call \in Lookups => result \in Lookup
      BY ToolsDiffer
    <2> QED
      BY <1>1, <2>1, <2>2, RecordLookups
  <1>6. ASSUME NEW x \in waiting, ToolError(x) PROVE LookupResults'
    BY <1>2, <1>6 DEF ToolError
  <1> QED
    BY <1>3, <1>4, <1>5, <1>6 DEF Next, Step, Ended

\* Only a call that no review has anything against waits for its service.
LEMMA StartsWaiting ==
  ASSUME [Next]_vars, NEW x \in waiting' \ waiting
  PROVE  x.call \in Diagnoses => Review(x.call) = {}
  <1>1. CASE Respond \/ Answer \/ ModelError \/ Return \/ Raise \/ UNCHANGED vars
    BY <1>1 DEF Respond, Answer, ModelError, Return, Raise, vars
  <1>2. CASE \E y \in waiting : Receive(y) \/ ToolError(y)
    BY <1>2 DEF Receive, ToolError, Record
  <1>3. CASE Begin
    <2> DEFINE c == Head(queue)
               g == Counted(c)
               y == [n |-> g.args[c], call |-> c]
    <2>1. \/ waiting' = waiting
          \/ Review(c) = {} /\ waiting' = waiting \cup {y}
      BY <1>3 DEF Begin, Record
    <2>2. y.call = c
      OBVIOUS
    <2> HIDE DEF y, g
    <2> QED
      BY <2>1, <2>2
  <1> QED
    BY <1>1, <1>2, <1>3 DEF Next, Step, Ended

\* A diagnosis whose code is written as the parser writes it is never asked for again once it
\* has been answered, and after a lookup with several candidates not for an ECU the user has not
\* chosen, however the codes of the earlier calls were written and the calls of a response and
\* of the runs of a request interleave (review_fault_diagnosis_execution).
THEOREM ReviewsHold == Spec => DiagnosesAreReviewed
  <1>1. Init => LookupResults
    BY DEF Init, LookupResults
  <1>2. TypeOK /\ LookupResults /\ [Next]_vars =>
          [ \A x \in waiting' \ waiting :
              x.call \in Diagnoses /\ Upper[x.call.code] = Parsed[x.call.code]
                => NotDiagnosed(x.call) /\ NotGuessed(x.call) ]_vars
    BY TypeParts, StartsWaiting, NotReviewed
  <1> QED
    BY <1>1, <1>2, InitType, StepType, StepLookups, PTL DEF Spec, DiagnosesAreReviewed

-----------------------------------------------------------------------------
(* The way to the end.                                                     *)

\* The agents that may still run: the gate gives way to the main agent or the renderer,
\* the renderer to its retry.
Later ==
  IF pc = "ended" THEN 0
  ELSE IF run = "gate" THEN 3 ELSE IF run = "retry" THEN 1 ELSE 2

\* The calls left in max_tool_calls, and whether the response can still go back to the
\* model.
CallsLeft == IF guard.total < MaxCalls THEN MaxCalls - guard.total ELSE 0
MayReturn == pc = "tools" /\ queue = <<>> /\ broken = {}
Rounds    == CallsLeft + One(MayReturn)

\* What is left of the response.
Work ==
  IF pc = "model" THEN 2 * Parallel + 1 ELSE 2 * Len(queue) + Cardinality(waiting)

Sooner ==
  \/ Later' < Later
  \/ Later' = Later /\ Rounds' < Rounds
  \/ Later' = Later /\ Rounds' = Rounds /\ Work' < Work

OpenInv == IsFiniteSet(waiting) /\ (pc = "model" => waiting = {})

LEMMA MeasureTypes ==
  ASSUME TypeOK, OpenInv
  PROVE  /\ Later \in Nat /\ CallsLeft \in Nat /\ Rounds \in Nat /\ Work \in Nat
         /\ guard.total \in Nat /\ Len(queue) \in Nat /\ Cardinality(waiting) \in Nat
         /\ MaxCalls \in Nat /\ Parallel \in Nat
  <1>1. guard.total \in Nat /\ Len(queue) \in Nat
    <2>1. guard \in Guards /\ queue \in Seq(Calls)
      BY DEF TypeOK
    <2> QED
      BY <2>1 DEF Guards
  <1>2. Cardinality(waiting) \in Nat
    BY FS_CardinalityType DEF OpenInv
  <1>3. MaxCalls \in Nat /\ Parallel \in Nat
    BY BudgetAssumption, ParallelAssumption
  <1>4. One(MayReturn) \in Nat
    BY DEF One
  <1>5. CallsLeft \in Nat
    BY <1>1, <1>3 DEF CallsLeft
  <1> QED
    BY <1>1, <1>2, <1>3, <1>4, <1>5 DEF Later, Rounds, Work

\* A result or an exception of a call leaves no new call open (_record_tool_result).
LEMMA RecordOpen ==
  ASSUME NEW g, NEW c, NEW result, NEW open, Record(g, c, result, open)
  PROVE  waiting' = open /\ (broken' = {} => broken = {})
  BY DEF Record

LEMMA StepOpen == TypeOK /\ OpenInv /\ [Next]_vars => OpenInv'
  <1> SUFFICES ASSUME TypeOK, OpenInv, [Next]_vars PROVE OpenInv'
    OBVIOUS
  <1>1. CASE Respond
    BY <1>1 DEF Respond, OpenInv
  <1>2. CASE Answer \/ ModelError
    BY <1>2 DEF Answer, ModelError, OpenInv
  <1>3. CASE Return
    BY <1>3 DEF Return, OpenInv
  <1>4. CASE Raise
    BY <1>4, FS_EmptySet DEF Raise, OpenInv
  <1>5. CASE Begin
    <2>1. pc = "tools" /\ pc' = pc
      BY <1>5 DEF Begin
    <2>2. waiting' = waiting \/ \E x : waiting' = waiting \cup {x}
      BY <1>5, RecordOpen DEF Begin
    <2> QED
      BY <2>1, <2>2, FS_AddElement DEF OpenInv
  <1>6. ASSUME NEW x \in waiting, Receive(x) \/ ToolError(x) PROVE OpenInv'
    <2>1. pc = "tools" /\ pc' = pc
      BY <1>6 DEF Receive, ToolError
    <2>2. waiting' = waiting \ {x}
      BY <1>6, RecordOpen DEF Receive, ToolError
    <2> QED
      BY <2>1, <2>2, FS_RemoveElement DEF OpenInv
  <1>7. CASE UNCHANGED vars
    BY <1>7 DEF vars, OpenInv
  <1> QED
    BY <1>1, <1>2, <1>3, <1>4, <1>5, <1>6, <1>7 DEF Next, Step, Ended

\* An exception leaves fewer agents that may still run (_run_repair_answer_gate,
\* _handle_guard_exceeded).
LEMMA BreakEnds ==
  ASSUME TypeOK, pc # "ended", NEW e, Break(e)
  PROVE  Later' < Later
  <1>1. CASE run = "gate"
    <2>1. Go("main")
      BY <1>1 DEF Break
    <2> QED
      BY <1>1, <2>1 DEF Go, Later
  <1>2. CASE run # "gate"
    <2>1. pc' = "ended"
      <3>1. \E o : End(o)
        BY <1>2 DEF Break
      <3> QED
        BY <3>1 DEF End
    <2> QED
      BY <2>1 DEF Later
  <1> QED
    BY <1>1, <1>2

\* A call that finds no calls left is one too many (before_tool_call).
LEMMA BeginSooner ==
  ASSUME TypeOK, OpenInv, OpenInv', Rounds' \in Nat, Begin
  PROVE  Sooner
  <1> DEFINE c == Head(queue)
             g == Counted(c)
             n == Len(queue)
  <1>1. /\ pc = "tools" /\ pc' = "tools" /\ run' = run
        /\ queue # <<>> /\ queue' = Tail(queue)
    BY DEF Begin
  <1>2. c \in Calls /\ n \in Nat \ {0} /\ Len(queue') = n - 1
    <2>1. queue \in Seq(Calls)
      BY DEF TypeOK
    <2> QED
      BY <1>1, <2>1
  <1>3. guard'.total = guard.total + 1
    <2>1. Rest /\ Numbers(guard)
      BY TypeParts
    <2>2. Numbers(g) /\ g.total = guard.total + 1
      BY <1>2, <2>1, CountedNumbers, CountedFields DEF Numbers
    <2>3. guard' = g \/ \E result \in Results : Record(g, c, result, waiting)
      BY <2>1, ReviewType, ResultsType DEF Begin
    <2> HIDE DEF c, g
    <2> QED
      BY <1>2, <2>1, <2>2, <2>3, RecordType
  <1>4. Cardinality(waiting') <= Cardinality(waiting) + 1
    <2>1. waiting' = waiting \/ \E x : waiting' = waiting \cup {x}
      BY RecordOpen DEF Begin
    <2>2. Cardinality(waiting) \in Nat
      BY MeasureTypes
    <2> QED
      BY <2>1, <2>2, FS_AddElement DEF OpenInv
  <1>5. guard.total >= MaxCalls => broken' # {}
    <2> SUFFICES ASSUME guard.total >= MaxCalls PROVE broken' # {}
      OBVIOUS
    <2>1. Over(c)
      BY DEF Over, OverCalls
    <2> QED
      BY <2>1 DEF Begin
  <1> HIDE DEF c, g
  <1>6. Later' = Later
    BY <1>1 DEF Later
  <1>7. Rounds' <= Rounds
    <2>1. ~MayReturn
      BY <1>1 DEF MayReturn
    <2>2. guard.total \in Nat /\ MaxCalls \in Nat
      BY MeasureTypes
    <2>3. CASE guard.total < MaxCalls
      <3>1. CallsLeft' = CallsLeft - 1 /\ CallsLeft \in Nat
        BY <1>3, <2>2, <2>3 DEF CallsLeft
      <3>2. One(MayReturn)' \in {0, 1}
        BY DEF One
      <3> QED
        BY <2>1, <3>1, <3>2 DEF Rounds, One
    <2>4. CASE guard.total >= MaxCalls
      <3>1. CallsLeft' = 0 /\ CallsLeft = 0
        BY <1>3, <2>2, <2>4 DEF CallsLeft
      <3>2. ~MayReturn'
        BY <1>5, <2>4 DEF MayReturn
      <3> QED
        BY <2>1, <3>1, <3>2 DEF Rounds, One
    <2> QED
      BY <2>2, <2>3, <2>4
  <1>8. Work' < Work
    <2>1. Cardinality(waiting) \in Nat /\ Cardinality(waiting') \in Nat
      BY MeasureTypes, FS_CardinalityType DEF OpenInv
    <2>2. Work = 2 * n + Cardinality(waiting) /\ Work' = 2 * (n - 1) + Cardinality(waiting')
      BY <1>1, <1>2 DEF Work
    <2> QED
      BY <1>2, <1>4, <2>1, <2>2
  <1>9. Rounds \in Nat /\ Rounds' \in Nat
    BY MeasureTypes
  <1> QED
    BY <1>6, <1>7, <1>8, <1>9 DEF Sooner

\* So does the answer of a service, or its failure.
LEMMA AnswerSooner ==
  ASSUME TypeOK, OpenInv, Rounds' \in Nat, NEW x \in waiting, Receive(x) \/ ToolError(x)
  PROVE  Sooner
  <1>1. /\ pc = "tools" /\ pc' = "tools" /\ run' = run /\ queue' = queue
        /\ waiting' = waiting \ {x} /\ (broken' = {} => broken = {})
    <2>1. CASE Receive(x)
      BY <2>1, RecordOpen DEF Receive
    <2>2. CASE ToolError(x)
      BY <2>2 DEF ToolError
    <2> QED
      BY <2>1, <2>2
  <1>2. guard'.total = guard.total
    <2>1. CASE Receive(x)
      <3>1. guard' = [guard EXCEPT !.streak = guard'.streak]
        <4>1. PICK result : Record(guard, x.call, result, waiting \ {x})
          BY <2>1 DEF Receive
        <4>2. guard' = Streak(guard, result)
          BY <4>1 DEF Record
        <4> QED
          BY <4>2 DEF Streak, TypeOK, Guards
      <3> QED
        BY <3>1 DEF TypeOK, Guards
    <2>2. CASE ToolError(x)
      BY <2>2 DEF ToolError
    <2> QED
      BY <1>1, <2>1, <2>2
  <1>3. Later' = Later
    BY <1>1 DEF Later
  <1>4. Rounds' <= Rounds
    <2>1. MayReturn' => MayReturn
      BY <1>1 DEF MayReturn
    <2>2. One(MayReturn)' <= One(MayReturn) /\ One(MayReturn)' \in Nat /\ One(MayReturn) \in Nat
      BY <2>1 DEF One
    <2>3. CallsLeft' = CallsLeft /\ CallsLeft \in Nat
      BY <1>2, MeasureTypes DEF CallsLeft
    <2> QED
      BY <2>2, <2>3 DEF Rounds
  <1>5. Work' < Work
    <2>1. Cardinality(waiting') = Cardinality(waiting) - 1
      BY <1>1, FS_RemoveElement DEF OpenInv
    <2>2. Cardinality(waiting) \in Nat /\ Len(queue) \in Nat
      BY MeasureTypes
    <2> QED
      BY <1>1, <2>1, <2>2 DEF Work
  <1>6. Rounds \in Nat /\ Rounds' \in Nat
    BY MeasureTypes
  <1> QED
    BY <1>3, <1>4, <1>5, <1>6 DEF Sooner

LEMMA StepSooner ==
  ASSUME TypeOK, OpenInv, OpenInv', Rounds' \in Nat, Next
  PROVE  Sooner \/ UNCHANGED vars
  <1>1. CASE Respond
    <2>1. /\ pc = "model" /\ pc' = "tools" /\ run' = run /\ waiting' = {}
          /\ guard' = guard
      BY <1>1 DEF Respond, OpenInv
    <2>2. Len(queue') \in 1 .. Parallel /\ queue' # <<>>
      <3>1. PICK n \in 1 .. Parallel : queue' \in [1 .. n -> ToolsOf(run)]
        BY <1>1 DEF Respond
      <3>2. n \in Nat
        BY ParallelAssumption
      <3>3. queue' \in Seq(ToolsOf(run)) /\ Len(queue') = n
        BY <3>1, <3>2
      <3> QED
        BY <3>1, <3>2, <3>3
    <2>3. Rounds' = Rounds
      <3>1. ~MayReturn /\ ~MayReturn'
        BY <2>1, <2>2 DEF MayReturn
      <3> QED
        BY <2>1, <3>1 DEF Rounds, CallsLeft, One
    <2>4. Work' < Work
      <3>1. Work' = 2 * Len(queue') /\ Work = 2 * Parallel + 1
        BY <2>1, <2>2, FS_EmptySet DEF Work
      <3> QED
        BY <2>2, <3>1, MeasureTypes
    <2> QED
      BY <2>1, <2>3, <2>4 DEF Sooner, Later
  <1>2. CASE Answer
    <2>1. /\ pc = "model" /\ run \in Runs
          /\ \/ run = "gate" /\ Go("render")
             \/ run = "render" /\ Go("retry")
             \/ \E o : End(o)
      BY <1>2 DEF Answer, TypeOK
    <2>2. Later' < Later
      BY <2>1 DEF Go, End, Later
    <2> QED
      BY <2>2 DEF Sooner
  <1>3. CASE ModelError
    <2>1. pc # "ended" /\ Break("error")
      BY <1>3 DEF ModelError
    <2> QED
      BY <2>1, BreakEnds DEF Sooner
  <1>4. CASE Return
    <2>1. MayReturn /\ pc = "tools" /\ guard' = guard
      BY <1>4 DEF Return, MayReturn
    <2>2. CASE Go(run)
      <3>1. Later' = Later /\ ~MayReturn'
        BY <2>1, <2>2 DEF Go, Later, MayReturn
      <3>2. CallsLeft' = CallsLeft /\ CallsLeft \in Nat
        BY <2>1, MeasureTypes DEF CallsLeft
      <3>3. Rounds' < Rounds
        BY <2>1, <3>1, <3>2 DEF Rounds, One
      <3> QED
        BY <3>1, <3>3 DEF Sooner
    <2>3. CASE End("question")
      BY <2>1, <2>3 DEF End, Later, Sooner
    <2>4. CASE Break("error")
      BY <2>1, <2>4, BreakEnds DEF Sooner
    <2> QED
      BY <1>4, <2>2, <2>3, <2>4 DEF Return
  <1>5. CASE Raise
    <2>1. pc # "ended" /\ \E e \in broken : Break(e)
      BY <1>5 DEF Raise
    <2> QED
      BY <2>1, BreakEnds DEF Sooner
  <1>6. CASE Begin
    BY <1>6, BeginSooner
  <1>7. ASSUME NEW x \in waiting, Receive(x) \/ ToolError(x) PROVE Sooner
    BY <1>7, AnswerSooner
  <1>8. CASE Ended
    BY <1>8 DEF Ended
  <1> QED
    BY <1>1, <1>2, <1>3, <1>4, <1>5, <1>6, <1>7, <1>8 DEF Next, Step

\* Every step of a request brings it nearer to its end, in a measure of three numbers that
\* cannot decrease for ever: however long the model goes on asking for tools, and whatever
\* fails, the guard and the succession of the agents (_run_repair_answer_gate,
\* _handle_guard_exceeded) leave it finitely many steps.
THEOREM EveryStepNearer ==
  Spec => /\ [](Later \in Nat /\ Rounds \in Nat /\ Work \in Nat)
          /\ [][Sooner]_vars
  <1>1. Init => OpenInv
    BY FS_EmptySet DEF Init, OpenInv
  <1>2. TypeOK /\ OpenInv => Later \in Nat /\ Rounds \in Nat /\ Work \in Nat
    BY MeasureTypes
  <1>3. TypeOK /\ OpenInv /\ OpenInv' /\ (Rounds \in Nat)' /\ [Next]_vars => [Sooner]_vars
    BY StepSooner
  <1> QED
    BY <1>1, <1>2, <1>3, InitType, StepType, StepOpen, PTL DEF Spec
=============================================================================
