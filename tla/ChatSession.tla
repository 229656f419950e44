---------------------------- MODULE ChatSession ----------------------------
(***************************************************************************)
(* One chat session: the requests a browser tab sends for it, the agent    *)
(* runs that serve them (agent/runtime/service.py: process, stream), the   *)
(* question cards, and the "stop" button, which drops the connection and   *)
(* posts what was received so far (handle_stream_abort).                   *)
(*                                                                         *)
(* Three stores outlive a request: the message history, the deferred       *)
(* states (one per question) and the case context, of which only the       *)
(* pending action matters here.  _active_streams belongs to one process.   *)
(*                                                                         *)
(* A process is one event loop: a handler gives way to the other handlers  *)
(* of its process only at an await or a yield, but those of the other      *)
(* processes interleave with each of its reads and writes.                 *)
(***************************************************************************)
EXTENDS Naturals, FiniteSets, Sequences, SequencesExt

CONSTANTS
  Procs,      \* uvicorn processes
  N,          \* bound: requests the tab sends
  MaxBreaks   \* bound: streams the user stops, and processes killed

ASSUME BoundAssumption == N \in Nat /\ MaxBreaks \in Nat

Requests == 1 .. N

VARIABLES
  history,   \* message_history_store: the messages of the session ...
  stored,    \* ... and whether the store has an entry for it
  deferred,  \* deferred_state_store: the question's call and its message chain
  pending,   \* case context: the call of pending_action, at most one
  req,       \* per request: where its handler is, and what it has read
  active,    \* active[p]: _active_streams of p, the chain up to the prompt, if any
  tab,       \* the request the tab waits for, if any
  card,      \* the question card the user can submit, if any
  aborts,    \* stopped requests whose abort message is on its way
  breaks     \* streams stopped and processes killed so far

vars == <<history, stored, deferred, pending, req, active, tab, card, aborts, breaks>>

\* A message of request r.  Tool calls other than questions are left out.
Msg(part, r) == [part |-> part, by |-> r]

Parts    == {"prompt", "reply", "ask", "return", "partial"}
Kinds    == {"message", "switch", "answer"}
Outcomes == {"none", "reply", "ask", "followup", "clarify", "stop", "guardask", "guardclarify",
             "gate", "error", "lost"}

\* The handler runs on to the next await in these places ...
Sync == {"prepare", "deferred", "context"}
PCs  == Sync \cup {"new", "intent", "start", "run", "await", "closing", "done"}

NewRequest ==
  [pc |-> "new", kind |-> "message", to |-> 0, stream |-> FALSE, on |-> {},
   base |-> <<>>, pending |-> {}, outcome |-> "none", gone |-> FALSE]

Init ==
  /\ history = <<>> /\ stored = FALSE
  /\ deferred = {}
  /\ pending = {}
  /\ req = [r \in Requests |-> NewRequest]
  /\ active = [p \in Procs |-> {}]
  /\ tab = {} /\ card = {}
  /\ aborts = {}
  /\ breaks = 0

\* ... so p's event loop is free if none of its handlers is there,
Free(p) == \A r \in Requests : p \in req[r].on => req[r].pc \notin Sync

\* and r's handler may go on if it is the one running, or if the loop is free.
Runs(r) == req[r].pc \in Sync \/ \A p \in req[r].on : Free(p)

-----------------------------------------------------------------------------
(* The tab.                                                                *)

\* _prepare_request_runtime_deps loads the case context, or resets it.
Loaded(kind) == IF kind = "switch" THEN {} ELSE pending

\* cleanupOngoingState: a message archives the card.
Archived(kind) == IF kind = "answer" THEN card ELSE {}

\* The tab sends its next request: a message, a message after the user agreed to
\* switch topics, or the answer to the card.  Only a message is routed by intent
\* (an await) before the handler goes on.
Send(r, p, kind, stream) ==
  /\ tab = {} /\ req[r].pc = "new"
  /\ \A s \in Requests : s < r => req[s].pc # "new"
  /\ kind = "answer" => card # {}
  /\ Free(p)
  /\ pending' = Loaded(kind)
  /\ req' = [req EXCEPT ![r] =
               [NewRequest EXCEPT
                  !.pc = IF kind = "answer" THEN "prepare" ELSE "intent",
                  !.kind = kind, !.stream = stream, !.on = {p}, !.pending = Loaded(kind),
                  !.to = IF kind = "answer" THEN CHOOSE q \in card : TRUE ELSE 0]]
  /\ tab' = {r}
  /\ card' = Archived(kind)
  /\ UNCHANGED <<history, stored, deferred, active, aborts, breaks>>

\* The outcomes that save a question, and those whose response has a card: the ECU
\* card made from the envelope of a diagnosis tool is only a response.
Asks  == {"ask", "followup", "guardask", "gate"}
Cards == Asks \cup {"clarify", "guardclarify"}

\* Mutant: a new card does not replace the old one.
AddCard(r) == card \cup (IF req[r].outcome \in Cards THEN {r} ELSE {})

\* A card that was answered is marked submitted, also when the answer came to an
\* error, but not when the connection broke.  A new question takes its place.
NextCard(r) ==
  IF req[r].outcome \in Cards THEN {r}
  ELSE IF req[r].outcome = "lost" THEN card
  ELSE card \ {req[r].to}

Deliver(r) ==
  /\ tab = {r} /\ req[r].pc = "done"
  /\ tab' = {}
  /\ card' = NextCard(r)
  /\ req' = [req EXCEPT ![r].stream = FALSE, ![r].outcome = "none"]
  /\ UNCHANGED <<history, stored, deferred, pending, active, aborts, breaks>>

\* stopGenerating: the tab drops the connection, and posts the text received, if
\* any; it does not wait for either.  Only a registered stream sends text, and the
\* end of a stream that came to an error is as good as delivered.
Stop(r, partial) ==
  /\ tab = {r} /\ req[r].stream
  /\ breaks < MaxBreaks
  /\ breaks' = breaks + 1
  /\ partial => /\ req[r].pc \notin {"prepare", "intent", "start"}
                /\ req[r].outcome \notin {"gate", "error", "lost"}
  /\ tab' = {}
  /\ card' = card \ {req[r].to}
  /\ req' = [req EXCEPT ![r].gone = TRUE]
  /\ aborts' = IF partial THEN aborts \cup {r} ELSE aborts
  /\ UNCHANGED <<history, stored, deferred, pending, active>>

-----------------------------------------------------------------------------
(* The handler of a request.                                               *)

\* Mutant: record_user_answer forgets the pending action.
Unchanged(r) == req[r].pending

\* record_user_answer clears the pending action the answer is for.
Cleared(r) == req[r].pending \ {req[r].to}

\* What is left of a request that is over: what the tab has yet to hear of.
Over(r, o) == [NewRequest EXCEPT !.pc = "done", !.to = req[r].to, !.stream = req[r].stream,
                                 !.outcome = IF req[r].gone THEN "none" ELSE o]

\* The handler returns; that of a stream has yet to be closed.
Ended(r, o) ==
  IF req[r].stream
  THEN [Over(r, o) EXCEPT !.pc = "closing", !.on = req[r].on, !.gone = req[r].gone]
  ELSE Over(r, o)

\* _prepare_run_state, then record_user_answer: an answer goes on from the chain
\* of its deferred state, which stays in the store.
PrepareAnswer(r) ==
  LET states == {d \in deferred : d.call = req[r].to}
  IN  /\ req[r].pc = "prepare"
      /\ \/ /\ states = {}
            /\ req' = [req EXCEPT ![r] = Ended(r, "error")]
            /\ UNCHANGED pending
         \/ \E d \in states :
              /\ pending' = Cleared(r)
              /\ req' = [req EXCEPT ![r].pc = IF req[r].stream THEN "start" ELSE "run",
                                    ![r].base = d.chain, ![r].pending = Cleared(r)]
      /\ UNCHANGED <<history, stored, deferred, active, tab, card, aborts, breaks>>

\* A message goes on from the stored history, which a switch empties first.
PrepareMessage(r) ==
  /\ req[r].pc = "intent" /\ Runs(r)
  /\ IF req[r].kind = "switch"
     THEN history' = <<>> /\ stored' = TRUE
     ELSE UNCHANGED <<history, stored>>
  /\ req' = [req EXCEPT ![r].pc = IF req[r].stream THEN "start" ELSE "run",
                        ![r].base = history']
  /\ UNCHANGED <<deferred, pending, active, tab, card, aborts, breaks>>

\* The messages the run starts with: the answer is the return of the call.
Given(r) == Append(req[r].base, Msg(IF req[r].kind = "answer" THEN "return" ELSE "prompt", r))

\* The stream is registered after the start events and the repair answer gate, with
\* its history and its prompt: an answer is in neither unless the gate has run.
Register(r) ==
  /\ req[r].pc = "start" /\ Runs(r)
  /\ \E chain \in {Given(r)} \cup (IF req[r].kind = "answer" THEN {req[r].base} ELSE {}) :
       active' = [p \in Procs |-> IF p \in req[r].on THEN {chain} ELSE active[p]]
  /\ req' = [req EXCEPT ![r].pc = "run"]
  /\ UNCHANGED <<history, stored, deferred, pending, tab, card, aborts, breaks>>

\* The repair answer gate is ready: it saves the context, the run goes on.
GateReady(r) ==
  /\ req[r].pc = (IF req[r].stream THEN "start" ELSE "run") /\ Runs(r)
  /\ pending' = req[r].pending
  /\ UNCHANGED <<history, stored, deferred, req, active, tab, card, aborts, breaks>>

\* Mutant: new_messages_json instead of all_messages_json.
NewOnly(r, o) == <<Msg(IF req[r].kind = "answer" THEN "return" ELSE "prompt", r), Msg("reply", r)>>

\* What is saved as the history: a question ends it unless it was made from the
\* reply, or the loop guard stopped the run.
Saved(r, o) ==
  IF o \in {"ask", "gate"} THEN Append(Given(r), Msg("ask", r))
  ELSE IF o \in {"reply", "followup", "clarify"} THEN Append(Given(r), Msg("reply", r))
  ELSE Given(r)

\* The questions of a non-stream run are worded first (an await).
AfterHistory(r, o) ==
  IF o \notin Asks THEN "context"
  ELSE IF o \in {"ask", "followup"} /\ ~req[r].stream THEN "await"
  ELSE "deferred"

\* The run, or the gate before it, comes to outcome o; the history is saved.
Conclude(r, o) ==
  /\ req[r].pc = (IF o = "gate" /\ req[r].stream THEN "start" ELSE "run") /\ Runs(r)
  /\ history' = Saved(r, o) /\ stored' = TRUE
  /\ req' = [req EXCEPT ![r].pc = AfterHistory(r, o), ![r].outcome = o]
  /\ UNCHANGED <<deferred, pending, active, tab, card, aborts, breaks>>

\* An exception of the model, a tool or the gate's caller: nothing is saved.
Fail(r) ==
  /\ req[r].pc \in {"start", "run", "await"} /\ Runs(r)
  /\ req' = [req EXCEPT ![r] = Ended(r, "error")]
  /\ UNCHANGED <<history, stored, deferred, pending, active, tab, card, aborts, breaks>>

\* Mutant: no state is saved for a question the loop guard asks.
StateUnlessGuard(r) ==
  IF req[r].outcome = "guardask" THEN {}
  ELSE {[call |-> r, chain |-> Append(Given(r), Msg("ask", r))]}

\* The state a question is answered from.  That of the loop guard is the history
\* it saved, without the call.
State(r) ==
  {[call |-> r,
    chain |-> IF req[r].outcome = "guardask" THEN Given(r) ELSE Append(Given(r), Msg("ask", r))]}

WriteDeferred(r) ==
  /\ req[r].pc \in {"await", "deferred"} /\ Runs(r)
  /\ deferred' = deferred \cup State(r)
  /\ req' = [req EXCEPT ![r].pc = "context"]
  /\ UNCHANGED <<history, stored, pending, active, tab, card, aborts, breaks>>

\* The response is a text, or a card; only that of the gate comes before any text,
\* which an abort could keep.
Response(o) ==
  IF o \in Cards \ {"gate"} THEN "ask" ELSE IF o = "stop" THEN "reply" ELSE o

\* _persist_case_context_after_agent_run: the context loaded at the beginning,
\* with the new question, if there is one.
WriteContext(r) ==
  /\ req[r].pc = "context"
  /\ pending' = IF req[r].outcome \in Asks THEN {r} ELSE req[r].pending
  /\ req' = [req EXCEPT ![r] = Ended(r, Response(req[r].outcome))]
  /\ UNCHANGED <<history, stored, deferred, active, tab, card, aborts, breaks>>

\* Mutant: the entry stays.
NotPopped(r) == active

\* The finally clause: the entry of the session goes, whoever made it.
Popped(r) == [p \in Procs |-> IF p \in req[r].on THEN {} ELSE active[p]]

Close(r) ==
  /\ req[r].pc = "closing" /\ Runs(r)
  /\ active' = Popped(r)
  /\ req' = [req EXCEPT ![r] = Over(r, req[r].outcome)]
  /\ UNCHANGED <<history, stored, deferred, pending, tab, card, aborts, breaks>>

\* The server notices that the tab is gone, and cancels the handler.
Cancel(r) ==
  /\ req[r].gone /\ req[r].pc \in {"intent", "start", "run", "closing"} /\ Runs(r)
  /\ active' = IF req[r].pc = "intent" THEN active ELSE Popped(r)
  /\ req' = [req EXCEPT ![r] = Over(r, req[r].outcome)]
  /\ UNCHANGED <<history, stored, deferred, pending, tab, card, aborts, breaks>>

-----------------------------------------------------------------------------
(* The abort message, and a process that is killed.                        *)

\* Mutant: the prompt is put after what is stored, not after what the stream read.
StoredAndPrompt(p) ==
  IF active[p] = {} THEN history
  ELSE Append(history, Last(CHOOSE h \in active[p] : TRUE))

AbortBase(p) == IF active[p] = {} THEN history ELSE CHOOSE h \in active[p] : TRUE

\* handle_stream_abort in process p, which need not be the one of the stream.
Abort(r, p) ==
  /\ r \in aborts /\ Free(p)
  /\ aborts' = aborts \ {r}
  /\ active' = [active EXCEPT ![p] = {}]
  /\ IF active[p] = {} /\ ~stored
     THEN UNCHANGED <<history, stored>>
     ELSE history' = Append(AbortBase(p), Msg("partial", r)) /\ stored' = TRUE
  /\ UNCHANGED <<deferred, pending, req, tab, card, breaks>>

Kill(p) ==
  /\ breaks < MaxBreaks
  /\ \E r \in Requests : p \in req[r].on
  /\ breaks' = breaks + 1
  /\ active' = [active EXCEPT ![p] = {}]
  /\ req' = [r \in Requests |->
               IF p \in req[r].on THEN Over(r, "lost") ELSE req[r]]
  /\ UNCHANGED <<history, stored, deferred, pending, tab, card, aborts>>

Tab(r) ==
  \/ \E p \in Procs, kind \in Kinds, stream \in BOOLEAN : Send(r, p, kind, stream)
  \/ Deliver(r) \/ \E partial \in BOOLEAN : Stop(r, partial)

Handler(r) ==
  \/ PrepareAnswer(r) \/ PrepareMessage(r) \/ Register(r) \/ GateReady(r)
  \/ \E o \in Outcomes \ {"none", "error", "lost"} : Conclude(r, o)
  \/ Fail(r) \/ WriteDeferred(r) \/ WriteContext(r) \/ Close(r) \/ Cancel(r)

Next ==
  \/ \E r \in Requests : Tab(r) \/ Handler(r) \/ \E p \in Procs : Abort(r, p)
  \/ \E p \in Procs : Kill(p)

Spec == Init /\ [][Next]_vars

-----------------------------------------------------------------------------
(* Properties.                                                             *)

Messages == [part : Parts, by : Requests]

\* Types; there is one card at most, and one pending action.
TypeOK ==
  /\ history \in Seq(Messages) /\ stored \in BOOLEAN
  /\ \A d \in deferred : d = [call |-> d.call, chain |-> d.chain]
                         /\ d.call \in Requests /\ d.chain \in Seq(Messages)
  /\ pending \in SUBSET Requests
  /\ req \in [Requests -> [pc : PCs, kind : Kinds, to : 0 .. N, stream : BOOLEAN,
                           on : SUBSET Procs, base : Seq(Messages),
                           pending : SUBSET Requests, outcome : Outcomes, gone : BOOLEAN]]
  /\ \A p \in Procs : active[p] \subseteq Seq(Messages) /\ Cardinality(active[p]) <= 1
  /\ \A ones \in {pending, tab, card} : Cardinality(ones) <= 1 /\ ones \subseteq Requests
  /\ aborts \in SUBSET Requests
  /\ breaks \in 0 .. MaxBreaks

CanBeAnswered(q) == \E d \in deferred : d.call = q

\* The question that the next request finds pending can be answered: on every
\* path its deferred state was saved before the context
\* (_save_agent_ask_user_state, _try_build_guard_ask_user_response and others).
QuestionsCanBeAnswered == \A q \in pending : CanBeAnswered(q)

\* No message is twice in the history, in the chain of a question or in the
\* snapshot of a stream, whatever is stopped, aborted late or answered again.
EachMessageOnce ==
  \A h \in {history} \cup {d.chain : d \in deferred} \cup UNION {active[p] : p \in Procs} :
    Cardinality(ToSet(h)) = Len(h)

\* An entry of _active_streams belongs to a stream that runs: an abort that comes
\* late never takes the snapshot of a finished run for the present one.
ActiveHasStream ==
  \A p \in Procs :
    active[p] # {} =>
      \E r \in Requests :
        /\ p \in req[r].on /\ req[r].stream
        /\ req[r].pc \in {"run", "deferred", "context", "closing"}

\* What the user has said: the prompts and the answers to questions.
Turns(h) ==
  LET kept[i \in 0 .. Len(h)] ==
        IF i = 0 THEN <<>>
        ELSE IF h[i].part \in {"prompt", "return"} THEN Append(kept[i - 1], h[i])
        ELSE kept[i - 1]
  IN  kept[Len(h)]

\* As long as no stream is stopped and no process killed, no saved turn is lost:
\* a save extends the history, unless the user switches topics.  In particular the
\* chain an answer goes on from is never older than the history.
TurnsAreKept ==
  [][ breaks = 0 => history' = <<>> \/ IsPrefix(Turns(history), Turns(history')) ]_vars

\* And a question that was answered is never pending again.
AnsweredIsNotPending ==
  breaks = 0 =>
    \A r \in Requests : req[r].pc = "done" => req[r].to \notin pending

\* "The abort endpoint writes the partial content received so far back to the
\* message history" (the migration document, step 2.2).
AbortKeepsPartial ==
  [][ \A r \in aborts : r \notin aborts' => Msg("partial", r) \in ToSet(history') ]_vars

\* "A later request goes on with ask_user_answer and tool_call_id" (the README of
\* the backend): so for each card that the user can submit.
CardsCanBeAnswered == \A q \in card : CanBeAnswered(q)

\* "Tool call and tool return must appear in pairs" (the ask-user design document,
\* section 7): the chain an answer is added to ends with the call it answers.
AnswerFindsItsCall ==
  \A d \in deferred : Last(d.chain) = Msg("ask", d.call)
=============================================================================
