---------------------------- MODULE HarnessCase -----------------------------
(***************************************************************************)
(* The clients of DocSearch: a tab of the user page, or one case of the    *)
(* benchmark (run_chat_case and judge_contract of doc_search_bench), which *)
(* sends a message, answers cards through a simulated user and judges how  *)
(* the conversation ended.                                                 *)
(***************************************************************************)
EXTENDS DocSearch

CONSTANTS
  MaxTurns,       \* max_turns of the task
  RequiredRounds  \* required_ask_user_rounds of the task

ASSUME TurnsAssumption == MaxTurns \in 1 .. MaxRequests /\ RequiredRounds \in Nat

VARIABLES
  client,  \* who talks to the session
  case     \* the result of the benchmark case

vars == <<catalogue, cards, request, reply, faults, client, case>>

\* type and http are result.response.response_type and whether http_status is an error.
Unbegun == [status |-> "unbegun", type |-> "", http |-> FALSE, gaps |-> {}, asked |-> 0]

Ends  == {"success_documents", "success_message", "error_http", "max_turns_exceeded",
          "invalid_user_decision", "rollback_unsupported", "user_simulation"}
Types == {"", "ask_user", "documents", "message", "error"}

HarnessInit == Init /\ client \in {"tab", "case"} /\ case = Unbegun

-----------------------------------------------------------------------------
(* The tab: one request at a time, until it is answered, stopped or lost.  *)
(* A card can be answered until the next answer comes; when the answer to  *)
(* it is lost it can be answered again.                                    *)

TabIsFree   == \A r \in Used : request[r].left \/ request[r].state \in {"done", "lost"}
Answerable(r)    == /\ reply[r] # Nothing /\ reply[r].type = "card"
               /\ \A s \in Used : s > r => request[s].state = "lost"

TabAsks     == TabIsFree /\ \E r \in Request : Ask(r)
TabAnswers  == TabIsFree /\ \E c \in Request : Answerable(c) /\
                 \E r \in Request, o \in reply[c].card.options : Pick(r, c, o)
TabStops    == \E r \in Request : Busy(r) /\ Leave(r)

Tab == client = "tab" /\ (TabAsks \/ TabAnswers \/ TabStops) /\ UNCHANGED <<client, case>>

-----------------------------------------------------------------------------
(* The case.                                                               *)

Turns   == Cardinality(Used)
Current == CHOOSE r \in Used : \A s \in Used : s <= r

Stopped(status, type) == [case EXCEPT !.status = status, !.type = type]

Begin ==
  /\ case.status = "unbegun"
  /\ \E r \in Request : Ask(r)
  /\ case' = [case EXCEPT !.status = "waiting"]

\* record_turn and what run_chat_case makes of it.  A response without a type, like the
\* body of an HTTP error, counts as a message.
Receive ==
  /\ case.status = "waiting" /\ reply[Current] # Nothing
  /\ LET type == reply[Current].type IN
     case' = CASE type = "card" /\ Turns < MaxTurns ->
                    [case EXCEPT !.status = "deciding", !.asked = @ + 1]
               [] type = "card" /\ Turns >= MaxTurns ->
                    [Stopped("max_turns_exceeded", "ask_user") EXCEPT !.asked = @ + 1]
               [] type = "http" ->
                    [Stopped("error_http", "message") EXCEPT !.http = TRUE]
               [] type \in {"documents", "message", "error"} ->
                    Stopped(IF reply[Current].docs # {} THEN "success_documents"
                            ELSE "success_message", type)
  /\ UNCHANGED searchVars

\* Mutant: a timeout for slow responses only.
TimeoutWhileBusy ==
  /\ case.status = "waiting" /\ Busy(Current)
  /\ Leave(Current)
  /\ case' = Stopped("error_http", "message")

\* No HTTP answer arrives within timeout_ms, or none can.
Timeout ==
  /\ case.status = "waiting" /\ reply[Current] = Nothing
  /\ Leave(Current)
  /\ case' = Stopped("error_http", "message")

\* The simulated user chooses,
Choose ==
  /\ case.status = "deciding"
  /\ \E r \in Request, o \in reply[Current].card.options : Pick(r, Current, o)
  /\ case' = [case EXCEPT !.status = "waiting"]

\* or fails, decides what is not offered, wants to go back, or gives up.
GiveUp ==
  /\ case.status = "deciding"
  /\ case' \in {Stopped("error_http", "error"),
                Stopped("invalid_user_decision", "ask_user"),
                [Stopped("rollback_unsupported", "ask_user") EXCEPT !.gaps = {"rollback"}],
                Stopped("user_simulation", "ask_user")}
  /\ UNCHANGED searchVars

CaseStep == client = "case" /\ (Begin \/ Receive \/ Timeout \/ Choose \/ GiveUp) /\ UNCHANGED client

Server == (Fault \/ \E r \in Request : ServerStep(r)) /\ UNCHANGED <<client, case>>

Next == Tab \/ CaseStep \/ Server

\* The benchmark goes on whatever the backend does.
Spec == HarnessInit /\ [][Next]_vars /\ WF_vars(CaseStep)

-----------------------------------------------------------------------------
(* The verdict (judge_contract) on a task that expects documents.          *)

HasEnded == case.status \in Ends

\* Mutant: only the HTTP status counts as a failure of the backend.
HttpOnly ==
  LET blamed == ~case.http /\ case.gaps = {}
  IN {c \in {"HTTP_OR_RUNTIME_ERROR"}      : case.http}
     \cup {c \in {"CAPABILITY_GAP_PRESENT"}     : case.gaps # {}}
     \cup {c \in {"EXPECTED_DOCUMENTS_RESPONSE"} : blamed /\ case.type # "documents"}
     \cup {c \in {"ASK_USER_ROUNDS_INSUFFICIENT"} : blamed /\ case.asked < RequiredRounds}

BlockingFailures ==
  LET runtime == case.type = "error" \/ case.http
      blamed  == ~runtime /\ case.gaps = {}
  IN {c \in {"HTTP_OR_RUNTIME_ERROR"}      : runtime}
     \cup {c \in {"CAPABILITY_GAP_PRESENT"}     : case.gaps # {}}
     \cup {c \in {"EXPECTED_DOCUMENTS_RESPONSE"} : blamed /\ case.type # "documents"}
     \cup {c \in {"ASK_USER_ROUNDS_INSUFFICIENT"} : blamed /\ case.asked < RequiredRounds}

-----------------------------------------------------------------------------
(* Properties.                                                             *)

\* A request is answered, and its card saved, only when it is over, and it waits for the
\* model with a draft only.
TypeOK ==
  /\ SearchTypeOK
  /\ client \in {"tab", "case"}
  /\ case \in [status : {"unbegun", "waiting", "deciding"} \cup Ends, type : Types,
               http : BOOLEAN, gaps : SUBSET {"rollback"}, asked : 0 .. MaxTurns]

\* A case without failures ended with documents, after the rounds it required, and they
\* satisfy every answer the user gave.  When the backend answered with an error, or the
\* simulated user failed, the verdict is that and nothing else: the agent is not blamed for
\* documents it could not deliver.
VerdictIsFair ==
  HasEnded =>
    /\ BlockingFailures = {} =>
         /\ reply[Current].type = "documents" /\ reply[Current].docs # {}
         /\ case.asked >= RequiredRounds
         /\ request[Current].card # Nothing =>
              reply[Current].docs \subseteq
                Picked(request[Current].card.chain, request[Current].option).wanted
    /\ (\/ reply[Current] # Nothing /\ reply[Current].type \in {"error", "http"}
        \/ case.type = "error") => BlockingFailures = {"HTTP_OR_RUNTIME_ERROR"}

\* Every case ends, although the session would go on asking as long as there is a model to
\* propose cards, and although the process may die or never answer.
CaseEnds == (client = "case") ~> HasEnded
=============================================================================
