# A verification of CRS Agent

CRS Agent (`src/modules/crs-agent-upstream`) answers questions of truck mechanics: a
FastAPI backend runs an agent loop (Pydantic AI) with tools for document search, fault
diagnosis, parameter and repair knowledge, and a React page talks to it. Around it are
an admin site that runs benchmarks, a queue that deletes uploaded images, and a
separate benchmark harness (`src/benchmark`). In development one uvicorn process serves
everything; `npm run start:prod` starts **four**, which share the database, Redis and
the file system, but not their memory. Most of what is hard in this code comes from
that: state kept in a process that is taken for state of the system, and read-modify-
write over several stores with awaits, crashes and other processes in between.

This directory holds TLA+ modules for the parts where such steps matter, TLC
configurations that check them on small instances, and proofs checked by TLAPS.
Paths below are relative to `src/modules/crs-agent-upstream/` unless they start with
`src/`; `service.py` is `backend/app/agent/runtime/service.py`.

## 1. Inventory

| Component | State it keeps | Operations | Interacts with | What is hard | What makes it correct |
|---|---|---|---|---|---|
| **OSS image delete queue** (`legacy/services/oss_image_delete_service.py`, `api/image.py`, `main.py`) | table `oss_image_delete_jobs`, one row per object key; per process a worker loop | enqueue, claim a batch, DELETE + HEAD, mark confirmed or failed | Aliyun OSS over HTTP, database shared by all processes | two workers on one row, ORM sessions that write what they read, crash after `running`, time-outs of requests that worked, backoff | a confirmed object is gone; confirmed is final; every deletable object is confirmed in the end |
| **Admin benchmark runs** (`benchmark/doc_search.py`, `api/admin_benchmark.py`) | `status.json`, `predictions.jsonl`, `report.json` of a run; task map of each process | start, pause (cancel the task), resume, run a case | file system shared by the processes; asyncio cancellation | a pause, kill or error between two file writes; the task map is per process | no case twice; a completed run is complete; reports and progress are those of the predictions |
| **Chat session** (`service.py`, `api/chat.py`, stores under `agent/memory`) | per session: message history, deferred states, case context; per process `_active_streams` | `process`, `stream`, `handle_stream_abort`, answer to a question card | user page, Redis, the model | stop racing the end of a stream, abort message handled late or in another process, three stores written one after the other, answers sent twice | a pending question can be answered; no message lost or duplicated |
| **Agent run and loop guard** (`agent/context/guard.py`, `agent/runtime/factory.py`, the gate and the runs in `service.py`, the reviews under `agent/domain`) | counters, tool history and context of one request | respond, tool call, result, review, finalize | the model, services; called by parallel tool calls of a model response | check and count are apart; exceptions between two counters; up to three agents share one guard | a request never makes more calls than a budget allows; no diagnosis is repeated or guessed at; every request is answered |
| **Session stores** (`agent/memory/*_store.py`, `agent/context/store.py`) | Redis keys with a TTL; a local file as fallback | save, load, delete | Redis | outage in the middle of a session; a file per process; torn files | a load returns the last save, or nothing after the TTL |
| **Case context** (`agent/context/manager.py`) | summary, artifacts and pending action of a session | record answer, record results, compact, reset | chat session, doc-search workflow | read-modify-write of the whole object by overlapping requests | limits hold after compaction; no result lost |
| **Parameter sync, index and queries** (`agent/domain/parameter_query/`, `main.py`, `service.py`) | sources, rows, aliases, job rows; an in-memory index per process; the slots and cards of a session | startup sync, rebuild index; question, option of a card, text as answer | an external database; a thread in every process; the case context | commits per source; two syncs at once; list and contents are two queries; cards older than the rows they show | a ready source has its rows; stale content is found; a pick is answered with what was shown |
| **Document-search workflow** (`agent/domain/doc_search/*`, `legacy/services/clarify_service.py`, `service.py` 1137-1463, 2330-2904) | the deferred state of each card with the snapshot of what was found; a background task per stream | plan and search, narrow, make a card by rules or by a model, resume from a card | chat session, search engine, model | chains of cards that merge filters and name documents; cards that expire; cancelled streams whose search goes on | every option leads somewhere and a rule's options leave none of the results it looked at behind; a pick is never lost; nothing is asked twice |
| **Intent routing, diagnosis, repair, image tools** (`agent/domain/*`) | none | calls of models and services | chat session | – | – |
| **Circuit body search and previews** | LRU cache behind a lock | fan-out search, render | doc search | eviction under concurrency | results in request order |
| **Coding engine** (`coding_engine/`) | state of a LangGraph run | plan, code, harness, retry | file system | bounded retries | at most `max_attempts` rounds |
| **Legacy search and vocabulary** (`legacy/services/`) | tables loaded at startup | parse, rank, clarify | database | – | – |
| **Configuration and token identity** | cached configuration rows | refresh, look-up | database | staleness between processes | – |
| **HTTP API, observability** | logs | routing, conversion | all | – | – |
| **Frontends** (`frontend/user/src/App.tsx`, admin pages) | messages and cards shown, the session id in local storage | send, answer a card, stop | chat API | which card may still be submitted, stop without waiting | every card shown as active is accepted |
| **Benchmark harness** (`src/benchmark/`) | result of a case: turns, response type, HTTP status, gaps | send, receive, let a simulated user answer the card, stop, judge | the running backend, a model that plays the user | an open-ended dialogue with a backend that may fail anywhere | every case ends; failures are blamed on who failed |
| **Mini Redis** (`src/benchmark/scripts/mini_redis_server.py`) | a dictionary behind a lock | get, set, delete, expiry | harness | expiry | – |

`PROJECT.json` lists the same components with their status, and under `hazards` each
place where this code can go wrong in a way that a test would hardly reach, with the
property that would notice.

## 2. Modules

| Module | What it is | Lines it models |
|---|---|---|
| `OssImageDelete` | the queue, every process, OSS, faults and time | `oss_image_delete_service.py`, worker loop and lifespan of `main.py`, the endpoint |
| `OssImageDelete_proofs` | theorems about it | – |
| `RunLifecycle` | abstract specification of a benchmark run: phases and the set of predicted cases | what the admin pages show and allow |
| `BenchmarkRun` | the files, endpoints, tasks and shutdown behind it | `DocSearchBenchmarkRunner.run`, `schedule_/pause_benchmark_run`, endpoints |
| `BenchmarkRun_proofs` | theorems about it, with the refinement | – |
| `ChatSession` | requests of one session, their handlers, the stores, the tab | `process`, `stream`, `handle_stream_abort` and what they call; `App.tsx` |
| `ChatSession_proofs` | theorems about it | – |
| `AgentRun` | the agent runs of one request, their tool calls, the guard and the reviews | `guard.py`, the tools in `factory.py`, `review.py` of diagnosis and parameters, `_run_repair_answer_gate`, `_handle_guard_exceeded` of `service.py` |
| `AgentRun_proofs` | theorems about it | – |
| `ParamSync` | the local copy of the pin tables, its synchronisation in every process, the index | `sync_service.py`, `index_store.py`, lifespan of `main.py` |
| `ParamQuery` | the parameter questions of a session over those indexes (extends `ParamSync`) | `parameter_query/service.py`, the parameter workflow of `service.py` |
| `ParamSync_proofs`, `ParamQuery_proofs` | theorems about them | – |
| `DocSearch` | the document search of one session: searches, cards, snapshots, chains of cards | `domain/doc_search/*`, `clarify_service.py`, the document workflow of `service.py`, `doc_search_response_adapter.py`, `deferred_store.py` |
| `HarnessCase` | its clients: the page, or a case of the benchmark harness with its verdict (extends `DocSearch`) | `envs/doc_search/env.py`, `adapters.py`, `judges/contract.py`; `App.tsx` |
| `HarnessCase_proofs` | theorems about both | – |
| `RecursionLemmas` | induction over numbers and the functions it defines, for the proofs | – |
| `MC*` | instances for TLC: processes, keys and cases as model values | – |

All share one view of a process. A uvicorn process is an asyncio event loop: code
without an `await` is atomic with respect to the other coroutines *of the same process*,
but every read and write of shared state is a step of its own with respect to other
processes and to crashes. So each database session of `OssImageDelete` is two steps
(read, commit), each file or store write of `BenchmarkRun` and `ChatSession` is one step, and
guards (`Idle`, `Serving`, `Free`/`Runs`) say when the loop is free to run a handler.
Everything `AgentRun` is about lives in one process; there the steps are the stretches
between two awaits.

### OssImageDelete

`job` is the table (status, attempts, time until `next_retry_at`, rank of creation),
`stored` the bucket, `tx[p]` what an open session of `p` has read, and `pc`, `todo`,
`cur`, `nap` the worker loop of `p`. `EnqueueRead/Commit` are the endpoint;
`ClaimRead/Commit`, `Take` (with DELETE: `DeleteAccepted` or `DeleteRefused`),
`Head`/`HeadFails`, `MarkRead`, `MarkConfirmed`/`MarkFailed` and `Sleep` are the loop.
A DELETE that is answered 202 may leave the object; one that times out may have deleted
it. `Dirty` is SQLAlchemy's rule that only changed columns are written: whether a
session that sets `running` on a row it read as `running` overwrites a confirmation
committed meanwhile depends on it. `Tick` advances time when every process waits.
`Poison` are keys OSS refuses for ever. The configuration is constant.

### BenchmarkRun and RunLifecycle

`status`, `preds` and `report` are the files; `task[p]` is the entry of the task map of
`p` with the locals of `run`: the positions in the dataset left to do, and the two counters. `Pause` and
`Shutdown` set `cancel`; the task sees it at its next await (`Cancelled`), or never
begins (`NeverBegin`). `BodyError` is an exception inside the `try`, `UncaughtError` one
before it or in a handler, `Kill` a killed process. `Lifecycle` instantiates
`RunLifecycle` with the state of `status.json` as the phase and the cases in
`predictions.jsonl` as the set done.

### ChatSession

A message is its part (prompt, reply, question, return of a question, partial reply)
and its request; other tool calls and all texts are left out. `req[r]` holds where the
handler of request `r` is, whether it streams, on which process it is, and what it read:
the chain of messages it goes on from and the pending action. The agent run itself is one step, `Conclude(r, o)`, with the outcomes the code
distinguishes: a reply, a question by the tool call, a follow-up question made from the
reply, an ECU card of a diagnosis tool, a stop by the loop guard (with or without a
question), a question of the repair gate, or an exception (`Fail`). Then the writes
follow in the order of the code: history, deferred state, case context. `tab`, `card`
and `aborts` are the page: the request it waits for, the card that can be submitted, and
abort messages on their way. Abort messages go to any process and at any time.

### AgentRun

One request makes up to three agent runs after one another: perhaps the repair answer
gate and then the renderer, or the main agent if the gate fails. `run` is which one it
is, `pc` whether it waits for the model or for the calls of a response. All share one
`guard` and one `history` (`runtime_tool_history`); `context` is what the case context
knew before. `Respond` takes a response with up to `Parallel` calls into `queue`. `Begin` is
the next call up to its first await: `LoopGuard.before_tool_call` (`Over`, `Counted`: it raises
at the first limit, so a refused call has counted up some counters and not others), the
review (`Review`), then the request to a service, or the result if there is nothing to
wait for. `Receive` is the answer, with `after_tool_call` and the append to the history
(`Record`); `ToolError` is an exception. `Return` goes back to the model, or ends the request with a
question; `Raise` ends the run with an exception, and `Break` is what follows: the gate
swallows every exception, the guard's too, and the main agent runs; the retry falls
back on the first text; otherwise the guard's becomes a card of ECUs, a question or a
best-effort answer. `passed` only records the calls the guard let pass, equal ones numbered.

A fault code is a text. A review looks for it as the call writes it, without blanks around
it and in upper case (`Upper`, `review.py` 26); a result is recorded under the code the parser makes of
it (`Parsed`, `fault_code_parser.py`). For "DTC 523" the two differ, and the review does not
find what the call before has recorded as DTC523 (`LookupsOf`, `DiagnosesOf`). The guard compares texts as
they are (`args`). `SpellingAssumption` says what the parser is assumed to do: to read upper case
as it reads lower case, and to change nothing in its own codes. With diagnosis switched off by
configuration, results are recorded under the text itself; that switch is not modelled.

The model's answers are arbitrary. Two things are wider than the code: calls of a
response may begin after others returned, and whether a result with a choice of ECUs is
among the captured messages of the run is left open (`HasChoice`). `Conclude` and `Fail` of
`ChatSession` are this module in one step.

### ParamSync and ParamQuery

`external` is the knowledge base, edited by others; `knowledge`, `pins`, `aliases` and `job`
are the local tables, shared by the processes; `index[p]` is the index in the memory of
`p`. A version is everything `_needs_resync` compares, the content of a version is known
by its number, and `RowsIn` says which rows the parser finds in it (version 0 is no
content). `pc[p]` is where the thread of `p` is in `sync`: `Begin` (job row), `List`,
`MarkDisabled`, `Fetch`, one `SyncSource` or `MarkFailed` per changed source (each one
commit), `RebuildAliases`, `Finish`, `Rebuild`. MySQL's REPEATABLE READ matters up to the
first commit: until then `Seen` is what the first query `read`; and SQLAlchemy writes
only the columns that differ from what it read (`Flushed`). `SyncFails` is an exception
anywhere, `Kill` the end of a process. Row ids are never used again, so `pins` has the
id its rows begin with.

A question is the set of sources its text names; what the model reads out of the rest is
any of `Intents` (or what replaces it when the model fails), and the rows it selects are
any. `ResolveSource`, `ResolveRows` and `Responses` are `query_async`; `Ask` takes the
index, `Reply` is what follows the model's answer: the slot of the case context, the
pending action, the card. A card carries the text of its question and options with ids
of a source and perhaps a row; it may be answered at any later time, and with any index.
`Background` is any step of the synchronisation.

### DocSearch and HarnessCase

Documents are numbered by their rank; `catalogue` says which values each has in each facet.
A value matches a document that has a value containing it, one of the value's patterns, or an
emission standard in common with it (`Containing`); the type of a document may also be in the
name of its file or folder only (`Named`; `Matches`, `Narrowed`). What a
search finds is open: any set of documents, narrowed by any of the filters that the query's
recognised values permit (`AutoFilters`), refused or not by the checks of its words
(`Initial`). The rest of the pipeline is exact: `RuleCards` looks at the first 50 results
(`MaxLooked`, `Looked`), picks the facet by coverage, score and priority (`Askable`, `Best`),
considers its `max_options` + 10 most frequent values (`MaxConsidered`, `Frequent`), of which those that
are neither in the query nor of another parent become options (`Explicit`), and offers "other"
if those 50 have more values than that; "other" then stands for every result but one document
per named value, also beyond the 50 (`Others`). `PreflightCards` settles
contradictions of the query; `LLMCards` is any proposal the validation of the model's answer
lets through: its options must name half of the first 30 documents in scope (`MaxSeen`). `Chosen` is `finalize_search` with the payload of an option. The scores that
decide whether the rules ask at all (`_should_clarify`) are open too, so every card may also
be skipped.

`request[r]` is a request: begun, waiting for the model (`asking`, with its `draft`), done or
lost; `cards[r]` the deferred state it saved; `reply[r]` what its client got. `Search`,
`Resume`, `Propose` are the parts of `_execute_doc_search_workflow` between awaits that
matter; `Fail` and `Lose` are errors and a killed process, `Expire` is the TTL, and `Leave` a
client that stops listening: as in the code, the search goes on and saves its card. Each
card carries a `chain` for the properties: how many cards were answered, the facets settled,
the documents that satisfy every pick so far (`Picked`). The code has no such record, only
the round; the chain never influences a step except through it.

`HarnessCase` adds who talks to the session. The tab (`TabAsks`, `TabAnswers`, `TabStops`)
sends one request at a time and may answer the last card again after its answer was lost.
A `case` sends the task's message (`Begin`), takes the response or its absence (`Receive`,
`Timeout`), and lets the simulated user choose any option (`Choose`) or fail in one of the
ways the code tells apart (`GiveUp`); `BlockingFailures` is `judge_contract`.

## 3. Runs

| Run | Instance | Checks |
|---|---|---|
| `oss_one_process` | 1 process, 2 keys (1 refused for ever), batch 1, 2 attempts until `failed`, 3 requests, 1 fault | `TypeOK`, `ConfirmedIsTerminal`, `EventuallyConfirmed` |
| `oss_two_processes` | 2 processes, 2 keys, batch 2, 2 requests, 1 fault; symmetric processes | `ConfirmedIsGone`, `RunningIsHeld` |
| `oss_attempts` | 1 process, 1 refused key, `max_attempts` 1 | finds `AttemptsAreBounded` **violated** |
| `benchmark_one_process` | 1 process, 4 cases, 2 faults, any number of pauses, resumes and shutdowns | `TypeOK`, `EachCaseOnce`, `CompletedIsComplete`, `PausedReportIsCurrent`, `ProgressIsCurrent`, `RunningHasTask`, `ImplementsLifecycle`, `Settles` |
| `benchmark_two_processes` | 2 processes, 1 case, no fault | finds `OneLiveTask` **violated** |
| `chat_two_processes` | 2 processes, 3 requests, 1 stop or kill; symmetric processes | `TypeOK`, `QuestionsCanBeAnswered`, `EachMessageOnce`, `ActiveHasStream`, `AnsweredIsNotPending`, `TurnsAreKept` |
| `chat_abort` | 1 process, 1 request, 1 stop | finds `AbortKeepsPartial` **violated** |
| `chat_guard_question` | 1 process, 1 request | finds `AnswerFindsItsCall` **violated** |
| `chat_diagnosis_card` | 1 process, 1 request | finds `CardsCanBeAnswered` **violated** |
| `agent_run` | 1 fault in 2 spellings, 1 ECU, 1 query for titles and parameters, 1 question, 4 contexts; 3 calls, 2 of them external, 1 question, 2 equal ones, streak 1; 2 parallel calls | `TypeOK`, `WithinBudgets`, `NoGainIsBounded`, `DiagnosesAreReviewed`, `AlwaysAnswers` |
| `doc_search_cases` | 3 documents in 3 catalogues, 2 facets with 2 and 4 values, 4 queries (plain, two brands, contradictory, recognised), target 1, 2 to 3 options from 3 values of the first 2 documents, 2 rounds of the rules; 3 requests, 1 fault, 3 turns, 1 required round | `TypeOK`, `OptionsCover`, `PicksAreKept`, `FacetAskedOnce`, `VerdictIsFair`, `CaseEnds` |
| `param_queries` | 2 processes, 2 sources (1 edited), 2 versions of 1 and 2 rows, 2 starts, 1 fault, 2 requests | `TypeOK`, `ReadyHasItsRows`, `StaleIsDetected`, `ChosenRowIsAnswered`, `OneNamedIsAnswered`, `PickIsHonoured`, `PicksConverge`, `NeverServesOlder`, `SuccessIsComplete`, `StartupEnds` |

**Why the bounds are enough.** In the queue, every conflict is between two sessions on
one row, or between an old and a new job for a batch, so two processes and two keys show
them; one key more would only repeat. The batch of one makes the poison job compete with
the other one; `RetryMax` = 2 is the smallest limit that leaves the other job a turn.
`AttemptBound` only saturates the counter once it is above `MaxAttempts`. One fault
suffices for a crash in every place, and the restart that follows meets everything the
crash left behind. In the benchmark, a pause, a fault, a resume and a second fault
can each fall on another of four cases (first, inner, last). In the chat, three requests
are a question, its answer and a message after it, in any order and on any process, and
the one break is a stop of any of them, or the kill of a process. In the agent run, each
budget is smaller than the number of calls, so that each can be the one exceeded; three
calls reach from the gate over the main agent to its second response; two calls in a
response are the least that can overtake each other. Two spellings, the parser's and another, are all
that a review can tell apart. `Known` bounds what the case context may know before the request: nothing,
several ECUs of which none or one was chosen, a failed diagnosis. The proofs hold for any number.
In `param_queries` two versions are enough to tell old from new content, one edited source
beside one that stays shows commits of mixed versions, two starts are two processes at
once or one that restarts after a kill, and two requests are a card and its answer.
`WithinBound` keeps faults out of behaviours with overlaps, and sessions beside at most one
process that has run: a session sees one index at a time, and whose it is does not matter.
In `doc_search_cases` three documents are the least that leave something to choose after a
pick, so that a chain has two cards (of the rules, of the model, or one of each); three values
and at most two named ones make "other" appear; one value contains another, another is in a file's
name only. The rules look at two of the three documents, and of the three catalogues one
has a hidden value that needs "other", one more values than are considered and a document
without any, one a value past the documents looked at; the last of three requests
shows what two picks lead to. `MaxMessages` = 1: cards of different questions share
nothing. `MaxProposed` = 2 bounds the model's cards only; more options are more of the same.
The theorems hold without these bounds.

**Where the system may stop.** The benchmark run is over once it is completed, and the
tab sends at most `N` requests, and a case or tab of `doc_search_cases` ends, so these runs switch the deadlock check off. The queue never stops, and deadlock
is checked there; in the agent run too, where a request that has ended stutters (`Ended`).

**Properties that hold with exceptions.** They are stated in the properties themselves:

- `ConfirmedIsTerminal` is checked for one process only, because with several it is
  false: two workers claim the same `running` job, one confirms it, the other (whose
  HEAD failed) then reads and marks it failed. The job is retried and confirmed again, so what the user
  sees is a late change of status. The database has no lock or version to prevent it.
- `RunningIsHeld`, `RunningHasTask` and `Settles` exclude faults: a killed
  process does leave rows `running` (the worker takes them again) and a benchmark run
  `running` (nothing takes it again; it can be neither paused nor resumed).
- `DiagnosesAreReviewed` is about calls that write the code as the parser does (the earlier
  calls may have written it in any way). For the others the review is blind (section 4). It is about results already recorded: calls of one response do
  bypass the review: a lookup and a diagnosis of the same code, or the same diagnosis
  twice, are sent before either has come back (within the budgets).
- `WithinBudgets` counts the question the guard makes up, not the card of ECUs made
  from a diagnosis (`service.py` 5824-5850), which the code does not hold against
  `max_ask_user_calls`.
- `TurnsAreKept` and `AnsweredIsNotPending` assume that no stream was stopped and no
  process killed: then a request may run beside the one that was stopped, and each
  writes back what it read.
- `ReadyHasItsRows`, `StaleIsDetected`, `NeverServesOlder` and `SuccessIsComplete` exclude
  overlapping synchronisations (`overlap`), which the model has and the code allows: with
  them a record may hold another version's rows, and success be reported for a table that is
  older than the list. Nothing locks; the plan for multi-instance deployment mentions a lock.
- `NeverServesOlder` excludes a source that is gone from the knowledge base: gone between
  list and contents, it is synchronised as ready and empty.
- `OneNamedIsAnswered` and `PickIsHonoured` need the selected source to be in the index. The
  slot of the case context is never cleared: after its source was disabled, every
  question of the session ends in a card without options, whatever ECU it names.
- `PicksConverge` is about two sources: with three named in the text, the source picked
  gives way to the other two, and the cards need not end.
- `ProgressIsCurrent` says nothing of a run that failed or was killed: an exception or a kill between a
  prediction and its progress (`doc_search.py` 1361-1373) leaves the count one short. No pause can come there, there is
  no `await`; and no such run can be resumed, the one `failed`, the other for ever `running`.
- `OptionsCover` asks of a rule's card that its options reach every one of the first 50 documents that
  has a value of the facet, and every document if "other" is offered. What comes after the 50 is
  lost when those need no "other" and no option names its value; so are documents without any value
  when no "other" is offered. A model's card
  may leave out half of what it saw, and all that it did not; a card about contradictory values of the query
  may find nothing, since it replaces a filter that was already applied.
- `VerdictIsFair` blames the backend when it answered with an error and the simulated
  user's provider when it failed. A timeout has no status and an empty body, which counts as a
  message (`env.py` 983), so that the verdict is EXPECTED_DOCUMENTS_RESPONSE, as it is
  for a simulated user that stops or decides nonsense. An error answered with status 200
  gets the final status `success_message` (the verdict is right all the same).

**Fairness.** `OssImageDelete`: weak fairness of each worker, of the commit of a request,
of restarts and of the clock: an event loop runs what is ready, every `await` of OSS has
a time-out (httpx), a supervisor restarts a process. Strong fairness, per process and
key, of `DeleteAccepted(p, k, TRUE)` and of `Head`: OSS may fail any number of times
but not for ever, unless the key is poison. Nothing is assumed of the clients.
`BenchmarkRun`: weak fairness of the task's steps (each case has time-outs, the loop runs
ready tasks) and of `Exit`. `AgentRun`: weak fairness of `Step`: the event loop runs what is ready, and models and
services answer or time out. Nothing is assumed of what they answer; that a request ends
is the guard's doing. `ParamQuery`: weak fairness of the synchronisation of each process: the thread
runs on, its calls have time-outs; nothing is assumed of requests, edits or restarts. `HarnessCase`: weak fairness of the steps of the
case (`CaseStep`), a sequential program whose HTTP calls have a time-out; nothing is assumed
of the backend, the tab or the model. `ChatSession` has no liveness property and no fairness.

## 4. What disagrees with the code's own statements

1. `max_attempts` does not limit attempts: a job marked `failed` is retryable and tried
   for ever (`oss_attempts`).
2. "This run already has an active task" is checked in one process's memory: in
   production a paused run can be resumed twice at once (`benchmark_two_processes`).
3. The partial answer of a stopped stream is lost if the server notices the dropped
   connection before it handles the abort message and the session has no history yet
   (`chat_abort`).
4. The loop guard's question is saved without the tool call that its answer is the
   return of (`chat_guard_question`).
5. The ECU card of a diagnosis has no deferred state, so its answer is always refused
   (`chat_diagnosis_card`).

A further one has no run of its own. `设计方案/AgentLoop受控调度实施计划.md` 384 demands that no ECU be guessed
after a lookup with several candidates. The review that is to prevent it looks for the code as
the call writes it (`review.py` 26), and the lookup is recorded as the parser writes it (`fault_diagnosis/service.py` 82):
with "DTC 523" in both calls it is recorded as DTC523, the review finds nothing, and the diagnosis is
asked for any ECU. A repeated diagnosis passes in the same way; "P0101-16" (P010116) and "SPN 520 FMI 3" (SPN520_FMI3)
are alike. `DiagnosesAreReviewed` leaves such calls out; without its condition on the spelling TLC finds this
sequence of six steps.

## 5. Proofs

`OssImageDelete_proofs` proves, for **every** set of processes, finite set of keys,
batch size, delays, attempt limit and bounds (the named assumptions of
`OssImageDelete`):

- `Typing`: `Spec => []TypeOK`. `TypeOK` is not inductive: `_mark_failed` reads the
  attempts of the row in its session, so the session must have read that row. `Typed`
  adds `MarkFits`: a session that marks has read exactly the current key. That no delay
  exceeds `retry_max_seconds` is `RetryDelayType`; that the rank of a new row is a number
  needs the table to be finite (`BornType`).
- `ConfirmedGone`: `Spec => []ConfirmedIsGone`. The strengthening `Gone` adds
  `OneAtATime` (a worker has at most one current key) and `AboutToConfirm` (the object
  of a worker about to confirm is gone). Nothing creates objects, so these survive
  the steps of every other process; whether the row was meanwhile changed by someone
  else does not matter.
- `RunningAlwaysHeld`: `Spec => []RunningIsHeld`. `RunningHeld` is stronger: a
  worker whose marking session read another status than `running` does not count (`Holds`), because what it
  writes need not reach the row (`Dirty`). `BatchFits` says that a claim overwrites no batch. A
  worker then lets go of a job only by writing another status.
- `OneProcessConfirmedIsTerminal`: with at most one process (`Alone`), `Spec =>
  ConfirmedIsTerminal`. The invariant `Owned` says that the open session is current
  (`SessionCurrent`: what it read is still in the table), that no job the worker still
  has to process is confirmed (`Unfinished`), and that the session fits the place in the loop
  (`PlaceFits`). This is exactly what a second process breaks.

`AgentRun_proofs` proves, for every set of codes, ECUs, queries and questions, every budget and
any number of parallel calls (`BudgetAssumption`, `ParallelAssumption`), every `Known` context and every way to spell and parse codes
within `SpellingAssumption`:

- `Typing`: `Spec => []TypeOK`. Its last conjuncts are not types but the order of the
  counters: a counter checked later is at most one checked earlier, whatever limit
  was exceeded between them (`CountedNumbers`). They make the type inductive, because the number of a
  call is the counter of its arguments at the time.
- `BudgetsHold`: `Spec => []WithinBudgets`. The counters themselves are not bounded: a
  refused call counts up the counter it fails at. `BudgetInv` says that every counter is at least the
  number of calls it let pass and that this number is at most the budget; a call that
  passes finds every counter below its limit (`Passing`), one that does not
  leaves `passed` alone (`Refusing`). `GuardQuestion` keeps room for the guard's own question.
- `NoGainHolds`: `Spec => []NoGainIsBounded`. `Trailing` ties the streak to the history:
  it is at least the length of the run without gain at the end of it. A result that is lost
  leaves the streak larger than the history shows, hence not equal.
- `ReviewsHold`: `Spec => DiagnosesAreReviewed`, for a call whose code is spelled as the parser spells it, whatever
  the spelling of the earlier ones. `LookupResults` says what the history records of
  lookups; a review looks at the last result of a kind (`LatestOf`, by `GreatestNumber`), so an
  ambiguous lookup that it lets pass was followed by an unambiguous one or the ECU was chosen (`NotReviewed`).
- `EveryStepNearer`: the part of `AlwaysAnswers` that is about steps. `Sooner` compares three numbers in turn:
  the agents that may still run (`Later`), the calls left in `max_tool_calls` (`Rounds`, one more while
  the response can go back to the model) and what is left of the response (`Work`). Each step
  decreases the first that it changes: a call begun when none is left raises, so its response
  cannot go back to the model (`BeginSooner`), and after an exception no agent runs that ran before
  (`BreakEnds`). That some step is always possible, and taken, is left to TLC.

`ParamSync_proofs` proves, for every set of sources and processes, any number of versions,
faults and starts, about `SyncSpec`, the synchronisation alone:

- `Typing`, `RowsBelong`, `StaleDetected`, `ServesNoOlder` and `SuccessComplete`, from one
  inductive invariant, `IInv`. Its parts: `OneWriter` (without overlaps at most one
  thread is between its job row and its end), `FirstReads` (its first transaction then sees the
  tables as they are), `KnownVersions`, `ListedVersions` and `FetchedVersions` (what was
  recorded, listed and fetched is at most the knowledge base's version, and what was fetched at least what was
  listed), `TodoIsLive`, `Records` (a record's content is its version or a later one),
  `SoFarComplete` (the sources of the list already dealt with), `ServedIsOlder` (an index holds nothing
  newer than the tables). `StaleIsDetected` needs all of them: that a record which is
  up to date by its version has content at least as new is a fact about the order of the
  two queries.

`ParamQuery_proofs` proves, for every number of sources, rows, processes and requests and
every answer of the model, about `Spec`, the sessions and the synchronisation together:

- `QueryTyping` and `OneNamed`: a question that names one ECU is answered about it.
- `ChosenRowAnswered`: `Spec => []ChosenRowIsAnswered`. A row's number may be used again by the
  next synchronisation, its database id may not. `OneContent` ties ids to contents over all
  that is `Known`: the tables, every index, the options of every card, however old, and ids to come.
- `PickHonoured` and `PicksEnd` (`[]PickIsHonoured`, `[]PicksConverge`): consequences of the types
  and of what `Responses` returns; a pick of a source leads to its rows, a pick of a row to an answer.
- `ComposedSync` and `ComposedSteps`: the promises of the synchronisation hold beside the sessions,
  which only read the tables and load an index where there is none, so they preserve `IInv` too.

`HarnessCase_proofs` proves, for every set of documents, facets, values, queries, every
catalogue, any options a model proposes and any number of requests, rounds and faults:

- `TypeCorrect`, `PicksAlwaysKept` and `FacetAlwaysAskedOnce`, from one inductive invariant,
  `Inv`. Its heart is `SoundCard`: the documents of a card satisfy every pick of its
  chain, and every option's filters still name each settled facet (`Settles`) and agree
  with what the user reads (`Agrees`). A search makes a `SoundFound` with an empty chain; a
  card made from a sound find is sound, whoever makes it (`RuleCardsType`,
  `PreflightCardsType`, `LLMCardsType`); an option of a sound card finds something sound
  for the longer chain (`ChosenIsSound`). `Kept` carries this through requests, drafts and
  replies: a card that was shown and the one that is stored are the same unless it expired.
  A settled facet is then among the filters, which `Askable` excludes. `Counted` and
  `InOrder` (requests are used in order, one per round) bound what a case asks.
- `OptionsAlwaysCover`: `Spec => []OptionsCover`. `Covers` says it of every card when it is saved, and that a
  draft's documents pass its filters (`Clean`). Documents "other" leaves out are the representatives
  of the explicit options, which match one of those (`RepresentativesMatch`, an induction over
  the recursive `taken`); a card without "other" has as many options as the first `MaxLooked` documents have values,
  and these differ, so they are all of them (`ExplicitCovers`, `RuleCardShape`). This needs documents to have finitely many values
  (`ValueAssumption`), which a catalogue in a table has.
- `VerdictAlwaysFair`: `Spec => []VerdictIsFair`. `Answers`: documents are shown only where there are some.
  `Judged`: until the case has ended it has no gaps; afterwards its result and gaps are those of
  its last reply, or of having no reply because its client left (`Outcome`), and these no longer change.

`BenchmarkRun_proofs` proves, for one process (`Alone`), every dataset without a repeated case
(`CasesAssumption`) and any number of kills and failed file operations:

- `Typing`, `NoCaseTwice`, `CompletedComplete`, `PausedCurrent`, `ProgressCurrent`, `NeverStuck`
  and `Refinement`, from one inductive invariant, `Inv`. Its parts: `Counted` (every
  prediction is of another case, hence as many as cases processed), `LeftFits` (what a task has left is
  exactly what is not in the file, except for the case being recorded), `CountersFit`
  (its own counters are those of the file), `PlaceFits` (which status the file may have where the task is),
  `ReportFits`, `CompletedFits` and `PageFits` (`status.json` shows the counts of the file wherever the task is,
  except between a prediction and its progress, and where an exception left it). A task that resumes counts from the file, so the
  invariant does not care how often a run was interrupted. With two processes `LeftFits` is false as
  soon as both have a task: that is the finding of `benchmark_two_processes`.
- `Refinement`: each step of the task or an endpoint maps to a step of `RunLifecycle` or leaves
  status and predictions alone; the last case and the report need `CompletedFits`.

`ChatSession_proofs` proves, for any number of processes, requests, stops and kills:

- `Typing`: `Spec => []TypeOK`, with `Typed`, which adds what the requests have read.
- `EntryHasStream`: `Spec => []ActiveHasStream`. `Places` says that a request is on one process,
  that only streams register and that only the others word a question.
- `PendingCanBeAnswered`: `Spec => []QuestionsCanBeAnswered`. `Answerable` adds the pending
  actions the requests have read, which they write back later, and a request about to write its
  own question; deferred states are never deleted.
- `NoMessageTwice`: `Spec => []EachMessageOnce`. `GoodChains` is about every chain there is, those
  the requests have read included: no message of a request that has not read its own yet
  (`Unread`), no partial text of one whose abort may still come (`Live`). Both sets
  only shrink, except that unread requests become live (`Older`), so a chain once `Fine` stays so, and what
  a request appends is new.
- `AnsweredStaysAnswered`: `Spec => []AnsweredIsNotPending`. `OneAtATime`: without stops and kills the
  tab waits for the one request that is not over, and the context holds what that one read.
- `NoTurnLost`: `Spec => TurnsAreKept`. `LevelChains`: without stops and kills, the chain of the question
  the user can answer, or of the one just saved, says what the history says (`Level`), and what a run goes on from
  says at least that. `OwnStates`: no question has a state before its request has saved it, so an
  answer finds the chain of that very card. What `Turns` makes of a longer chain is `TurnsOfAppend`,
  an induction over the chain.

`RecursionLemmas` provides what these inductions need. The library's induction theorems take an
operator as a parameter; the lemmas here are about sets of numbers instead: every nonempty set has a least
and, if bounded, a greatest member (`LeastNumber`, from the library's `WFMin`; `GreatestNumber`),
a set with 0 and with k + 1 for each of its k has all numbers (`UpTo`), and a function defined by a first
value and a step exists (`Recursion`). A recursive definition is then known by its equation.
`(SUBSET S) \ {{}}` is written with its parentheses: TLAPS reads `SUBSET S \ {{}}` otherwise than SANY.

Every safety invariant and every action property of the passing runs is the conclusion of a theorem. Only
model-checked are the liveness properties (`EventuallyConfirmed`, `Settles`, `AlwaysAnswers`,
`StartupEnds`, `CaseEnds`), which need reasoning about fairness and ENABLED that TLAPS
does not support. Of `AlwaysAnswers`, `EveryStepNearer` proves that no request goes on for ever. `BenchmarkRun` and `ConfirmedIsTerminal` are proved for one process only: with
more they are wrong.

## 6. What is not modelled

- Of the queue: the check of delete tokens (the model enumerates the keys that pass),
  changes of the configuration while it runs.
- Of benchmark runs: what a case does, the evaluation, the Excel exports, the upload of a
  dataset; files torn by a crash in the middle of a write (a write is one step).
- Of the parameter knowledge: how a table is parsed and a row matched, manual
  synchronisation (nothing calls it), the model's prompts.
- Of the chat: a second tab on the same session (the page restores the session from local
  storage, `App.tsx` 1286-1340); the retry button of an error message (3046-3049),
  which can send an old answer later; Redis outages and expiry; images; texts.
- Of the agent run: the parser's expressions (that it does not read all of its own codes again, say P010116,
  is one of its limits), the switch that turns diagnosis off, retries of a malformed response, the planner of the renderer (it has
  no tools), token streaming, which of the results the best-effort answer is made from.
- Of document search: what the engine finds, scores, dimension tables and texts; values that differ in blanks or
  punctuation only, which the options merge and the match of a document's type does not; the wording
  of the query plan; the circuit-body search that adds pages to the answer; the case
  context; the cache of results.
- Of the benchmark harness: the `search_api` track, preprocessing of images, the judges of
  pages and coordinates, scores and reports, retries inside the simulated user.
- Whole components, with the reason, as `not_modelled` in `PROJECT.json`: stateless calls
  of models and services, text processing over loaded tables, rendering, logging.
