------------------------ MODULE ChatSession_proofs ------------------------
(***************************************************************************)
(* Theorems about ChatSession, for any number of processes, requests,      *)
(* stops and kills: the types, that a pending question can be answered,    *)
(* that no message is twice in a chain, that _active_streams has no entry  *)
(* without its stream, and that without stops and kills an answered        *)
(* question is never pending again and no turn of the user is lost.        *)
(***************************************************************************)
EXTENDS ChatSession, RecursionLemmas, FiniteSetTheorems, SequenceTheorems, TLAPS

-----------------------------------------------------------------------------
(* Types.                                                                  *)

Chain == Seq(Messages)

Request == [pc : PCs, kind : Kinds, to : 0 .. N, stream : BOOLEAN, on : SUBSET Procs,
            base : Chain, pending : SUBSET Requests, outcome : Outcomes, gone : BOOLEAN]

One(S) == \A x, y \in S : x = y

Typed ==
  /\ history \in Chain /\ stored \in BOOLEAN
  /\ deferred \in SUBSET [call : Requests, chain : Chain]
  /\ req \in [Requests -> Request]
  /\ active \in [Procs -> SUBSET Chain]
  /\ pending \in SUBSET Requests /\ tab \in SUBSET Requests
  /\ card \in SUBSET Requests /\ aborts \in SUBSET Requests
  /\ breaks \in 0 .. MaxBreaks
  /\ One(pending) /\ One(tab) /\ One(card)
  /\ \A p \in Procs : One(active[p])
  /\ \A r \in Requests : One(req[r].pending)

\* At most one element.
LEMMA OneIsAtMostOne == \A S : One(S) => Cardinality(S) <= 1
  <1> SUFFICES ASSUME NEW S, One(S) PROVE Cardinality(S) <= 1
    OBVIOUS
  <1>1. CASE S = {}
    <2>1. Cardinality({}) = 0
      BY FS_EmptySet
    <2> QED
      BY <1>1, <2>1
  <1>2. CASE S # {}
    <2>1. PICK x \in S : TRUE
      BY <1>2
    <2>2. S = {x}
      BY <2>1 DEF One
    <2>3. Cardinality({x}) = 1
      BY FS_Singleton
    <2> QED
      BY <2>2, <2>3
  <1> QED
    BY <1>1, <1>2

LEMMA TypedIsTypeOK == Typed => TypeOK
  <1> SUFFICES ASSUME Typed PROVE TypeOK
    OBVIOUS
  <1> USE DEF Typed
  <1>1. \A d \in deferred : d = [call |-> d.call, chain |-> d.chain]
                            /\ d.call \in Requests /\ d.chain \in Seq(Messages)
    BY DEF Chain
  <1>2. \A p \in Procs : active[p] \subseteq Seq(Messages) /\ Cardinality(active[p]) <= 1
    BY OneIsAtMostOne DEF Chain
  <1>3. \A ones \in {pending, tab, card} : Cardinality(ones) <= 1 /\ ones \subseteq Requests
    BY OneIsAtMostOne
  <1> QED
    BY <1>1, <1>2, <1>3 DEF TypeOK, Chain, Request

\* The messages of a request, and what a run saves (all_messages_json).
LEMMA MsgType == \A r \in Requests, part \in Parts : Msg(part, r) \in Messages
  BY DEF Msg, Messages

LEMMA ChainTypes ==
  ASSUME Typed, NEW r \in Requests
  PROVE  /\ Given(r) \in Chain
         /\ \A o \in Outcomes : Saved(r, o) \in Chain
         /\ State(r) \in SUBSET [call : Requests, chain : Chain]
  <1>1. req[r].base \in Chain
    BY DEF Typed, Request
  <1>2. /\ Msg("return", r) \in Messages /\ Msg("prompt", r) \in Messages
        /\ Msg("ask", r) \in Messages /\ Msg("reply", r) \in Messages
    BY MsgType DEF Parts
  <1>3. Given(r) \in Chain
    BY <1>1, <1>2 DEF Given, Chain
  <1>4. Append(Given(r), Msg("ask", r)) \in Chain /\ Append(Given(r), Msg("reply", r)) \in Chain
    BY <1>2, <1>3 DEF Chain
  <1> HIDE DEF Chain
  <1>5. \A o \in Outcomes : Saved(r, o) \in Chain
    BY <1>3, <1>4 DEF Saved
  <1>6. State(r) \in SUBSET [call : Requests, chain : Chain]
    BY <1>3, <1>4 DEF State
  <1> QED
    BY <1>3, <1>5, <1>6

\* What is left of a request that is over is a request.
LEMMA OverType ==
  ASSUME Typed, NEW r \in Requests, NEW o \in Outcomes
  PROVE  /\ Over(r, o) \in Request /\ Ended(r, o) \in Request
         /\ One(Over(r, o).pending) /\ One(Ended(r, o).pending)
  <1>1. req[r] \in Request
    BY DEF Typed
  <1>2. NewRequest \in Request
    <2>1. <<>> \in Chain /\ 0 \in 0 .. N
      BY BoundAssumption DEF Chain
    <2> QED
      BY <2>1 DEF NewRequest, Request, PCs, Sync, Kinds, Outcomes
  <1>3. "done" \in PCs /\ "closing" \in PCs /\ "none" \in Outcomes
    BY DEF PCs, Outcomes
  <1>4. Over(r, o) \in Request
    BY <1>1, <1>2, <1>3 DEF Over, Request
  <1>5. Ended(r, o) \in Request
    BY <1>1, <1>3, <1>4 DEF Ended, Request
  <1>6. Over(r, o).pending = {}
    BY DEF Over, NewRequest
  <1>7. Ended(r, o).pending = {}
    BY <1>4, <1>6 DEF Ended, Request
  <1> QED
    BY <1>4, <1>5, <1>6, <1>7 DEF One

LEMMA TypedInit == Init => Typed
  <1> SUFFICES ASSUME Init PROVE Typed
    OBVIOUS
  <1>1. NewRequest \in Request
    <2>1. <<>> \in Chain /\ 0 \in 0 .. N
      BY BoundAssumption DEF Chain
    <2> QED
      BY <2>1 DEF NewRequest, Request, PCs, Sync, Kinds, Outcomes
  <1>2. <<>> \in Chain /\ 0 \in 0 .. MaxBreaks
    BY BoundAssumption DEF Chain
  <1>3. One({}) /\ NewRequest.pending = {}
    BY DEF One, NewRequest
  <1> QED
    BY <1>1, <1>2, <1>3 DEF Init, Typed

\* A request stays one when fields of it change.
LEMMA PlaceType == \A q \in Request, c \in PCs, o \in Outcomes :
                     [q EXCEPT !.pc = c, !.outcome = o] \in Request
  BY DEF Request

LEMMA BaseType == \A q \in Request, c \in PCs, b \in Chain :
                    [q EXCEPT !.pc = c, !.base = b] \in Request
  BY DEF Request

LEMMA StreamType == \A q \in Request, s \in BOOLEAN, o \in Outcomes :
                      [q EXCEPT !.stream = s, !.outcome = o] \in Request
  BY DEF Request

LEMMA GoneType == \A q \in Request, g \in BOOLEAN : [q EXCEPT !.gone = g] \in Request
  BY DEF Request

\* A handler that changes its own place only.
LEMMA OneRequest ==
  ASSUME Typed, NEW r \in Requests, NEW u \in Request, One(u.pending),
         req' = [req EXCEPT ![r] = u]
  PROVE  req' \in [Requests -> Request] /\ \A s \in Requests : One(req'[s].pending)
  BY DEF Typed

LEMMA TypedStep == Typed /\ [Next]_vars => Typed'
  <1> SUFFICES ASSUME Typed, [Next]_vars PROVE Typed'
    OBVIOUS
  <1>1. /\ history \in Chain /\ stored \in BOOLEAN
        /\ deferred \in SUBSET [call : Requests, chain : Chain]
        /\ req \in [Requests -> Request]
        /\ active \in [Procs -> SUBSET Chain]
        /\ pending \in SUBSET Requests /\ tab \in SUBSET Requests
        /\ card \in SUBSET Requests /\ aborts \in SUBSET Requests
        /\ breaks \in 0 .. MaxBreaks
        /\ One(pending) /\ One(tab) /\ One(card)
        /\ \A p \in Procs : One(active[p])
        /\ \A r \in Requests : One(req[r].pending)
        /\ N \in Nat /\ MaxBreaks \in Nat
    BY BoundAssumption DEF Typed
  <1>2. /\ One({}) /\ \A x : One({x}) /\ \A S, T : S \subseteq T /\ One(T) => One(S)
        /\ <<>> \in Chain /\ {} \in SUBSET Chain
    BY DEF One, Chain
  <1>3. ASSUME NEW r \in Requests PROVE req[r] \in Request
    BY <1>1
  <1>4. \A s \in {"new", "intent", "start", "run", "await", "closing", "done",
                  "prepare", "deferred", "context"} : s \in PCs
    BY DEF PCs, Sync
  <1>5. ASSUME NEW r \in Requests, NEW p \in Procs, NEW kind \in Kinds, NEW stream \in BOOLEAN,
               Send(r, p, kind, stream)
        PROVE  Typed'
    <2>1. Loaded(kind) \in SUBSET Requests /\ One(Loaded(kind))
      BY <1>1, <1>2 DEF Loaded
    <2>2. Archived(kind) \in SUBSET Requests /\ One(Archived(kind))
      BY <1>1, <1>2 DEF Archived
    <2> DEFINE to == IF kind = "answer" THEN CHOOSE q \in card : TRUE ELSE 0
               u == [NewRequest EXCEPT
                      !.pc = IF kind = "answer" THEN "prepare" ELSE "intent",
                      !.kind = kind, !.stream = stream, !.on = {p}, !.pending = Loaded(kind),
                      !.to = to]
    <2>3. to \in 0 .. N
      <3>1. card # {} => (CHOOSE q \in card : TRUE) \in card
        OBVIOUS
      <3> QED
        BY <1>1, <1>5, <3>1 DEF Send, Requests
    <2> HIDE DEF to
    <2>4. u \in Request /\ u.pending = Loaded(kind)
      BY <1>2, <1>4, <2>1, <2>3 DEF NewRequest, Request, Outcomes
    <2>5. req' = [req EXCEPT ![r] = u]
      BY <1>5 DEF Send, to
    <2> HIDE DEF u
    <2>6. req' \in [Requests -> Request] /\ \A s \in Requests : One(req'[s].pending)
      BY <2>1, <2>4, <2>5, OneRequest
    <2> QED
      BY <1>1, <1>2, <1>5, <2>1, <2>2, <2>6 DEF Send, Typed
  <1>6. ASSUME NEW r \in Requests, Deliver(r) PROVE Typed'
    <2> DEFINE u == [req[r] EXCEPT !.stream = FALSE, !.outcome = "none"]
    <2>1. u \in Request /\ u.pending = req[r].pending
      <3>1. FALSE \in BOOLEAN /\ "none" \in Outcomes
        BY DEF Outcomes
      <3>2. u \in Request
        BY <1>3, <3>1, StreamType, Zenon
      <3> QED
        BY <1>3, <3>2 DEF Request
    <2>2. req' = [req EXCEPT ![r] = u]
      BY <1>1, <1>6 DEF Deliver
    <2> HIDE DEF u
    <2>3. req' \in [Requests -> Request] /\ \A s \in Requests : One(req'[s].pending)
      BY <1>1, <2>1, <2>2, OneRequest
    <2>4. NextCard(r) \in SUBSET Requests /\ One(NextCard(r))
      BY <1>1, <1>2 DEF NextCard
    <2> QED
      BY <1>1, <1>2, <1>6, <2>3, <2>4 DEF Deliver, Typed
  <1>7. ASSUME NEW r \in Requests, NEW partial \in BOOLEAN, Stop(r, partial) PROVE Typed'
    <2> DEFINE u == [req[r] EXCEPT !.gone = TRUE]
    <2>1. u \in Request /\ u.pending = req[r].pending
      <3>1. TRUE \in BOOLEAN
        OBVIOUS
      <3>2. u \in Request
        BY <1>3, <3>1, GoneType, Zenon
      <3> QED
        BY <1>3, <3>2 DEF Request
    <2>2. req' = [req EXCEPT ![r] = u]
      BY <1>1, <1>7 DEF Stop
    <2> HIDE DEF u
    <2>3. req' \in [Requests -> Request] /\ \A s \in Requests : One(req'[s].pending)
      BY <1>1, <2>1, <2>2, OneRequest
    <2>4. breaks' \in 0 .. MaxBreaks
      BY <1>1, <1>7 DEF Stop
    <2> QED
      BY <1>1, <1>2, <1>7, <2>3, <2>4 DEF Stop, Typed
  <1>8. ASSUME NEW r \in Requests, PrepareAnswer(r) PROVE Typed'
    <2>1. CASE req' = [req EXCEPT ![r] = Ended(r, "error")] /\ pending' = pending
      <3>1. "error" \in Outcomes
        BY DEF Outcomes
      <3>2. req' \in [Requests -> Request] /\ \A s \in Requests : One(req'[s].pending)
        BY <2>1, <3>1, OverType, OneRequest
      <3> QED
        BY <1>1, <1>8, <2>1, <3>2 DEF PrepareAnswer, Typed
    <2>2. ASSUME NEW d \in deferred, pending' = Cleared(r),
                 req' = [req EXCEPT ![r].pc = IF req[r].stream THEN "start" ELSE "run",
                                    ![r].base = d.chain, ![r].pending = Cleared(r)]
          PROVE  Typed'
      <3>1. Cleared(r) \in SUBSET Requests /\ One(Cleared(r))
        BY <1>1, <1>2, <1>3 DEF Cleared, Request
      <3> DEFINE c == IF req[r].stream THEN "start" ELSE "run"
                 b == d.chain
                 left == Cleared(r)
                 u == [req[r] EXCEPT !.pc = c, !.base = b, !.pending = left]
      <3>2. b \in Chain /\ c \in PCs /\ left \in SUBSET Requests /\ req[r] \in Request
        BY <1>1, <1>3, <1>4, <3>1
      <3>4. req' = [req EXCEPT ![r] = u]
        BY <1>1, <2>2
      <3> HIDE DEF c, b, left
      <3>3. u \in Request /\ u.pending = left
        BY <3>2 DEF Request
      <3> HIDE DEF u
      <3>5. req' \in [Requests -> Request] /\ \A s \in Requests : One(req'[s].pending)
        BY <3>1, <3>3, <3>4, OneRequest DEF left
      <3> QED
        BY <1>1, <1>8, <2>2, <3>1, <3>5 DEF PrepareAnswer, Typed
    <2> QED
      BY <1>8, <2>1, <2>2 DEF PrepareAnswer
  <1>9. ASSUME NEW r \in Requests, PrepareMessage(r) PROVE Typed'
    <2>1. history' \in Chain /\ stored' \in BOOLEAN
      BY <1>1, <1>2, <1>9 DEF PrepareMessage
    <2> DEFINE u == [req[r] EXCEPT !.pc = IF req[r].stream THEN "start" ELSE "run",
                                   !.base = history']
    <2>2. u \in Request /\ u.pending = req[r].pending
      <3>1. (IF req[r].stream THEN "start" ELSE "run") \in PCs
        BY <1>4
      <3>2. u \in Request
        BY <1>3, <2>1, <3>1, BaseType, Zenon
      <3> QED
        BY <1>3, <3>2 DEF Request
    <2>3. req' = [req EXCEPT ![r] = u]
      BY <1>1, <1>9 DEF PrepareMessage
    <2> HIDE DEF u
    <2>4. req' \in [Requests -> Request] /\ \A s \in Requests : One(req'[s].pending)
      BY <1>1, <2>2, <2>3, OneRequest
    <2> QED
      BY <1>1, <1>9, <2>1, <2>4 DEF PrepareMessage, Typed
  <1>10. ASSUME NEW r \in Requests, Register(r) PROVE Typed'
    <2> DEFINE u == [req[r] EXCEPT !.pc = "run"]
    <2>1. u \in Request /\ u.pending = req[r].pending
      BY <1>3, <1>4 DEF Request
    <2>2. req' = [req EXCEPT ![r] = u]
      BY <1>1, <1>10 DEF Register
    <2> HIDE DEF u
    <2>3. req' \in [Requests -> Request] /\ \A s \in Requests : One(req'[s].pending)
      BY <1>1, <2>1, <2>2, OneRequest
    <2>4. PICK chain \in {Given(r)} \cup (IF req[r].kind = "answer" THEN {req[r].base} ELSE {}) :
            active' = [p \in Procs |-> IF p \in req[r].on THEN {chain} ELSE active[p]]
      BY <1>10 DEF Register
    <2>5. chain \in Chain
      BY <1>3, ChainTypes DEF Request
    <2>6. active' \in [Procs -> SUBSET Chain] /\ \A p \in Procs : One(active'[p])
      BY <1>1, <1>2, <2>4, <2>5
    <2> QED
      BY <1>1, <1>10, <2>3, <2>6 DEF Register, Typed
  <1>11. ASSUME NEW r \in Requests, GateReady(r) PROVE Typed'
    BY <1>1, <1>3, <1>11 DEF GateReady, Typed, Request
  <1>12. ASSUME NEW r \in Requests, NEW o \in Outcomes, Conclude(r, o) PROVE Typed'
    <2> DEFINE u == [req[r] EXCEPT !.pc = AfterHistory(r, o), !.outcome = o]
    <2>1. u \in Request /\ u.pending = req[r].pending
      <3>1. AfterHistory(r, o) \in PCs
        BY <1>4 DEF AfterHistory
      <3>2. u \in Request
        BY <1>3, <3>1, PlaceType, Zenon
      <3> QED
        BY <1>3, <3>2 DEF Request
    <2>2. req' = [req EXCEPT ![r] = u]
      BY <1>1, <1>12 DEF Conclude
    <2> HIDE DEF u
    <2>3. req' \in [Requests -> Request] /\ \A s \in Requests : One(req'[s].pending)
      BY <1>1, <2>1, <2>2, OneRequest
    <2>4. history' \in Chain /\ stored' \in BOOLEAN
      BY <1>12, ChainTypes DEF Conclude
    <2> QED
      BY <1>1, <1>12, <2>3, <2>4 DEF Conclude, Typed
  <1>13. ASSUME NEW r \in Requests, Fail(r) PROVE Typed'
    <2>1. "error" \in Outcomes
      BY DEF Outcomes
    <2>2. req' \in [Requests -> Request] /\ \A s \in Requests : One(req'[s].pending)
      BY <1>13, <2>1, OverType, OneRequest DEF Fail
    <2> QED
      BY <1>1, <1>13, <2>2 DEF Fail, Typed
  <1>14. ASSUME NEW r \in Requests, WriteDeferred(r) PROVE Typed'
    <2> DEFINE u == [req[r] EXCEPT !.pc = "context"]
    <2>1. u \in Request /\ u.pending = req[r].pending
      BY <1>3, <1>4 DEF Request
    <2>2. req' = [req EXCEPT ![r] = u]
      BY <1>1, <1>14 DEF WriteDeferred
    <2> HIDE DEF u
    <2>3. req' \in [Requests -> Request] /\ \A s \in Requests : One(req'[s].pending)
      BY <1>1, <2>1, <2>2, OneRequest
    <2>4. State(r) \in SUBSET [call : Requests, chain : Chain]
      BY ChainTypes
    <2>5. deferred' \in SUBSET [call : Requests, chain : Chain]
      BY <1>1, <1>14, <2>4 DEF WriteDeferred
    <2> QED
      BY <1>1, <1>14, <2>3, <2>5 DEF WriteDeferred, Typed
  <1>15. ASSUME NEW r \in Requests, WriteContext(r) PROVE Typed'
    <2>1. Response(req[r].outcome) \in Outcomes
      BY <1>3 DEF Response, Request, Outcomes
    <2>2. req' \in [Requests -> Request] /\ \A s \in Requests : One(req'[s].pending)
      BY <1>15, <2>1, OverType, OneRequest DEF WriteContext
    <2>3. pending' \in SUBSET Requests /\ One(pending')
      BY <1>1, <1>2, <1>3, <1>15 DEF WriteContext, Request
    <2> QED
      BY <1>1, <1>15, <2>2, <2>3 DEF WriteContext, Typed
  <1>16. ASSUME NEW r \in Requests, Close(r) \/ Cancel(r) PROVE Typed'
    <2>1. req[r].outcome \in Outcomes
      BY <1>3 DEF Request
    <2>2. req' \in [Requests -> Request] /\ \A s \in Requests : One(req'[s].pending)
      BY <1>16, <2>1, OverType, OneRequest DEF Close, Cancel
    <2>3. Popped(r) \in [Procs -> SUBSET Chain] /\ \A p \in Procs : One(Popped(r)[p])
      BY <1>1, <1>2 DEF Popped
    <2>4. active' \in [Procs -> SUBSET Chain] /\ \A p \in Procs : One(active'[p])
      BY <1>1, <1>16, <2>3 DEF Close, Cancel
    <2> QED
      BY <1>1, <1>16, <2>2, <2>4 DEF Close, Cancel, Typed
  <1>17. ASSUME NEW r \in Requests, NEW p \in Procs, Abort(r, p) PROVE Typed'
    <2>1. AbortBase(p) \in Chain
      BY <1>1 DEF AbortBase
    <2>2. Append(AbortBase(p), Msg("partial", r)) \in Chain
      BY <2>1, MsgType DEF Chain, Parts
    <2>3. history' \in Chain /\ stored' \in BOOLEAN
      BY <1>1, <1>17, <2>2 DEF Abort
    <2>4. active' \in [Procs -> SUBSET Chain] /\ \A q \in Procs : One(active'[q])
      BY <1>1, <1>2, <1>17 DEF Abort
    <2> QED
      BY <1>1, <1>17, <2>3, <2>4 DEF Abort, Typed
  <1>18. ASSUME NEW p \in Procs, Kill(p) PROVE Typed'
    <2>1. "lost" \in Outcomes
      BY DEF Outcomes
    <2>2. \A r \in Requests : Over(r, "lost") \in Request /\ One(Over(r, "lost").pending)
      BY <2>1, OverType
    <2>3. req' \in [Requests -> Request] /\ \A s \in Requests : One(req'[s].pending)
      BY <1>1, <1>18, <2>2 DEF Kill
    <2>4. active' \in [Procs -> SUBSET Chain] /\ \A q \in Procs : One(active'[q])
      BY <1>1, <1>2, <1>18 DEF Kill
    <2>5. breaks' \in 0 .. MaxBreaks
      BY <1>1, <1>18 DEF Kill
    <2> QED
      BY <1>1, <1>18, <2>3, <2>4, <2>5 DEF Kill, Typed
  <1>19. CASE UNCHANGED vars
    BY <1>1, <1>19 DEF vars, Typed
  <1> QED
    BY <1>5, <1>6, <1>7, <1>8, <1>9, <1>10, <1>11, <1>12, <1>13, <1>14, <1>15, <1>16, <1>17,
       <1>18, <1>19
    DEF Next, Tab, Handler

LEMMA TypedHolds == Spec => []Typed
  BY TypedInit, TypedStep, PTL DEF Spec

\* Types; there is one card at most, and one pending action.
THEOREM Typing == Spec => []TypeOK
  BY TypedHolds, TypedIsTypeOK, PTL

-----------------------------------------------------------------------------
(* Where a request is, and the questions.                                  *)

\* A handler runs in one process; only a stream is registered, and only a request
\* that is no stream words its question before it saves it.
Places ==
  \A r \in Requests :
    /\ One(req[r].on)
    /\ req[r].pc = "start" => req[r].stream
    /\ req[r].pc = "await" => ~req[r].stream

\* What a request found pending can be answered, and its own question too before
\* the context names it.
Answerable ==
  /\ QuestionsCanBeAnswered
  /\ \A r \in Requests :
       /\ \A q \in req[r].pending : CanBeAnswered(q)
       /\ req[r].pc = "context" /\ req[r].outcome \in Asks => CanBeAnswered(r)

-----------------------------------------------------------------------------
(* Chains of messages.                                                     *)

Once(h) == \A i, j \in 1 .. Len(h) : h[i] = h[j] => i = j

Early == {"new", "intent", "prepare"}

\* The requests that have not read their messages yet, and those of which a partial
\* text may still come.
Unread == {r \in Requests : req[r].pc \in Early}
Live == tab \cup aborts

\* No message twice, none of an unread request, no partial text of a live one.
Fine(h, unread, live) ==
  /\ h \in Chain /\ Once(h)
  /\ \A i \in 1 .. Len(h) :
       h[i].by \notin unread /\ (h[i].part = "partial" => h[i].by \notin live)

\* A chain that has no message of r.
Without(h, r) == \A i \in 1 .. Len(h) : h[i].by # r

\* A request that the tab waits for, or that was stopped, has begun.
Begun ==
  /\ \A r \in tab : req[r].pc # "new"
  /\ \A r \in aborts : req[r].pc \notin Early /\ r \notin tab

\* All chains are fine: the history, those of the questions and of the streams, and
\* those the requests have read, in which there is no message of their own.
GoodChains ==
  /\ Fine(history, Unread, Live)
  /\ \A d \in deferred : Fine(d.chain, Unread, Live)
  /\ \A p \in Procs : \A h \in active[p] : Fine(h, Unread, Live)
  /\ \A r \in Requests : Fine(req[r].base, Unread, Live) /\ Without(req[r].base, r)

-----------------------------------------------------------------------------
(* Without stops and kills.                                                *)

\* The tab waits for the one request that is not over; what that has read of the
\* case context is what the context holds; questions answered are of requests that
\* are over, and are not pending.
OneAtATime ==
  breaks = 0 =>
    /\ \A r \in Requests : req[r].pc \notin {"new", "done"} => r \in tab
    /\ \A r \in Requests :
         req[r].pc \notin {"new", "closing", "done"} => pending = req[r].pending
    /\ \A r \in card : req[r].pc = "done"
    /\ \A r \in Requests : req[r].to # 0 => req[req[r].to].pc = "done"
    /\ \A r \in Requests : req[r].pc # "prepare" => req[r].to \notin pending


-----------------------------------------------------------------------------
(* What the actions do to a request.                                       *)

LEMMA OverFields ==
  ASSUME Typed, NEW r \in Requests, NEW o \in Outcomes
  PROVE  /\ Over(r, o).pc = "done" /\ Over(r, o).to = req[r].to /\ Over(r, o).on = {}
         /\ Over(r, o).base = <<>> /\ Over(r, o).pending = {}
         /\ Over(r, o).stream = req[r].stream
  BY DEF Over, NewRequest

LEMMA EndedFields ==
  ASSUME Typed, NEW r \in Requests, NEW o \in Outcomes
  PROVE  /\ Ended(r, o).pc = (IF req[r].stream THEN "closing" ELSE "done")
         /\ Ended(r, o).to = req[r].to
         /\ Ended(r, o).on = (IF req[r].stream THEN req[r].on ELSE {})
         /\ Ended(r, o).base = <<>> /\ Ended(r, o).pending = {}
         /\ Ended(r, o).stream = req[r].stream
  <1>1. Over(r, o) \in Request
    BY OverType
  <1> QED
    BY <1>1, OverFields DEF Ended, Request

\* A step of one request leaves the others where they are.
LEMMA Others ==
  ASSUME Typed, NEW r \in Requests,
         Tab(r) \/ Handler(r) \/ \E p \in Procs : Abort(r, p)
  PROVE  \A s \in Requests : s # r => req'[s] = req[s]
  BY DEF Typed, Tab, Handler, Send, Deliver, Stop, PrepareAnswer, PrepareMessage, Register,
         GateReady, Conclude, Fail, WriteDeferred, WriteContext, Close, Cancel, Abort

\* The tab's next request (sendMessage).
LEMMA SendFields ==
  ASSUME Typed, NEW r \in Requests, NEW p \in Procs, NEW kind \in Kinds, NEW stream \in BOOLEAN,
         Send(r, p, kind, stream)
  PROVE  /\ req[r].pc = "new"
         /\ req'[r].pc = (IF kind = "answer" THEN "prepare" ELSE "intent")
         /\ req'[r].on = {p} /\ req'[r].base = <<>> /\ req'[r].stream = stream
         /\ req'[r].pending = pending' /\ pending' \in {pending, {}}
         /\ req'[r].to \in card \cup {0} /\ card' \in {card, {}} /\ tab' = {r}
         /\ kind # "answer" => req'[r].to = 0 /\ card' = {}
         /\ kind = "answer" => req'[r].to \in card /\ card' = card
  <1> DEFINE to == IF kind = "answer" THEN CHOOSE q \in card : TRUE ELSE 0
             u == [NewRequest EXCEPT
                    !.pc = IF kind = "answer" THEN "prepare" ELSE "intent",
                    !.kind = kind, !.stream = stream, !.on = {p}, !.pending = Loaded(kind),
                    !.to = to]
  <1>1. req' = [req EXCEPT ![r] = u]
    BY DEF Send
  <1>2. /\ kind # "answer" => to = 0
        /\ kind = "answer" => to \in card
    <2>1. card # {} => (CHOOSE q \in card : TRUE) \in card
      OBVIOUS
    <2> QED
      BY <2>1 DEF Send
  <1> HIDE DEF to
  <1>3. /\ u.pc = (IF kind = "answer" THEN "prepare" ELSE "intent")
        /\ u.on = {p} /\ u.base = <<>> /\ u.stream = stream /\ u.pending = Loaded(kind)
        /\ u.to = to
    BY DEF NewRequest
  <1> HIDE DEF u
  <1>4. req'[r] = u
    BY <1>1 DEF Typed
  <1> QED
    BY <1>2, <1>3, <1>4 DEF Send, Loaded, Archived

\* An answer goes on from the chain of its question, or is refused (_prepare_run_state).
LEMMA AnswerFields ==
  ASSUME Typed, NEW r \in Requests, PrepareAnswer(r)
  PROVE  /\ req[r].pc = "prepare"
         /\ \/ /\ ~CanBeAnswered(req[r].to) /\ pending' = pending
               /\ req' = [req EXCEPT ![r] = Ended(r, "error")]
            \/ /\ pending' = Cleared(r) /\ req'[r].pending = Cleared(r)
               /\ req'[r].pc = (IF req[r].stream THEN "start" ELSE "run")
               /\ \E d \in deferred : d.call = req[r].to /\ req'[r].base = d.chain
               /\ req'[r].on = req[r].on /\ req'[r].stream = req[r].stream
               /\ req'[r].to = req[r].to
  <1> DEFINE refused == req' = [req EXCEPT ![r] = Ended(r, "error")]
  <1>1. req[r].pc = "prepare"
    BY DEF PrepareAnswer
  <1>2. CASE {d \in deferred : d.call = req[r].to} = {} /\ refused /\ pending' = pending
    BY <1>1, <1>2 DEF CanBeAnswered
  <1>3. ASSUME NEW d \in deferred, d.call = req[r].to, pending' = Cleared(r),
               req' = [req EXCEPT ![r].pc = IF req[r].stream THEN "start" ELSE "run",
                                  ![r].base = d.chain, ![r].pending = Cleared(r)]
        PROVE  /\ pending' = Cleared(r) /\ req'[r].pending = Cleared(r)
               /\ req'[r].pc = (IF req[r].stream THEN "start" ELSE "run")
               /\ \E e \in deferred : e.call = req[r].to /\ req'[r].base = e.chain
               /\ req'[r].on = req[r].on /\ req'[r].stream = req[r].stream
               /\ req'[r].to = req[r].to
    <2> DEFINE c == IF req[r].stream THEN "start" ELSE "run"
               b == d.chain
               left == Cleared(r)
               u == [req[r] EXCEPT !.pc = c, !.base = b, !.pending = left]
    <2>1. req' = [req EXCEPT ![r] = u] /\ req \in [Requests -> Request]
      BY <1>3 DEF Typed
    <2>2. req[r] \in Request /\ b = d.chain /\ pending' = left
          /\ c = (IF req[r].stream THEN "start" ELSE "run") /\ left = Cleared(r)
      BY <1>3, <2>1
    <2> HIDE DEF c, b, left
    <2>3. /\ u.pc = c /\ u.base = b /\ u.pending = left
          /\ u.on = req[r].on /\ u.stream = req[r].stream /\ u.to = req[r].to
      BY <2>2 DEF Request
    <2>4. req'[r] = u
      BY <2>1
    <2> HIDE DEF u
    <2> QED
      BY <1>3, <2>2, <2>3, <2>4
  <1> QED
    BY <1>1, <1>2, <1>3 DEF PrepareAnswer

\* A message goes on from the stored history, or from an empty one.
LEMMA MessageFields ==
  ASSUME Typed, NEW r \in Requests, PrepareMessage(r)
  PROVE  /\ req[r].pc = "intent"
         /\ req'[r].pc = (IF req[r].stream THEN "start" ELSE "run")
         /\ req'[r].base = history' /\ history' \in {history, <<>>}
         /\ req'[r].on = req[r].on /\ req'[r].stream = req[r].stream
         /\ req'[r].to = req[r].to /\ req'[r].pending = req[r].pending
  <1> DEFINE c == IF req[r].stream THEN "start" ELSE "run"
             u == [req[r] EXCEPT !.pc = c, !.base = history']
  <1>1. req' = [req EXCEPT ![r] = u] /\ req \in [Requests -> Request]
    BY DEF Typed, PrepareMessage
  <1>2. req[r] \in Request /\ c = (IF req[r].stream THEN "start" ELSE "run")
    BY <1>1
  <1> HIDE DEF c
  <1>3. /\ u.pc = c /\ u.base = history' /\ u.pending = req[r].pending
        /\ u.on = req[r].on /\ u.stream = req[r].stream /\ u.to = req[r].to
    BY <1>2 DEF Request
  <1>4. req'[r] = u
    BY <1>1
  <1> HIDE DEF u
  <1> QED
    BY <1>2, <1>3, <1>4 DEF PrepareMessage

\* The run comes to an outcome, and goes on to the place that saves it.
LEMMA ConcludeFields ==
  ASSUME Typed, NEW r \in Requests, NEW o \in Outcomes, Conclude(r, o)
  PROVE  /\ req'[r].pc = AfterHistory(r, o) /\ req'[r].outcome = o
         /\ req'[r].base = req[r].base /\ req'[r].on = req[r].on
         /\ req'[r].stream = req[r].stream /\ req'[r].to = req[r].to
         /\ req'[r].pending = req[r].pending
         /\ history' = Saved(r, o)
  <1> DEFINE c == AfterHistory(r, o)
             u == [req[r] EXCEPT !.pc = c, !.outcome = o]
  <1>1. req' = [req EXCEPT ![r] = u] /\ req \in [Requests -> Request]
    BY DEF Typed, Conclude
  <1>2. req[r] \in Request /\ c = AfterHistory(r, o)
    BY <1>1
  <1> HIDE DEF c
  <1>3. /\ u.pc = c /\ u.base = req[r].base /\ u.pending = req[r].pending /\ u.outcome = o
        /\ u.on = req[r].on /\ u.stream = req[r].stream /\ u.to = req[r].to
    BY <1>2 DEF Request
  <1>4. req'[r] = u
    BY <1>1
  <1> HIDE DEF u
  <1> QED
    BY <1>2, <1>3, <1>4 DEF Conclude


\* The other steps change one field or two.
LEMMA SmallFields ==
  ASSUME Typed, NEW r \in Requests,
         Deliver(r) \/ Register(r) \/ GateReady(r) \/ WriteDeferred(r)
           \/ \E partial \in BOOLEAN : Stop(r, partial)
  PROVE  /\ req'[r].base = req[r].base /\ req'[r].on = req[r].on
         /\ req'[r].to = req[r].to /\ req'[r].pending = req[r].pending
         /\ ~Deliver(r) => req'[r].stream = req[r].stream
         /\ Deliver(r) => req[r].pc = "done" /\ req'[r].pc = "done"
         /\ Register(r) => req[r].pc = "start" /\ req'[r].pc = "run"
         /\ WriteDeferred(r) => /\ req[r].pc \in {"await", "deferred"}
                                /\ req'[r].pc = "context"
         /\ GateReady(r) \/ (\E partial \in BOOLEAN : Stop(r, partial)) => req'[r].pc = req[r].pc
  <1>1. req \in [Requests -> Request] /\ req[r] \in Request
    BY DEF Typed
  <1>2. ASSUME req' = [req EXCEPT ![r].stream = FALSE, ![r].outcome = "none"]
        PROVE  /\ req'[r].base = req[r].base /\ req'[r].on = req[r].on /\ req'[r].pc = req[r].pc
               /\ req'[r].to = req[r].to /\ req'[r].pending = req[r].pending
    BY <1>1, <1>2 DEF Request
  <1>3. ASSUME NEW c \in PCs, req' = [req EXCEPT ![r].pc = c]
        PROVE  /\ req'[r].base = req[r].base /\ req'[r].on = req[r].on /\ req'[r].pc = c
               /\ req'[r].to = req[r].to /\ req'[r].pending = req[r].pending
               /\ req'[r].stream = req[r].stream
    BY <1>1, <1>3 DEF Request
  <1>4. ASSUME req' = [req EXCEPT ![r].gone = TRUE]
        PROVE  /\ req'[r].base = req[r].base /\ req'[r].on = req[r].on /\ req'[r].pc = req[r].pc
               /\ req'[r].to = req[r].to /\ req'[r].pending = req[r].pending
               /\ req'[r].stream = req[r].stream
    BY <1>1, <1>4 DEF Request
  <1>5. "run" \in PCs /\ "context" \in PCs
    BY DEF PCs, Sync
  <1>6. CASE Deliver(r)
    <2>1. req[r].pc = "done" /\ ~Register(r) /\ ~WriteDeferred(r)
      BY <1>6 DEF Deliver, Register, WriteDeferred
    <2> QED
      BY <1>2, <1>6, <2>1 DEF Deliver
  <1>7. CASE Register(r)
    <2>1. req[r].pc = "start" /\ req'[r].pc = "run" /\ ~Deliver(r) /\ ~WriteDeferred(r)
      BY <1>3, <1>5, <1>7 DEF Deliver, Register, WriteDeferred
    <2>2. ~GateReady(r) /\ ~ \E partial \in BOOLEAN : Stop(r, partial)
      <3>1. req' # req
        BY <2>1
      <3>2. ASSUME NEW partial \in BOOLEAN, Stop(r, partial) PROVE FALSE
        BY <1>4, <2>1, <3>2 DEF Stop
      <3> QED
        BY <3>1, <3>2 DEF GateReady
    <2> QED
      BY <1>3, <1>5, <1>7, <2>1, <2>2 DEF Register
  <1>8. CASE WriteDeferred(r)
    <2>1. /\ req[r].pc \in {"await", "deferred"} /\ req'[r].pc = "context"
          /\ ~Deliver(r) /\ ~Register(r)
      BY <1>3, <1>5, <1>8 DEF Deliver, Register, WriteDeferred
    <2>2. ~GateReady(r) /\ ~ \E partial \in BOOLEAN : Stop(r, partial)
      <3>1. req' # req
        BY <2>1
      <3>2. ASSUME NEW partial \in BOOLEAN, Stop(r, partial) PROVE FALSE
        BY <1>4, <2>1, <3>2 DEF Stop
      <3> QED
        BY <3>1, <3>2 DEF GateReady
    <2> QED
      BY <1>3, <1>5, <1>8, <2>1, <2>2 DEF WriteDeferred
  <1>9. CASE GateReady(r)
    <2>1. req' = req /\ ~Deliver(r) /\ ~Register(r) /\ ~WriteDeferred(r)
      <3>1. req' = req
        BY <1>9 DEF GateReady
      <3>2. req[r].pc \in {"start", "run"}
        BY <1>9 DEF GateReady
      <3> QED
        BY <1>3, <1>5, <3>1, <3>2 DEF Deliver, Register, WriteDeferred
    <2> QED
      BY <2>1
  <1>10. ASSUME NEW partial \in BOOLEAN, Stop(r, partial),
                ~Register(r), ~WriteDeferred(r), ~Deliver(r)
         PROVE  /\ req'[r].base = req[r].base /\ req'[r].on = req[r].on /\ req'[r].pc = req[r].pc
                /\ req'[r].to = req[r].to /\ req'[r].pending = req[r].pending
                /\ req'[r].stream = req[r].stream
    BY <1>4, <1>10 DEF Stop
  <1> QED
    BY <1>6, <1>7, <1>8, <1>9, <1>10

\* The handlers that end: what is left of the request.
LEMMA EndFields ==
  ASSUME Typed, NEW r \in Requests, Fail(r) \/ WriteContext(r) \/ Close(r) \/ Cancel(r)
  PROVE  /\ req'[r].pc \in {"closing", "done"}
         /\ req'[r].pc = "closing" => req[r].stream /\ req[r].pc # "closing"
         /\ req'[r].to = req[r].to /\ req'[r].base = <<>> /\ req'[r].pending = {}
         /\ req'[r].on = (IF req'[r].pc = "closing" THEN req[r].on ELSE {})
         /\ req'[r].stream = req[r].stream
         /\ ~(Close(r) \/ Cancel(r)) => req'[r].pc = (IF req[r].stream THEN "closing" ELSE "done")
  <1>1. req \in [Requests -> Request] /\ req[r] \in Request
    BY DEF Typed
  <1>2. "error" \in Outcomes /\ Response(req[r].outcome) \in Outcomes /\ req[r].outcome \in Outcomes
    BY <1>1 DEF Response, Request, Outcomes
  <1>3. CASE Fail(r) \/ WriteContext(r)
    <2>1. PICK o \in Outcomes : req' = [req EXCEPT ![r] = Ended(r, o)]
      BY <1>2, <1>3 DEF Fail, WriteContext
    <2>2. req'[r] = Ended(r, o)
      BY <1>1, <2>1
    <2>3. req[r].pc # "closing"
      BY <1>3 DEF Fail, WriteContext
    <2>4. /\ req'[r].pc = (IF req[r].stream THEN "closing" ELSE "done")
          /\ req'[r].to = req[r].to
          /\ req'[r].on = (IF req[r].stream THEN req[r].on ELSE {})
          /\ req'[r].base = <<>> /\ req'[r].pending = {}
          /\ req'[r].stream = req[r].stream
      BY <2>2, EndedFields
    <2>5. CASE req[r].stream
      BY <2>3, <2>4, <2>5
    <2>6. CASE ~req[r].stream
      BY <2>3, <2>4, <2>6
    <2> QED
      BY <2>5, <2>6
  <1>4. CASE Close(r) \/ Cancel(r)
    <2>1. req'[r] = Over(r, req[r].outcome)
      BY <1>1, <1>4 DEF Close, Cancel
    <2>2. /\ req'[r].pc = "done" /\ req'[r].to = req[r].to /\ req'[r].on = {}
          /\ req'[r].base = <<>> /\ req'[r].pending = {}
          /\ req'[r].stream = req[r].stream
      BY <1>2, <2>1, OverFields
    <2> QED
      BY <1>4, <2>2
  <1> QED
    BY <1>3, <1>4

-----------------------------------------------------------------------------
(* Streams.                                                                *)

LEMMA PlacesStep ==
  ASSUME Typed, Places, [Next]_vars PROVE Places'
  <1> DEFINE Placed(r) == /\ One(req[r].on)
                          /\ req[r].pc = "start" => req[r].stream
                          /\ req[r].pc = "await" => ~req[r].stream
  <1>1. \A r \in Requests : Placed(r)
    BY DEF Places
  <1>2. One({}) /\ \A p : One({p})
    BY DEF One
  <1>3. ASSUME NEW r \in Requests, Tab(r) \/ Handler(r) \/ (\E p \in Procs : Abort(r, p)),
               Placed(r)'
        PROVE  Places'
    <2>1. \A s \in Requests : s # r => Placed(s)'
      BY <1>1, <1>3, Others
    <2> QED
      BY <1>3, <2>1 DEF Places
  <1>4. ASSUME NEW r \in Requests, Tab(r) PROVE Places'
    <2>1. ASSUME NEW p \in Procs, NEW kind \in Kinds, NEW stream \in BOOLEAN,
                 Send(r, p, kind, stream)
          PROVE  Placed(r)'
      <3>1. req'[r].pc \in {"prepare", "intent"} /\ req'[r].on = {p}
        BY <2>1, SendFields
      <3> QED
        BY <1>2, <3>1
    <2>2. ASSUME Deliver(r) \/ \E partial \in BOOLEAN : Stop(r, partial) PROVE Placed(r)'
      <3>1. CASE Deliver(r)
        <4>1. req'[r].pc = "done" /\ req'[r].on = req[r].on
          BY <3>1, SmallFields
        <4> QED
          BY <1>1, <4>1
      <3>2. CASE ~Deliver(r)
        <4>1. /\ req'[r].pc = req[r].pc /\ req'[r].on = req[r].on
              /\ req'[r].stream = req[r].stream
          BY <2>2, <3>2, SmallFields
        <4> QED
          BY <1>1, <4>1
      <3> QED
        BY <3>1, <3>2
    <2> QED
      BY <1>3, <1>4, <2>1, <2>2 DEF Tab
  <1>5. ASSUME NEW r \in Requests, Handler(r) PROVE Places'
    <2>1. CASE PrepareAnswer(r)
      <3>1. CASE req' = [req EXCEPT ![r] = Ended(r, "error")]
        <4>1. "error" \in Outcomes /\ req'[r] = Ended(r, "error")
          BY <3>1 DEF Outcomes, Typed
        <4> QED
          BY <1>1, <1>2, <1>3, <1>5, <4>1, EndedFields
      <3> QED
        BY <1>1, <1>3, <1>5, <2>1, <3>1, AnswerFields
    <2>2. CASE PrepareMessage(r)
      BY <1>1, <1>3, <1>5, <2>2, MessageFields
    <2>3. CASE Register(r) \/ GateReady(r) \/ WriteDeferred(r)
      BY <1>1, <1>3, <1>5, <2>3, SmallFields
    <2>4. ASSUME NEW o \in Outcomes, Conclude(r, o) PROVE Places'
      <3>1. AfterHistory(r, o) # "start" /\ (AfterHistory(r, o) = "await" => ~req[r].stream)
        BY DEF AfterHistory
      <3> QED
        BY <1>1, <1>3, <1>5, <2>4, <3>1, ConcludeFields
    <2>5. CASE Fail(r) \/ WriteContext(r) \/ Close(r) \/ Cancel(r)
      BY <1>1, <1>2, <1>3, <1>5, <2>5, EndFields
    <2> QED
      BY <1>5, <2>1, <2>2, <2>3, <2>4, <2>5 DEF Handler
  <1>6. ASSUME NEW r \in Requests, NEW p \in Procs, Abort(r, p) PROVE Places'
    BY <1>6 DEF Abort, Places
  <1>7. ASSUME NEW p \in Procs, Kill(p) PROVE Places'
    <2>1. "lost" \in Outcomes
      BY DEF Outcomes
    <2>2. \A r \in Requests : req'[r] = req[r] \/ req'[r] = Over(r, "lost")
      BY <1>7 DEF Kill
    <2> QED
      BY <1>1, <1>2, <2>1, <2>2, OverFields DEF Places
  <1>8. CASE UNCHANGED vars
    BY <1>8 DEF vars, Places
  <1> QED
    BY <1>4, <1>5, <1>6, <1>7, <1>8 DEF Next

\* An entry of _active_streams is made by a stream that then runs, and goes with it.
LEMMA StreamStep ==
  ASSUME Typed, Places, ActiveHasStream, [Next]_vars PROVE ActiveHasStream'
  <1> DEFINE Running == {"run", "deferred", "context", "closing"}
             Streams(p, r) == p \in req[r].on /\ req[r].stream /\ req[r].pc \in Running
  <1>1. \A p \in Procs : active[p] # {} => \E r \in Requests : Streams(p, r)
    BY DEF ActiveHasStream
  <1>2. active \in [Procs -> SUBSET Chain] /\ req \in [Requests -> Request]
    BY DEF Typed
  <1>3. ASSUME NEW r \in Requests, Tab(r) \/ Handler(r) \/ (\E p \in Procs : Abort(r, p)),
               \A p \in Procs : active'[p] # {} =>
                 (active[p] # {} /\ (Streams(p, r) => Streams(p, r)')) \/ Streams(p, r)'
        PROVE  ActiveHasStream'
    <2>1. \A s \in Requests : s # r => req'[s] = req[s]
      BY <1>3, Others
    <2>2. ASSUME NEW p \in Procs, active'[p] # {} PROVE \E s \in Requests : Streams(p, s)'
      <3>1. CASE Streams(p, r)'
        BY <3>1
      <3>2. CASE active[p] # {} /\ (Streams(p, r) => Streams(p, r)')
        <4>1. PICK s \in Requests : Streams(p, s)
          BY <1>1, <3>2
        <4> QED
          BY <2>1, <3>2, <4>1
      <3> QED
        BY <1>3, <2>2, <3>1, <3>2
    <2> QED
      BY <2>2 DEF ActiveHasStream
  <1>4. ASSUME NEW r \in Requests, Tab(r) PROVE ActiveHasStream'
    <2>1. active' = active
      BY <1>4 DEF Tab, Send, Deliver, Stop
    <2>2. ASSUME NEW p \in Procs, Streams(p, r) PROVE Streams(p, r)'
      <3>1. req[r].pc \notin {"new", "done"}
        BY <2>2
      <3>2. ~Deliver(r)
        BY <3>1 DEF Deliver
      <3>3. PICK partial \in BOOLEAN : Stop(r, partial)
        BY <1>4, <3>1, <3>2 DEF Tab, Send
      <3> QED
        BY <2>2, <3>2, <3>3, SmallFields
    <2> QED
      BY <1>3, <1>4, <2>1, <2>2
  <1>5. ASSUME NEW r \in Requests, Handler(r) PROVE ActiveHasStream'
    <2>1. CASE PrepareAnswer(r) \/ PrepareMessage(r)
      <3>1. active' = active /\ req[r].pc \in {"prepare", "intent"}
        BY <2>1 DEF PrepareAnswer, PrepareMessage
      <3> QED
        BY <1>3, <1>5, <3>1
    <2>2. CASE Register(r)
      <3>1. \A p \in Procs : active'[p] # {} => active[p] # {} \/ p \in req[r].on
        BY <1>2, <2>2 DEF Register
      <3>2. /\ req[r].pc = "start" /\ req[r].stream
            /\ req'[r].pc = "run" /\ req'[r].on = req[r].on /\ req'[r].stream
        <4>1. req[r].pc = "start" /\ req[r].stream /\ ~Deliver(r)
          BY <2>2 DEF Register, Deliver, Places
        <4> QED
          BY <2>2, <4>1, SmallFields
      <3> QED
        BY <1>3, <1>5, <3>1, <3>2
    <2>3. CASE GateReady(r)
      <3>1. active' = active /\ req' = req
        BY <2>3 DEF GateReady
      <3> QED
        BY <1>3, <1>5, <3>1
    <2>4. CASE WriteDeferred(r)
      <3>1. active' = active /\ req[r].pc \in {"await", "deferred"}
        BY <2>4 DEF WriteDeferred
      <3>2. /\ req'[r].pc = "context" /\ req'[r].on = req[r].on /\ req'[r].stream = req[r].stream
        <4>1. ~Deliver(r)
          BY <3>1 DEF Deliver
        <4> QED
          BY <2>4, <4>1, SmallFields
      <3> QED
        BY <1>3, <1>5, <3>1, <3>2
    <2>5. ASSUME NEW o \in Outcomes, Conclude(r, o) PROVE ActiveHasStream'
      <3>1. active' = active
        BY <2>5 DEF Conclude
      <3>2. req[r].stream => AfterHistory(r, o) \in {"deferred", "context"}
        BY DEF AfterHistory
      <3> QED
        BY <1>3, <1>5, <2>5, <3>1, <3>2, ConcludeFields
    <2>6. CASE Fail(r) \/ WriteContext(r)
      <3>1. active' = active
        BY <2>6 DEF Fail, WriteContext
      <3>2. (~Close(r) /\ ~Cancel(r)) \/ \A p \in Procs : p \in req[r].on => active'[p] = {}
        <4>1. CASE Close(r) \/ (Cancel(r) /\ req[r].pc # "intent")
          BY <4>1 DEF Close, Cancel, Popped
        <4>2. ~(Cancel(r) /\ req[r].pc = "intent")
          BY <2>6 DEF Fail, WriteContext
        <4> QED
          BY <4>1, <4>2
      <3>3. CASE ~Close(r) /\ ~Cancel(r)
        BY <1>3, <1>5, <2>6, <3>1, <3>3, EndFields
      <3>4. CASE \A p \in Procs : p \in req[r].on => active'[p] = {}
        BY <1>3, <1>5, <3>1, <3>4
      <3> QED
        BY <3>2, <3>3, <3>4
    <2>7. CASE Close(r) \/ Cancel(r)
      <3>1. CASE req[r].pc = "intent"
        BY <1>3, <1>5, <2>7, <3>1 DEF Close, Cancel
      <3>2. CASE req[r].pc # "intent"
        BY <1>3, <1>5, <2>7, <3>2 DEF Close, Cancel, Popped
      <3> QED
        BY <3>1, <3>2
    <2> QED
      BY <1>5, <2>1, <2>2, <2>3, <2>4, <2>5, <2>6, <2>7 DEF Handler
  <1>6. ASSUME NEW r \in Requests, NEW p \in Procs, Abort(r, p) PROVE ActiveHasStream'
    <2>1. req' = req /\ \A q \in Procs : active'[q] # {} => active[q] # {}
      BY <1>2, <1>6 DEF Abort
    <2> QED
      BY <2>1 DEF ActiveHasStream
  <1>7. ASSUME NEW p \in Procs, Kill(p) PROVE ActiveHasStream'
    <2>1. \A q \in Procs : active'[q] # {} => active[q] # {} /\ q # p
      BY <1>2, <1>7 DEF Kill
    <2>2. \A r \in Requests, q \in Procs : q # p /\ Streams(q, r) => req'[r] = req[r]
      BY <1>7 DEF Kill, Places, One
    <2>3. ASSUME NEW q \in Procs, active'[q] # {} PROVE \E r \in Requests : Streams(q, r)'
      <3>1. PICK r \in Requests : Streams(q, r)
        BY <1>1, <2>1, <2>3
      <3> QED
        BY <2>1, <2>2, <2>3, <3>1
    <2> QED
      BY <2>3 DEF ActiveHasStream
  <1>8. CASE UNCHANGED vars
    BY <1>8 DEF vars, ActiveHasStream
  <1> QED
    BY <1>4, <1>5, <1>6, <1>7, <1>8 DEF Next

\* No abort takes the snapshot of a stream that is over for the present one
\* (_active_streams in stream and handle_stream_abort).
THEOREM EntryHasStream == Spec => []ActiveHasStream
  <1>1. Init => Places /\ ActiveHasStream
    BY DEF Init, Places, ActiveHasStream, NewRequest, One
  <1> QED
    BY <1>1, TypedHolds, PlacesStep, StreamStep, PTL DEF Spec

-----------------------------------------------------------------------------
(* Questions.                                                              *)

\* The deferred states are never deleted.
LEMMA StatesStay ==
  ASSUME [Next]_vars, NEW q, CanBeAnswered(q) PROVE CanBeAnswered(q)'
  <1>1. deferred \subseteq deferred'
    BY DEF Next, Tab, Handler, Send, Deliver, Stop, PrepareAnswer, PrepareMessage, Register,
           GateReady, Conclude, Fail, WriteDeferred, WriteContext, Close, Cancel, Abort, Kill, vars
  <1> QED
    BY <1>1 DEF CanBeAnswered

LEMMA AnswerableStep ==
  ASSUME Typed, Answerable, [Next]_vars PROVE Answerable'
  <1> DEFINE Own(r) == /\ \A q \in req[r].pending : CanBeAnswered(q)
                       /\ req[r].pc = "context" /\ req[r].outcome \in Asks => CanBeAnswered(r)
             All(S) == \A q \in S : CanBeAnswered(q)
  <1>1. All(pending) /\ \A r \in Requests : Own(r)
    BY DEF Answerable, QuestionsCanBeAnswered
  <1>2. \A q : CanBeAnswered(q) => CanBeAnswered(q)'
    BY StatesStay
  <1>3. req \in [Requests -> Request]
    BY DEF Typed
  <1>4. ASSUME NEW r \in Requests, Tab(r) \/ Handler(r) \/ (\E p \in Procs : Abort(r, p)),
               \A q \in pending' : CanBeAnswered(q)', Own(r)'
        PROVE  Answerable'
    <2>1. \A s \in Requests : s # r => Own(s)'
      BY <1>1, <1>2, <1>4, Others
    <2> QED
      BY <1>4, <2>1 DEF Answerable, QuestionsCanBeAnswered
  <1>5. ASSUME NEW r \in Requests, Tab(r) PROVE Answerable'
    <2>1. ASSUME NEW p \in Procs, NEW kind \in Kinds, NEW stream \in BOOLEAN,
                 Send(r, p, kind, stream)
          PROVE  Answerable'
      <3>1. /\ req'[r].pc \in {"prepare", "intent"} /\ req'[r].pending = pending'
            /\ pending' \in {pending, {}}
        BY <2>1, SendFields
      <3> QED
        BY <1>1, <1>2, <1>4, <1>5, <3>1
    <2>2. CASE Deliver(r)
      <3>1. req'[r].pc = "done" /\ req'[r].pending = req[r].pending
        BY <2>2, SmallFields
      <3>2. pending' = pending
        BY <2>2 DEF Deliver
      <3> QED
        BY <1>1, <1>2, <1>4, <1>5, <3>1, <3>2
    <2>3. ASSUME NEW partial \in BOOLEAN, Stop(r, partial) PROVE Answerable'
      <3>1. req' = [req EXCEPT ![r].gone = TRUE] /\ pending' = pending
        BY <2>3 DEF Stop
      <3>2. /\ req'[r].pc = req[r].pc /\ req'[r].pending = req[r].pending
            /\ req'[r].outcome = req[r].outcome
        BY <1>3, <3>1 DEF Request
      <3> QED
        BY <1>1, <1>2, <1>4, <1>5, <3>1, <3>2
    <2> QED
      BY <1>5, <2>1, <2>2, <2>3 DEF Tab
  <1>6. ASSUME NEW r \in Requests, Handler(r) PROVE Answerable'
    <2>1. CASE PrepareAnswer(r)
      <3>1. CASE req' = [req EXCEPT ![r] = Ended(r, "error")] /\ pending' = pending
        <4>1. "error" \in Outcomes /\ req'[r] = Ended(r, "error")
          BY <1>3, <3>1 DEF Outcomes
        <4>2. req'[r].pc \in {"closing", "done"} /\ req'[r].pending = {}
          BY <4>1, EndedFields
        <4> QED
          BY <1>1, <1>2, <1>4, <1>6, <3>1, <4>2
      <3>2. CASE pending' = Cleared(r) /\ req'[r].pending = Cleared(r)
                 /\ req'[r].pc = (IF req[r].stream THEN "start" ELSE "run")
        <4>1. Cleared(r) \subseteq req[r].pending /\ req'[r].pc # "context"
          BY <3>2 DEF Cleared
        <4> QED
          BY <1>1, <1>2, <1>4, <1>6, <3>2, <4>1
      <3> QED
        BY <2>1, <3>1, <3>2, AnswerFields
    <2>2. CASE PrepareMessage(r)
      <3>1. req'[r].pc # "context" /\ req'[r].pending = req[r].pending
        BY <2>2, MessageFields
      <3>2. pending' = pending
        BY <2>2 DEF PrepareMessage
      <3> QED
        BY <1>1, <1>2, <1>4, <1>6, <3>1, <3>2
    <2>3. CASE Register(r)
      <3>1. req'[r].pc = "run" /\ req'[r].pending = req[r].pending
        BY <2>3, SmallFields
      <3>2. pending' = pending
        BY <2>3 DEF Register
      <3> QED
        BY <1>1, <1>2, <1>4, <1>6, <3>1, <3>2
    <2>4. CASE GateReady(r)
      <3>1. req' = req /\ pending' = req[r].pending
        BY <2>4 DEF GateReady
      <3> QED
        BY <1>1, <1>2, <1>4, <1>6, <3>1
    <2>5. ASSUME NEW o \in Outcomes, Conclude(r, o) PROVE Answerable'
      <3>1. /\ req'[r].pc = AfterHistory(r, o) /\ req'[r].outcome = o
            /\ req'[r].pending = req[r].pending
        BY <2>5, ConcludeFields
      <3>2. o \in Asks => AfterHistory(r, o) # "context"
        BY DEF AfterHistory
      <3>3. pending' = pending
        BY <2>5 DEF Conclude
      <3> QED
        BY <1>1, <1>2, <1>4, <1>6, <3>1, <3>2, <3>3
    <2>6. CASE WriteDeferred(r)
      <3>1. req'[r].pending = req[r].pending /\ pending' = pending
        BY <2>6, SmallFields DEF WriteDeferred
      <3>2. CanBeAnswered(r)'
        <4>1. PICK d \in State(r) : d.call = r
          BY DEF State
        <4>2. d \in deferred'
          BY <2>6, <4>1 DEF WriteDeferred
        <4> QED
          BY <4>1, <4>2 DEF CanBeAnswered
      <3> QED
        BY <1>1, <1>2, <1>4, <1>6, <3>1, <3>2
    <2>7. CASE Fail(r) \/ WriteContext(r) \/ Close(r) \/ Cancel(r)
      <3>1. req'[r].pc # "context" /\ req'[r].pending = {}
        BY <2>7, EndFields
      <3>2. \A q \in pending' : CanBeAnswered(q)
        BY <1>1, <2>7 DEF Fail, WriteContext, Close, Cancel
      <3> QED
        BY <1>1, <1>2, <1>4, <1>6, <3>1, <3>2
    <2> QED
      BY <1>6, <2>1, <2>2, <2>3, <2>4, <2>5, <2>6, <2>7 DEF Handler
  <1>7. ASSUME NEW r \in Requests, NEW p \in Procs, Abort(r, p) PROVE Answerable'
    <2>1. req' = req /\ pending' = pending
      BY <1>7 DEF Abort
    <2> QED
      BY <1>1, <1>2, <1>4, <1>7, <2>1
  <1>8. ASSUME NEW p \in Procs, Kill(p) PROVE Answerable'
    <2>1. "lost" \in Outcomes
      BY DEF Outcomes
    <2>2. ASSUME NEW r \in Requests
          PROVE  req'[r] = req[r] \/ (req'[r].pc = "done" /\ req'[r].pending = {})
      <3>1. req'[r] \in {req[r], Over(r, "lost")}
        BY <1>8 DEF Kill
      <3> QED
        BY <2>1, <3>1, OverFields
    <2>3. pending' = pending
      BY <1>8 DEF Kill
    <2> QED
      BY <1>1, <1>2, <2>2, <2>3 DEF Answerable, QuestionsCanBeAnswered
  <1>9. CASE UNCHANGED vars
    BY <1>9 DEF vars, Answerable, QuestionsCanBeAnswered, CanBeAnswered
  <1> QED
    BY <1>5, <1>6, <1>7, <1>8, <1>9 DEF Next

LEMMA AnswerableHolds == Spec => []Answerable
  <1>1. Init => Answerable
    BY DEF Init, Answerable, QuestionsCanBeAnswered, NewRequest
  <1> QED
    BY <1>1, TypedHolds, AnswerableStep, PTL DEF Spec

\* A pending question can be answered, whatever is stopped, killed or interleaved:
\* its deferred state is saved before the context names it.
THEOREM PendingCanBeAnswered == Spec => []QuestionsCanBeAnswered
  <1>1. Answerable => QuestionsCanBeAnswered
    BY DEF Answerable
  <1> QED
    BY <1>1, AnswerableHolds, PTL

-----------------------------------------------------------------------------
(* Without stops and kills.                                                *)

LEMMA NoBreakBefore ==
  ASSUME Typed, [Next]_vars, breaks' = 0 PROVE breaks = 0
  <1>0. breaks \in Nat
    BY BoundAssumption DEF Typed
  <1>1. ASSUME NEW r \in Requests, Tab(r) PROVE breaks = 0
    <2>1. ASSUME NEW p \in Procs, NEW kind \in Kinds, NEW stream \in BOOLEAN,
                 Send(r, p, kind, stream)
          PROVE  breaks = 0
      BY <2>1 DEF Send
    <2>2. CASE Deliver(r)
      BY <2>2 DEF Deliver
    <2>3. ASSUME NEW partial \in BOOLEAN, Stop(r, partial) PROVE breaks = 0
      <3>1. breaks' = breaks + 1
        BY <2>3 DEF Stop
      <3> QED
        BY <1>0, <3>1
    <2> QED
      BY <1>1, <2>1, <2>2, <2>3 DEF Tab
  <1>2. ASSUME NEW r \in Requests, Handler(r) PROVE breaks = 0
    BY <1>2 DEF Handler, PrepareAnswer, PrepareMessage, Register, GateReady, Conclude, Fail,
                WriteDeferred, WriteContext, Close, Cancel
  <1>3. ASSUME NEW r \in Requests, NEW p \in Procs, Abort(r, p) PROVE breaks = 0
    BY <1>3 DEF Abort
  <1>4. ASSUME NEW p \in Procs, Kill(p) PROVE breaks = 0
    BY <1>0, <1>4 DEF Kill
  <1>5. CASE UNCHANGED vars
    BY <1>5 DEF vars
  <1> QED
    BY <1>1, <1>2, <1>3, <1>4, <1>5 DEF Next

LEMMA OneAtATimeStep ==
  ASSUME Typed, Typed', Answerable, OneAtATime, [Next]_vars PROVE OneAtATime'
  <1> DEFINE Turn(r) ==
               /\ req[r].pc \notin {"new", "done"} => r \in tab
               /\ req[r].pc \notin {"new", "closing", "done"} => pending = req[r].pending
               /\ r \in card => req[r].pc = "done"
               /\ req[r].to # 0 => req[req[r].to].pc = "done"
               /\ req[r].pc # "prepare" => req[r].to \notin pending
  <1> SUFFICES ASSUME breaks' = 0 PROVE \A r \in Requests : Turn(r)'
    BY DEF OneAtATime, Typed
  <1>0. /\ req \in [Requests -> Request] /\ tab \in SUBSET Requests /\ card \in SUBSET Requests
        /\ pending \in SUBSET Requests /\ breaks \in Nat /\ 0 \notin Requests
        /\ One(tab) /\ req' \in [Requests -> Request] /\ pending' \in SUBSET Requests
    <2>1. breaks \in Nat
      BY BoundAssumption DEF Typed
    <2> QED
      BY <2>1 DEF Typed, Requests
  <1>1. breaks = 0
    BY NoBreakBefore
  <1>2. \A r \in Requests : Turn(r)
    BY <1>1 DEF OneAtATime
  <1>3. \A r \in Requests : req[r].to \in Requests \cup {0}
    BY <1>0, BoundAssumption DEF Request, Requests
  <1>4. ASSUME NEW r \in Requests, Handler(r), req[r].pc \notin {"new", "done"},
               tab' = tab, card' = card, \A s \in Requests : s # r => req'[s] = req[s],
               req'[r].to = req[r].to, Turn(r)',
               \A s \in Requests : s # r => req[s].to \notin pending'
        PROVE  \A s \in Requests : Turn(s)'
    <2>1. \A s \in Requests : s # r => req[s].pc \in {"new", "done"}
      BY <1>0, <1>2, <1>4 DEF One
    <2>2. ASSUME NEW s \in Requests, s # r PROVE Turn(s)'
      <3>1. req'[s] = req[s] /\ Turn(s) /\ req[s].pc \in {"new", "done"}
        BY <1>2, <1>4, <2>1, <2>2
      <3>2. req[s].to # 0 => req'[req[s].to].pc = "done"
        <4>1. req[s].to # 0 => req[s].to \in Requests /\ req[s].to # r
          BY <1>3, <1>4, <3>1
        <4> QED
          BY <1>4, <3>1, <4>1
      <3> QED
        BY <1>4, <2>2, <3>1, <3>2
    <2> QED
      BY <1>4, <2>2
  <1>5. ASSUME NEW r \in Requests, Tab(r) PROVE \A s \in Requests : Turn(s)'
    <2>0. \A s \in Requests : s # r => req'[s] = req[s]
      BY <1>5, Others
    <2>1. ASSUME NEW p \in Procs, NEW kind \in Kinds, NEW stream \in BOOLEAN,
                 Send(r, p, kind, stream)
          PROVE  \A s \in Requests : Turn(s)'
      <3>1. /\ req[r].pc = "new" /\ req'[r].pc \in {"prepare", "intent"}
            /\ req'[r].pending = pending' /\ pending' \in {pending, {}}
            /\ req'[r].to \in card \cup {0} /\ card' \in {card, {}} /\ tab' = {r}
            /\ req'[r].pc # "prepare" => req'[r].to = 0
        BY <2>1, SendFields
      <3>2. tab = {}
        BY <2>1 DEF Send
      <3>3. \A s \in Requests : req[s].pc \in {"new", "done"}
        BY <1>2, <3>2
      <3>4. ASSUME NEW s \in Requests, s # r PROVE Turn(s)'
        <4>1. req'[s] = req[s] /\ Turn(s)
          BY <1>2, <2>0, <3>4
        <4>2. req[s].to # 0 => req'[req[s].to].pc = "done"
          BY <1>3, <2>0, <3>1, <4>1
        <4>3. s \in card' => req[s].pc = "done"
          BY <3>1, <4>1
        <4> QED
          BY <3>1, <3>3, <4>1, <4>2, <4>3
      <3>5. Turn(r)'
        <4>1. r \notin card'
          BY <1>2, <3>1
        <4>2. req'[r].to # 0 => req'[req'[r].to].pc = "done"
          BY <1>0, <1>2, <2>0, <3>1
        <4>3. req'[r].pc # "prepare" => req'[r].to \notin pending'
          BY <1>0, <3>1
        <4> QED
          BY <3>1, <4>1, <4>2, <4>3
      <3> QED
        BY <3>4, <3>5
    <2>2. CASE Deliver(r)
      <3>1. req[r].pc = "done" /\ req'[r].pc = "done" /\ req'[r].to = req[r].to
        BY <2>2, SmallFields
      <3>2. tab = {r} /\ tab' = {} /\ card' = NextCard(r) /\ pending' = pending
        BY <2>2 DEF Deliver
      <3>3. \A s \in Requests : req'[s].pc = req[s].pc /\ req'[s].to = req[s].to
        BY <2>0, <3>1
      <3>4. NextCard(r) \subseteq card \cup {r}
        BY DEF NextCard
      <3>5. ASSUME NEW s \in Requests PROVE Turn(s)'
        <4>1. Turn(s) /\ req[s].pc \in {"new", "done"} /\ (s \in card' => req[s].pc = "done")
          BY <1>2, <3>1, <3>2, <3>4
        <4>2. req[s].to # 0 => req'[req[s].to].pc = "done"
          BY <1>3, <3>3, <4>1
        <4>3. req'[s].pc = req[s].pc /\ req'[s].to = req[s].to
          BY <3>3
        <4> QED
          BY <3>2, <4>1, <4>2, <4>3
      <3> QED
        BY <3>5
    <2>3. ASSUME NEW partial \in BOOLEAN, Stop(r, partial) PROVE FALSE
      BY <1>1, <2>3 DEF Stop
    <2> QED
      BY <1>5, <2>1, <2>2, <2>3 DEF Tab
  <1>6. ASSUME NEW r \in Requests, Handler(r) PROVE \A s \in Requests : Turn(s)'
    <2>0. /\ tab' = tab /\ card' = card /\ req[r].pc \notin {"new", "done"}
          /\ \A s \in Requests : s # r => req'[s] = req[s]
      <3>1. tab' = tab /\ card' = card /\ req[r].pc \notin {"new", "done"}
        BY <1>6 DEF Handler, PrepareAnswer, PrepareMessage, Register, GateReady, Conclude, Fail,
                    WriteDeferred, WriteContext, Close, Cancel
      <3> QED
        BY <1>6, <3>1, Others
    <2>1. Turn(r) /\ r \notin card /\ req[r].to # r /\ r \in tab
          /\ (req[r].to # 0 => req[r].to \in Requests)
          /\ \A s \in Requests : s # r => req[s].to \notin pending /\ req[s].to # r
      <3>1. \A s \in Requests : s # r => req[s].pc # "prepare"
        BY <1>0, <1>2, <2>0 DEF One
      <3> QED
        BY <1>2, <1>3, <2>0, <3>1, <1>0
    <2>2. req'[r].to = req[r].to => (req[r].to # 0 => req'[req'[r].to].pc = "done")
      BY <2>0, <2>1
    <2>3. CASE PrepareAnswer(r)
      <3>0. req[r].pc = "prepare" /\ pending = req[r].pending
        BY <2>1, <2>3 DEF PrepareAnswer
      <3>1. CASE ~CanBeAnswered(req[r].to) /\ pending' = pending
                 /\ req' = [req EXCEPT ![r] = Ended(r, "error")]
        <4>1. "error" \in Outcomes /\ req'[r] = Ended(r, "error")
          BY <1>0, <3>1 DEF Outcomes
        <4>2. req'[r].pc \in {"closing", "done"} /\ req'[r].to = req[r].to
          BY <4>1, EndedFields
        <4>3. req[r].to \notin pending
          BY <3>1 DEF Answerable, QuestionsCanBeAnswered
        <4>4. Turn(r)'
          BY <2>0, <2>1, <2>2, <3>1, <4>2, <4>3
        <4> QED
          BY <1>4, <1>6, <2>0, <2>1, <3>1, <4>2, <4>4
      <3>2. CASE pending' = Cleared(r) /\ req'[r].pending = Cleared(r)
                 /\ req'[r].pc = (IF req[r].stream THEN "start" ELSE "run")
                 /\ req'[r].to = req[r].to
        <4>1. Cleared(r) \subseteq pending /\ req[r].to \notin Cleared(r)
          BY <3>0 DEF Cleared
        <4>2. req'[r].pc \in {"start", "run"}
          BY <3>2
        <4>3. Turn(r)'
          BY <2>0, <2>1, <2>2, <3>2, <4>1, <4>2
        <4> QED
          BY <1>4, <1>6, <2>0, <2>1, <3>2, <4>1, <4>3
      <3> QED
        BY <2>3, <3>1, <3>2, AnswerFields
    <2>4. ASSUME req'[r].pc \notin {"new", "prepare", "done", "closing"},
                 req[r].pc \notin {"prepare", "closing"},
                 req'[r].to = req[r].to, req'[r].pending = req[r].pending,
                 pending' \in {pending, req[r].pending}
          PROVE  \A s \in Requests : Turn(s)'
      <3>1. pending' = pending /\ pending' = req'[r].pending
        BY <2>0, <2>1, <2>4
      <3>2. Turn(r)'
        BY <2>0, <2>1, <2>2, <2>4, <3>1
      <3> QED
        BY <1>4, <1>6, <2>0, <2>1, <2>4, <3>1, <3>2
    <2>5. CASE PrepareMessage(r)
      <3>1. /\ req[r].pc = "intent" /\ req'[r].pc \in {"start", "run"}
            /\ req'[r].to = req[r].to /\ req'[r].pending = req[r].pending
        BY <2>5, MessageFields
      <3>2. pending' = pending
        BY <2>5 DEF PrepareMessage
      <3> QED
        BY <2>4, <3>1, <3>2
    <2>6. CASE Register(r) \/ WriteDeferred(r)
      <3>1. /\ req[r].pc \in {"start", "await", "deferred"} /\ req'[r].pc \in {"run", "context"}
            /\ req'[r].to = req[r].to /\ req'[r].pending = req[r].pending
        BY <2>6, SmallFields
      <3>2. pending' = pending
        BY <2>6 DEF Register, WriteDeferred
      <3> QED
        BY <2>4, <3>1, <3>2
    <2>7. CASE GateReady(r)
      <3>1. req' = req /\ req[r].pc \in {"start", "run"} /\ pending' = req[r].pending
        BY <2>7 DEF GateReady
      <3> QED
        BY <2>4, <3>1
    <2>8. ASSUME NEW o \in Outcomes, Conclude(r, o) PROVE \A s \in Requests : Turn(s)'
      <3>1. /\ req'[r].pc \in {"context", "await", "deferred"} /\ req'[r].to = req[r].to
            /\ req'[r].pending = req[r].pending
        BY <2>8, ConcludeFields DEF AfterHistory
      <3>2. req[r].pc \in {"start", "run"} /\ pending' = pending
        BY <2>8 DEF Conclude
      <3> QED
        BY <2>4, <3>1, <3>2
    <2>9. CASE Fail(r) \/ WriteContext(r) \/ Close(r) \/ Cancel(r)
      <3>1. req'[r].pc \in {"closing", "done"} /\ req'[r].to = req[r].to
        BY <2>9, EndFields
      <3>2. req[r].pc # "prepare"
        BY <2>9 DEF Fail, WriteContext, Close, Cancel
      <3>3. pending' \subseteq pending \cup {r}
        <4>1. req[r].pc = "context" => pending = req[r].pending
          BY <2>1
        <4> QED
          BY <2>9, <4>1 DEF Fail, WriteContext, Close, Cancel
      <3>4. Turn(r)'
        BY <2>0, <2>1, <2>2, <3>1, <3>2, <3>3
      <3> QED
        BY <1>4, <1>6, <2>0, <2>1, <3>1, <3>3, <3>4
    <2> QED
      BY <1>6, <2>3, <2>5, <2>6, <2>7, <2>8, <2>9 DEF Handler
  <1>7. ASSUME NEW r \in Requests, NEW p \in Procs, Abort(r, p)
        PROVE  \A s \in Requests : Turn(s)'
    BY <1>2, <1>7 DEF Abort
  <1>8. ASSUME NEW p \in Procs, Kill(p) PROVE FALSE
    BY <1>1, <1>8 DEF Kill
  <1>9. CASE UNCHANGED vars
    BY <1>2, <1>9 DEF vars
  <1> QED
    BY <1>5, <1>6, <1>7, <1>8, <1>9 DEF Next

\* As long as nothing is stopped or killed, a question that was answered is never
\* pending again (record_user_answer, _persist_case_context_after_agent_run).
THEOREM AnsweredStaysAnswered == Spec => []AnsweredIsNotPending
  <1>1. Init => OneAtATime
    BY DEF Init, OneAtATime, NewRequest
  <1>2. OneAtATime => AnsweredIsNotPending
    BY DEF OneAtATime, AnsweredIsNotPending
  <1> QED
    BY <1>1, <1>2, TypedHolds, AnswerableHolds, OneAtATimeStep, PTL DEF Spec

-----------------------------------------------------------------------------
(* No message twice.                                                       *)

LEMMA AppendFine ==
  ASSUME NEW unread, NEW live, NEW h, Fine(h, unread, live), NEW m \in Messages,
         m.by \notin unread, m.part = "partial" => m.by \notin live,
         \A i \in 1 .. Len(h) : h[i] # m
  PROVE  Fine(Append(h, m), unread, live)
  <1> DEFINE g == Append(h, m)
  <1>1. h \in Seq(Messages) /\ Len(h) \in Nat
    BY DEF Fine, Chain
  <1>2. /\ g \in Seq(Messages) /\ Len(g) = Len(h) + 1 /\ g[Len(h) + 1] = m
        /\ \A i \in 1 .. Len(h) : g[i] = h[i]
    BY <1>1
  <1> HIDE DEF g
  <1>3. \A i \in 1 .. Len(g) : i \in 1 .. Len(h) \/ i = Len(h) + 1
    BY <1>1, <1>2
  <1>4. Once(g)
    BY <1>1, <1>2, <1>3 DEF Fine, Once
  <1>5. \A i \in 1 .. Len(g) :
          g[i].by \notin unread /\ (g[i].part = "partial" => g[i].by \notin live)
    BY <1>2, <1>3 DEF Fine
  <1>6. Fine(g, unread, live)
    BY <1>2, <1>4, <1>5 DEF Fine, Chain
  <1> QED
    BY <1>6 DEF g

LEMMA FineStays ==
  ASSUME NEW unread, NEW live, NEW h, Fine(h, unread, live),
         NEW u, u \subseteq unread, NEW l, l \subseteq live \cup unread
  PROVE  Fine(h, u, l)
  BY DEF Fine

LEMMA EmptyFine == \A unread, live : Fine(<<>>, unread, live)
  BY DEF Fine, Chain, Once

\* The messages a run starts with, and those it saves, are not repeated.
LEMMA GivenFine ==
  ASSUME Typed, GoodChains, NEW r \in Requests, req[r].pc \notin Early
  PROVE  /\ Fine(Given(r), Unread, Live)
         /\ Fine(Append(Given(r), Msg("ask", r)), Unread, Live)
         /\ Fine(Append(Given(r), Msg("reply", r)), Unread, Live)
  <1> DEFINE b == req[r].base
             m == Msg(IF req[r].kind = "answer" THEN "return" ELSE "prompt", r)
  <1>1. Fine(b, Unread, Live) /\ Without(b, r)
    BY DEF GoodChains
  <1>2. r \notin Unread
    BY DEF Unread
  <1>3. /\ m \in Messages /\ m.by = r /\ m.part \in {"return", "prompt"}
        /\ Msg("ask", r) \in Messages /\ Msg("reply", r) \in Messages
        /\ Msg("ask", r).by = r /\ Msg("ask", r).part = "ask"
        /\ Msg("reply", r).by = r /\ Msg("reply", r).part = "reply"
    BY MsgType DEF Parts, Msg
  <1>4. Given(r) = Append(b, m)
    BY DEF Given
  <1> HIDE DEF b, m
  <1>5. Fine(Append(b, m), Unread, Live)
    BY <1>1, <1>2, <1>3, AppendFine DEF Without
  <1>6. ASSUME NEW n \in Messages, n.by = r, n.part \in {"ask", "reply"}
        PROVE  Fine(Append(Append(b, m), n), Unread, Live)
    <2>1. \A i \in 1 .. Len(Append(b, m)) : i \in 1 .. Len(b) \/ Append(b, m)[i] = m
      BY <1>1, <1>3 DEF Fine, Chain
    <2>2. \A i \in 1 .. Len(b) : Append(b, m)[i] = b[i]
      BY <1>1, <1>3 DEF Fine, Chain
    <2>3. \A i \in 1 .. Len(Append(b, m)) : Append(b, m)[i] # n
      BY <1>1, <1>3, <1>6, <2>1, <2>2 DEF Without
    <2> QED
      BY <1>2, <1>5, <1>6, <2>3, AppendFine
  <1> QED
    BY <1>3, <1>4, <1>5, <1>6

\* The requests grow older: none becomes unread, and only an unread one becomes live.
LEMMA Older ==
  ASSUME Typed, Begun, [Next]_vars
  PROVE  /\ Unread' \subseteq Unread /\ Live' \subseteq Live \cup Unread
         /\ Begun'
  <1> DEFINE Moves(r) == /\ req'[r].pc \in Early => req[r].pc \in Early
                         /\ req'[r].pc = "new" => req[r].pc = "new"
  <1>1. \A r \in Requests : req[r].stream \in BOOLEAN
    BY DEF Typed, Request
  <1>2. ASSUME \A r \in Requests : Moves(r), tab' \in {tab, {}}, aborts' \subseteq aborts
        PROVE  /\ Unread' \subseteq Unread /\ Live' \subseteq Live \cup Unread
               /\ Begun'
    BY <1>2 DEF Begun, Unread, Live, Typed
  <1>3. ASSUME NEW r \in Requests, Tab(r) \/ Handler(r) \/ (\E p \in Procs : Abort(r, p)),
               Moves(r)
        PROVE  \A s \in Requests : Moves(s)
    BY <1>3, Others
  <1>4. ASSUME NEW r \in Requests, Tab(r)
        PROVE  /\ Unread' \subseteq Unread /\ Live' \subseteq Live \cup Unread
               /\ Begun'
    <2>1. ASSUME NEW p \in Procs, NEW kind \in Kinds, NEW stream \in BOOLEAN,
                 Send(r, p, kind, stream)
          PROVE  /\ Unread' \subseteq Unread /\ Live' \subseteq Live \cup Unread
                 /\ Begun'
      <3>1. req[r].pc = "new" /\ req'[r].pc \in {"prepare", "intent"} /\ tab' = {r}
        BY <2>1, SendFields
      <3>2. aborts' = aborts
        BY <2>1 DEF Send
      <3>3. \A s \in Requests : Moves(s)
        BY <1>3, <1>4, <3>1 DEF Early
      <3> QED
        BY <3>1, <3>2, <3>3 DEF Begun, Unread, Live, Typed, Early
    <2>2. CASE Deliver(r)
      <3>1. tab' = {} /\ aborts' = aborts
        BY <2>2 DEF Deliver
      <3>2. req[r].pc = "done" /\ req'[r].pc = "done"
        BY <2>2, SmallFields
      <3> QED
        BY <1>2, <1>3, <1>4, <3>1, <3>2
    <2>3. ASSUME NEW partial \in BOOLEAN, Stop(r, partial)
          PROVE  /\ Unread' \subseteq Unread /\ Live' \subseteq Live \cup Unread
                 /\ Begun'
      <3>1. /\ tab = {r} /\ tab' = {} /\ aborts' \subseteq aborts \cup {r}
            /\ aborts' # aborts => req[r].pc \notin {"prepare", "intent", "start"}
        BY <2>3 DEF Stop
      <3>2. req'[r].pc = req[r].pc
        BY <2>3, SmallFields
      <3>3. \A s \in Requests : Moves(s)
        BY <1>3, <1>4, <3>2
      <3>4. req[r].pc # "new"
        BY <3>1 DEF Begun
      <3> QED
        BY <3>1, <3>2, <3>3, <3>4 DEF Begun, Unread, Live, Typed, Early
    <2> QED
      BY <1>4, <2>1, <2>2, <2>3 DEF Tab
  <1>5. ASSUME NEW r \in Requests, Handler(r)
        PROVE  /\ Unread' \subseteq Unread /\ Live' \subseteq Live \cup Unread
               /\ Begun'
    <2>1. Moves(r)
      <3>1. CASE PrepareAnswer(r)
        <4>1. CASE req' = [req EXCEPT ![r] = Ended(r, "error")]
          <5>1. "error" \in Outcomes /\ req'[r] = Ended(r, "error")
            BY <4>1 DEF Outcomes, Typed
          <5> QED
            BY <5>1, EndedFields DEF Early
        <4> QED
          BY <3>1, <4>1, AnswerFields DEF Early
      <3>2. CASE PrepareMessage(r)
        BY <3>2, MessageFields DEF Early
      <3>3. CASE Register(r) \/ GateReady(r) \/ WriteDeferred(r)
        BY <3>3, SmallFields DEF Early
      <3>4. ASSUME NEW o \in Outcomes, Conclude(r, o) PROVE Moves(r)
        <4>1. AfterHistory(r, o) \notin Early
          BY DEF AfterHistory, Early
        <4> QED
          BY <3>4, <4>1, ConcludeFields DEF Early
      <3>5. CASE Fail(r) \/ WriteContext(r) \/ Close(r) \/ Cancel(r)
        BY <3>5, EndFields DEF Early
      <3> QED
        BY <1>5, <3>1, <3>2, <3>3, <3>4, <3>5 DEF Handler
    <2>2. tab' = tab /\ aborts' = aborts
      BY <1>5 DEF Handler, PrepareAnswer, PrepareMessage, Register, GateReady, Conclude, Fail,
                  WriteDeferred, WriteContext, Close, Cancel
    <2> QED
      BY <1>2, <1>3, <1>5, <2>1, <2>2
  <1>6. ASSUME NEW r \in Requests, NEW p \in Procs, Abort(r, p)
        PROVE  /\ Unread' \subseteq Unread /\ Live' \subseteq Live \cup Unread
               /\ Begun'
    BY <1>2, <1>6 DEF Abort
  <1>7. ASSUME NEW p \in Procs, Kill(p)
        PROVE  /\ Unread' \subseteq Unread /\ Live' \subseteq Live \cup Unread
               /\ Begun'
    <2>1. "lost" \in Outcomes
      BY DEF Outcomes
    <2>2. ASSUME NEW r \in Requests PROVE Moves(r)
      <3>1. req'[r] \in {req[r], Over(r, "lost")}
        BY <1>7 DEF Kill
      <3> QED
        BY <2>1, <3>1, OverFields DEF Early
    <2> QED
      BY <1>2, <1>7, <2>2 DEF Kill
  <1>8. CASE UNCHANGED vars
    BY <1>2, <1>8 DEF vars
  <1> QED
    BY <1>4, <1>5, <1>6, <1>7, <1>8 DEF Next

LEMMA ChainsStep ==
  ASSUME Typed, Typed', GoodChains, Begun, [Next]_vars PROVE GoodChains'
  <1> DEFINE Fit(h)  == Fine(h, Unread', Live')
             Read(r) == Fit(req'[r].base) /\ Without(req'[r].base, r)
  <1>1. \A h : Fine(h, Unread, Live) => Fit(h)
    BY Older, FineStays
  <1>2. /\ Fit(history) /\ Fit(<<>>)
        /\ \A d \in deferred : Fit(d.chain)
        /\ \A p \in Procs : \A h \in active[p] : Fit(h)
        /\ \A r \in Requests : Fit(req[r].base) /\ Without(req[r].base, r)
    BY <1>1, EmptyFine DEF GoodChains
  <1> HIDE DEF Fit
  <1>3. ASSUME Fit(history'), \A d \in deferred' : Fit(d.chain),
               \A p \in Procs : \A h \in active'[p] : Fit(h), \A r \in Requests : Read(r)
        PROVE  GoodChains'
    BY <1>3 DEF GoodChains, Fit
  <1>4. ASSUME NEW r \in Requests, Tab(r) \/ Handler(r) \/ (\E p \in Procs : Abort(r, p)),
               Read(r)
        PROVE  \A s \in Requests : Read(s)
    BY <1>2, <1>4, Others
  <1>5. \A r : Without(<<>>, r)
    BY DEF Without
  <1>6. ASSUME NEW r \in Requests, req'[r].base \in {req[r].base, <<>>} PROVE Read(r)
    BY <1>2, <1>5, <1>6
  <1> HIDE DEF Read
  <1>7. ASSUME NEW r \in Requests, Tab(r) PROVE GoodChains'
    <2>1. req'[r].base \in {req[r].base, <<>>}
      BY <1>7, SendFields, SmallFields DEF Tab
    <2>2. history' = history /\ deferred' = deferred /\ active' = active
      BY <1>7 DEF Tab, Send, Deliver, Stop
    <2> QED
      BY <1>2, <1>3, <1>4, <1>6, <1>7, <2>1, <2>2
  <1>8. ASSUME NEW r \in Requests, Handler(r) PROVE GoodChains'
    <2>1. CASE PrepareAnswer(r)
      <3>1. history' = history /\ deferred' = deferred /\ active' = active
        BY <2>1 DEF PrepareAnswer
      <3>2. CASE req' = [req EXCEPT ![r] = Ended(r, "error")]
        <4>1. "error" \in Outcomes /\ req'[r] = Ended(r, "error")
          BY <3>2 DEF Outcomes, Typed
        <4>2. req'[r].base = <<>>
          BY <4>1, EndedFields
        <4> QED
          BY <1>2, <1>3, <1>4, <1>6, <1>8, <3>1, <4>2
      <3>3. ASSUME NEW d \in deferred, req'[r].base = d.chain PROVE GoodChains'
        <4>1. r \in Unread
          BY <2>1 DEF PrepareAnswer, Unread, Early
        <4>2. Fine(d.chain, Unread, Live)
          BY DEF GoodChains
        <4>3. Without(d.chain, r)
          BY <4>1, <4>2 DEF Fine, Without
        <4>4. Read(r)
          BY <1>2, <3>3, <4>3 DEF Read
        <4> QED
          BY <1>2, <1>3, <1>4, <1>8, <3>1, <4>4
      <3> QED
        BY <2>1, <3>2, <3>3, AnswerFields
    <2>2. CASE PrepareMessage(r)
      <3>1. req'[r].base = history' /\ history' \in {history, <<>>}
        BY <2>2, MessageFields
      <3>2. deferred' = deferred /\ active' = active
        BY <2>2 DEF PrepareMessage
      <3>3. r \in Unread
        BY <2>2 DEF PrepareMessage, Unread, Early
      <3>4. Without(history, r)
        BY <3>3 DEF GoodChains, Fine, Without
      <3>5. Read(r)
        BY <1>2, <1>5, <3>1, <3>4 DEF Read
      <3> QED
        BY <1>2, <1>3, <1>4, <1>8, <3>1, <3>2, <3>5
    <2>3. CASE Register(r)
      <3>1. req[r].pc = "start" /\ req'[r].base = req[r].base
        BY <2>3, SmallFields
      <3>2. Fit(Given(r)) /\ Fit(req[r].base)
        BY <1>1, <1>2, <3>1, GivenFine DEF Early
      <3>3. \A p \in Procs : \A h \in active'[p] : h \in active[p] \/ h \in {Given(r), req[r].base}
        BY <2>3 DEF Register
      <3>4. history' = history /\ deferred' = deferred
        BY <2>3 DEF Register
      <3> QED
        BY <1>2, <1>3, <1>4, <1>6, <1>8, <3>1, <3>2, <3>3, <3>4
    <2>4. CASE GateReady(r)
      <3>1. history' = history /\ deferred' = deferred /\ active' = active /\ req' = req
        BY <2>4 DEF GateReady
      <3> QED
        BY <1>2, <1>3, <1>4, <1>6, <1>8, <3>1
    <2>5. ASSUME NEW o \in Outcomes, Conclude(r, o) PROVE GoodChains'
      <3>1. req[r].pc \notin Early /\ deferred' = deferred /\ active' = active
        BY <2>5 DEF Conclude, Early
      <3>2. history' = Saved(r, o) /\ req'[r].base = req[r].base
        BY <2>5, ConcludeFields
      <3>3. Fit(Saved(r, o))
        BY <1>1, <3>1, GivenFine DEF Saved
      <3> QED
        BY <1>2, <1>3, <1>4, <1>6, <1>8, <3>1, <3>2, <3>3
    <2>6. CASE WriteDeferred(r)
      <3>1. req[r].pc \notin Early /\ req'[r].base = req[r].base
        BY <2>6, SmallFields DEF Early
      <3>2. \A d \in State(r) : Fit(d.chain)
        <4>1. Fit(Given(r)) /\ Fit(Append(Given(r), Msg("ask", r)))
          BY <1>1, <3>1, GivenFine
        <4>2. \A d \in State(r) : d.chain \in {Given(r), Append(Given(r), Msg("ask", r))}
          BY DEF State
        <4> QED
          BY <4>1, <4>2
      <3>3. history' = history /\ deferred' = deferred \cup State(r) /\ active' = active
        BY <2>6 DEF WriteDeferred
      <3> QED
        BY <1>2, <1>3, <1>4, <1>6, <1>8, <3>1, <3>2, <3>3
    <2>7. CASE Fail(r) \/ WriteContext(r) \/ Close(r) \/ Cancel(r)
      <3>1. req'[r].base = <<>>
        BY <2>7, EndFields
      <3>2. history' = history /\ deferred' = deferred
            /\ \A p \in Procs : active'[p] \subseteq active[p]
        BY <2>7 DEF Fail, WriteContext, Close, Cancel, Popped
      <3> QED
        BY <1>2, <1>3, <1>4, <1>6, <1>8, <3>1, <3>2
    <2> QED
      BY <1>8, <2>1, <2>2, <2>3, <2>4, <2>5, <2>6, <2>7 DEF Handler
  <1>9. ASSUME NEW r \in Requests, NEW p \in Procs, Abort(r, p) PROVE GoodChains'
    <2> DEFINE g == AbortBase(p)
               m == Msg("partial", r)
    <2>1. /\ req' = req /\ deferred' = deferred /\ tab' = tab
          /\ aborts' = aborts \ {r} /\ r \in aborts
          /\ active' = [active EXCEPT ![p] = {}]
          /\ history' = history \/ history' = Append(g, m)
      BY <1>9 DEF Abort
    <2>2. Fine(g, Unread, Live) /\ Fit(g)
      <3>1. g = history \/ g \in active[p]
        BY DEF AbortBase
      <3> QED
        BY <1>1, <3>1 DEF GoodChains
    <2>3. m \in Messages /\ m.by = r /\ m.part = "partial"
      BY MsgType DEF Parts, Msg
    <2> HIDE DEF g, m
    <2>4. r \in Live /\ r \notin Unread' /\ r \notin Live'
      BY <2>1 DEF Begun, Live, Unread
    <2>5. \A i \in 1 .. Len(g) : g[i] # m
      BY <2>2, <2>3, <2>4 DEF Fine
    <2>6. Fit(Append(g, m))
      BY <2>2, <2>3, <2>4, <2>5, AppendFine DEF Fit
    <2>7. \A q \in Procs : active'[q] \subseteq active[q]
      BY <2>1 DEF Typed
    <2> QED
      BY <1>2, <1>3, <1>6, <2>1, <2>6, <2>7
  <1>10. ASSUME NEW p \in Procs, Kill(p) PROVE GoodChains'
    <2>1. "lost" \in Outcomes
      BY DEF Outcomes
    <2>2. ASSUME NEW r \in Requests PROVE req'[r].base \in {req[r].base, <<>>}
      <3>1. req'[r] \in {req[r], Over(r, "lost")}
        BY <1>10 DEF Kill
      <3> QED
        BY <2>1, <3>1, OverFields
    <2>3. history' = history /\ deferred' = deferred
          /\ \A q \in Procs : active'[q] \subseteq active[q]
      BY <1>10 DEF Kill, Typed
    <2> QED
      BY <1>2, <1>3, <1>6, <2>2, <2>3
  <1>11. CASE UNCHANGED vars
    <2>1. history' = history /\ deferred' = deferred /\ active' = active /\ req' = req
      BY <1>11 DEF vars
    <2> QED
      BY <1>2, <1>3, <1>6, <2>1
  <1> QED
    BY <1>7, <1>8, <1>9, <1>10, <1>11 DEF Next

\* A sequence without repetition has as many elements as places.
LEMMA OnceCounts ==
  ASSUME NEW h \in Chain, Once(h) PROVE Cardinality(ToSet(h)) = Len(h)
  <1> DEFINE S == 1 .. Len(h)
             f == [i \in S |-> h[i]]
  <1>1. Len(h) \in Nat
    BY DEF Chain
  <1>2. ToSet(h) = {h[i] : i \in S}
    BY <1>1 DEF ToSet, Chain
  <1>3. IsFiniteSet(S) /\ Cardinality(S) = Len(h)
    BY <1>1, FS_Interval
  <1>4. \A i, j \in S : h[i] = h[j] => i = j
    BY DEF Once
  <1> HIDE DEF S
  <1>5. f \in [S -> ToSet(h)]
    BY <1>2
  <1>6. IsInjective(f)
    BY <1>4 DEF IsInjective
  <1>7. \A x \in ToSet(h) : \E i \in S : f[i] = x
    BY <1>2
  <1>8. f \in Bijection(S, ToSet(h))
    BY <1>5, <1>6, <1>7, Zenon DEF Bijection, Injection, Surjection
  <1>9. ExistsBijection(S, ToSet(h))
    BY <1>8, Zenon DEF ExistsBijection
  <1> QED
    BY <1>3, <1>9, FS_Bijection

\* No message is twice in the history, in the chain of a question or in the snapshot
\* of a stream (the saves of process and stream, handle_stream_abort).
THEOREM NoMessageTwice == Spec => []EachMessageOnce
  <1>1. Init => GoodChains /\ Begun
    BY EmptyFine DEF Init, GoodChains, Begun, NewRequest, Without
  <1>2. Typed /\ GoodChains /\ Begun /\ [Next]_vars => Begun'
    BY Older
  <1>3. Typed /\ Typed' /\ GoodChains /\ Begun /\ [Next]_vars => GoodChains'
    BY ChainsStep
  <1>4. GoodChains => EachMessageOnce
    <2> SUFFICES ASSUME GoodChains,
                        NEW h \in {history} \cup {d.chain : d \in deferred}
                                    \cup UNION {active[p] : p \in Procs}
                 PROVE  Cardinality(ToSet(h)) = Len(h)
      BY DEF EachMessageOnce
    <2>1. Fine(h, Unread, Live)
      BY DEF GoodChains
    <2> QED
      BY <2>1, OnceCounts DEF Fine
  <1> QED
    BY <1>1, <1>2, <1>3, <1>4, TypedHolds, PTL DEF Spec

-----------------------------------------------------------------------------
(* What the user has said.                                                 *)

\* What a chain says, with one message more.
Said(turns, m) == IF m.part \in {"prompt", "return"} THEN Append(turns, m) ELSE turns

\* The turns of a chain are counted from its first message on.
Counts(t, h) ==
  /\ t \in [0 .. Len(h) -> Chain] /\ t[0] = <<>>
  /\ \A i \in 1 .. Len(h) : t[i] = Said(t[i - 1], h[i])

LEMMA ChainLength == \A h \in Chain : Len(h) \in Nat /\ \A i \in 1 .. Len(h) : h[i] \in Messages
  BY DEF Chain

LEMMA SaidType == \A turns \in Chain, m \in Messages : Said(turns, m) \in Chain
  BY DEF Said, Chain

LEMMA TurnsCount ==
  ASSUME NEW h \in Chain
  PROVE  \E t : Counts(t, h) /\ Turns(h) = t[Len(h)]
  <1> DEFINE n == Len(h)
             Rule(t) == [i \in 0 .. n |-> IF i = 0 THEN <<>> ELSE Said(t[i - 1], h[i])]
             kept == CHOOSE t : t = Rule(t)
             step == [i \in 1 .. n |-> [s \in Chain |-> Said(s, h[i])]]
             none == <<>>
  <1>1. Turns(h) = kept[n]
    BY DEF Turns, Said
  <1>2. n \in Nat /\ none \in Chain /\ \A i \in 1 .. n : h[i] \in Messages
    BY ChainLength DEF Chain
  <1>3. step \in [1 .. n -> [Chain -> Chain]]
    BY <1>2, SaidType
  <1> HIDE DEF n, step, none, Rule, kept
  <1>4. PICK t : Follows(t, n, Chain, none, step)
    BY <1>2, <1>3, Recursion
  <1>5. t \in [0 .. n -> Chain] /\ t[0] = <<>> /\ \A i \in 1 .. n : t[i] = Said(t[i - 1], h[i])
    <2>1. t \in [0 .. n -> Chain] /\ t[0] = none /\ \A i \in 1 .. n : t[i] = step[i][t[i - 1]]
      BY <1>4 DEF Follows
    <2>2. ASSUME NEW i \in 1 .. n PROVE t[i] = Said(t[i - 1], h[i])
      <3>1. i - 1 \in 0 .. n
        BY <1>2
      <3>2. t[i - 1] \in Chain
        BY <2>1, <3>1
      <3>3. step[i][t[i - 1]] = Said(t[i - 1], h[i])
        BY <3>2 DEF step
      <3> QED
        BY <2>1, <3>3
    <2> QED
      BY <2>1, <2>2 DEF none
  <1>6. t = Rule(t)
    BY <1>2, <1>5 DEF Rule
  <1>7. kept = Rule(kept)
    BY <1>6 DEF kept
  <1>8. /\ kept[0] = <<>>
        /\ \A i \in 1 .. n : kept[i] = Said(kept[i - 1], h[i])
    BY <1>2, <1>7 DEF Rule
  <1> DEFINE Same == {k \in 0 .. n : kept[k] = t[k]}
  <1>9. 0 \in Same
    BY <1>2, <1>5, <1>8
  <1>10. ASSUME NEW k \in 0 .. n - 1, k \in Same PROVE k + 1 \in Same
    <2>1. k + 1 \in 1 .. n /\ (k + 1) - 1 = k /\ kept[k] = t[k]
      BY <1>2, <1>10
    <2>2. kept[k + 1] = Said(kept[k], h[k + 1]) /\ t[k + 1] = Said(t[k], h[k + 1])
      <3>1. kept[k + 1] = Said(kept[(k + 1) - 1], h[k + 1])
        BY <1>8, <2>1
      <3>2. t[k + 1] = Said(t[(k + 1) - 1], h[k + 1])
        BY <1>5, <2>1
      <3> QED
        BY <2>1, <3>1, <3>2
    <2> QED
      BY <2>1, <2>2
  <1> HIDE DEF Same
  <1>11. \A k \in 0 .. n : k \in Same
    BY <1>2, <1>9, <1>10, UpTo, Zenon
  <1>12. n \in Same
    BY <1>2, <1>11
  <1>13. kept[n] = t[n]
    BY <1>12 DEF Same
  <1>14. Counts(t, h)
    BY <1>5 DEF Counts, n
  <1> QED
    BY <1>1, <1>13, <1>14 DEF n

\* Two chains that begin alike say the same so far.
LEMMA CountsAgree ==
  ASSUME NEW g \in Chain, NEW h \in Chain, NEW t, NEW u, Counts(t, g), Counts(u, h),
         NEW k \in Nat, k <= Len(g), k <= Len(h), \A i \in 1 .. k : g[i] = h[i]
  PROVE  t[k] = u[k]
  <1> DEFINE Same == {j \in 0 .. k : t[j] = u[j]}
  <1>1. 0 \in Same
    BY DEF Counts
  <1>2. ASSUME NEW j \in 0 .. k - 1, j \in Same PROVE j + 1 \in Same
    <2>1. j + 1 \in 1 .. Len(g) /\ j + 1 \in 1 .. Len(h) /\ j + 1 \in 1 .. k /\ (j + 1) - 1 = j
      BY ChainLength
    <2>2. t[j + 1] = Said(t[(j + 1) - 1], g[j + 1]) /\ u[j + 1] = Said(u[(j + 1) - 1], h[j + 1])
      BY <2>1 DEF Counts
    <2>3. g[j + 1] = h[j + 1] /\ t[j] = u[j]
      BY <1>2, <2>1
    <2> QED
      BY <2>1, <2>2, <2>3
  <1> HIDE DEF Same
  <1>3. \A j \in 0 .. k : j \in Same
    BY <1>1, <1>2, UpTo, Zenon
  <1>4. k \in Same
    BY <1>3
  <1> QED
    BY <1>4 DEF Same

LEMMA TurnsOfAppend ==
  ASSUME NEW h \in Chain, NEW m \in Messages
  PROVE  Turns(h) \in Chain /\ Turns(Append(h, m)) = Said(Turns(h), m)
  <1> DEFINE g == Append(h, m)
             n == Len(h)
  <1>1. /\ g \in Chain /\ n \in Nat /\ Len(g) = n + 1 /\ g[n + 1] = m
        /\ \A i \in 1 .. n : g[i] = h[i]
    BY DEF Chain
  <1>2. PICK t : Counts(t, h) /\ Turns(h) = t[n]
    BY TurnsCount
  <1> HIDE DEF g
  <1>3. PICK u : Counts(u, g) /\ Turns(g) = u[n + 1]
    BY <1>1, TurnsCount
  <1>4. u[n] = t[n]
    BY <1>1, <1>2, <1>3, CountsAgree
  <1>5. u[n + 1] = Said(u[n], m)
    <2>1. n + 1 \in 1 .. Len(g) /\ (n + 1) - 1 = n
      BY <1>1
    <2>2. u[n + 1] = Said(u[(n + 1) - 1], g[n + 1])
      BY <1>3, <2>1 DEF Counts
    <2> QED
      BY <1>1, <2>1, <2>2
  <1>6. t[n] \in Chain
    BY <1>1, <1>2 DEF Counts
  <1> QED
    BY <1>2, <1>3, <1>4, <1>5, <1>6 DEF g

LEMMA TurnsType == \A h \in Chain : Turns(h) \in Chain
  <1> SUFFICES ASSUME NEW h \in Chain PROVE Turns(h) \in Chain
    OBVIOUS
  <1>1. PICK t : Counts(t, h) /\ Turns(h) = t[Len(h)]
    BY TurnsCount
  <1> QED
    BY <1>1, ChainLength DEF Counts

LEMMA PrefixOfItself == \A s \in Chain : IsPrefix(s, s)
  BY ChainLength DEF IsPrefix

LEMMA PrefixOfAppend ==
  ASSUME NEW s \in Chain, NEW t \in Chain, NEW m \in Messages, IsPrefix(s, t)
  PROVE  IsPrefix(s, Append(t, m))
  <1> DEFINE n == Len(s)
             u == Append(t, m)
  <1>1. n \in Nat /\ Len(t) \in Nat /\ n <= Len(t)
    BY ChainLength DEF IsPrefix
  <1>2. Len(u) = Len(t) + 1 /\ \A i \in 1 .. Len(t) : u[i] = t[i]
    BY DEF Chain
  <1>3. SubSeq(t, 1, n) = SubSeq(u, 1, n)
    BY <1>1, <1>2 DEF Chain
  <1> QED
    BY <1>1, <1>2, <1>3 DEF IsPrefix

LEMMA TurnsOfChains ==
  ASSUME Typed, NEW r \in Requests
  PROVE  /\ Turns(history) \in Chain /\ Turns(req[r].base) \in Chain
         /\ \E m \in Messages : Turns(Given(r)) = Append(Turns(req[r].base), m)
         /\ \A o \in Outcomes : Turns(Saved(r, o)) = Turns(Given(r))
         /\ \A d \in State(r) : d.call = r /\ Turns(d.chain) = Turns(Given(r))
  <1>1. req[r].base \in Chain /\ history \in Chain /\ Given(r) \in Chain
    BY ChainTypes DEF Typed, Request
  <1>2. /\ Msg("return", r) \in Messages /\ Msg("return", r).part = "return"
        /\ Msg("prompt", r) \in Messages /\ Msg("prompt", r).part = "prompt"
        /\ Msg("ask", r) \in Messages /\ Msg("ask", r).part = "ask"
        /\ Msg("reply", r) \in Messages /\ Msg("reply", r).part = "reply"
    BY MsgType DEF Parts, Msg
  <1>3. PICK m \in Messages : Given(r) = Append(req[r].base, m) /\ m.part \in {"prompt", "return"}
    BY <1>2 DEF Given
  <1>4. Turns(Given(r)) = Append(Turns(req[r].base), m)
    BY <1>1, <1>3, TurnsOfAppend DEF Said
  <1>5. \A n \in Messages : n.part \in {"ask", "reply"} =>
          Turns(Append(Given(r), n)) = Turns(Given(r))
    BY <1>1, TurnsOfAppend DEF Said
  <1>6. \A o \in Outcomes : Turns(Saved(r, o)) = Turns(Given(r))
    BY <1>2, <1>5 DEF Saved
  <1>7. \A d \in State(r) : d.call = r /\ Turns(d.chain) = Turns(Given(r))
    <2> DEFINE asked == Append(Given(r), Msg("ask", r))
    <2>1. Turns(asked) = Turns(Given(r))
      BY <1>2, <1>5
    <2>2. \A d \in State(r) : d.call = r /\ d.chain \in {Given(r), asked}
      BY DEF State
    <2> HIDE DEF asked
    <2> QED
      BY <2>1, <2>2
  <1>8. Turns(history) \in Chain /\ Turns(req[r].base) \in Chain
    BY <1>1, TurnsType
  <1> QED
    BY <1>3, <1>4, <1>6, <1>7, <1>8

\* A run keeps what it was given, until it has saved it.
LEMMA GivenStays ==
  ASSUME Typed, NEW r \in Requests,
         WriteDeferred(r) \/ \E o \in Outcomes : Conclude(r, o)
  PROVE  Given(r)' = Given(r)
  <1>1. req \in [Requests -> Request] /\ req[r] \in Request
    BY DEF Typed
  <1>2. req'[r].base = req[r].base /\ req'[r].kind = req[r].kind
    <2>1. CASE WriteDeferred(r)
      BY <1>1, <2>1 DEF WriteDeferred, Request
    <2>2. ASSUME NEW o \in Outcomes, Conclude(r, o)
          PROVE  req'[r].base = req[r].base /\ req'[r].kind = req[r].kind
      <3> DEFINE c == AfterHistory(r, o)
      <3>1. req' = [req EXCEPT ![r].pc = c, ![r].outcome = o]
        BY <2>2 DEF Conclude
      <3> HIDE DEF c
      <3> QED
        BY <1>1, <3>1 DEF Request
    <2> QED
      BY <2>1, <2>2
  <1> QED
    BY <1>2 DEF Given

\* Only a killed process loses the outcome of a request.
LEMMA NotLost ==
  ASSUME Typed, NEW r \in Requests, Tab(r) \/ Handler(r), req[r].outcome # "lost"
  PROVE  req'[r].outcome # "lost"
  <1>1. req \in [Requests -> Request] /\ req[r] \in Request
    BY DEF Typed
  <1>2. \A o \in Outcomes \ {"lost"} :
          Over(r, o).outcome # "lost" /\ Ended(r, o).outcome # "lost"
    <2>1. \A o : Over(r, o).outcome = IF req[r].gone THEN "none" ELSE o
      BY DEF Over, NewRequest
    <2>2. \A o \in Outcomes : Over(r, o) \in Request
      BY OverType
    <2>3. \A o \in Outcomes : Ended(r, o).outcome = Over(r, o).outcome
      BY <2>2 DEF Ended, Request
    <2> QED
      BY <2>1, <2>3
  <1>3. /\ "error" \in Outcomes \ {"lost"} /\ req[r].outcome \in Outcomes \ {"lost"}
        /\ Response(req[r].outcome) \in Outcomes \ {"lost"}
    BY <1>1 DEF Request, Response, Outcomes
  <1>4. ASSUME NEW p \in Procs, NEW kind \in Kinds, NEW stream \in BOOLEAN,
               Send(r, p, kind, stream)
        PROVE  req'[r].outcome # "lost"
    <2> DEFINE c == IF kind = "answer" THEN "prepare" ELSE "intent"
               to == IF kind = "answer" THEN CHOOSE q \in card : TRUE ELSE 0
               u == [NewRequest EXCEPT !.pc = c, !.kind = kind, !.stream = stream, !.on = {p},
                                       !.pending = Loaded(kind), !.to = to]
    <2>1. req' = [req EXCEPT ![r] = u]
      BY <1>4 DEF Send
    <2> HIDE DEF c, to
    <2>2. u.outcome = "none"
      BY DEF NewRequest
    <2> HIDE DEF u
    <2> QED
      BY <1>1, <2>1, <2>2
  <1>5. CASE Deliver(r)
    BY <1>1, <1>5 DEF Deliver, Request
  <1>6. ASSUME NEW partial \in BOOLEAN, Stop(r, partial) PROVE req'[r].outcome # "lost"
    BY <1>1, <1>6 DEF Stop, Request
  <1>7. CASE PrepareAnswer(r)
    <2>1. CASE req' = [req EXCEPT ![r] = Ended(r, "error")]
      BY <1>1, <1>2, <1>3, <2>1
    <2>2. ASSUME NEW d \in deferred,
                 req' = [req EXCEPT ![r].pc = IF req[r].stream THEN "start" ELSE "run",
                                    ![r].base = d.chain, ![r].pending = Cleared(r)]
          PROVE  req'[r].outcome # "lost"
      <3> DEFINE c == IF req[r].stream THEN "start" ELSE "run"
                 left == Cleared(r)
      <3>1. req' = [req EXCEPT ![r].pc = c, ![r].base = d.chain, ![r].pending = left]
        BY <2>2
      <3> HIDE DEF c, left
      <3> QED
        BY <1>1, <3>1 DEF Request
    <2> QED
      BY <1>7, <2>1, <2>2 DEF PrepareAnswer
  <1>8. CASE PrepareMessage(r)
    <2> DEFINE c == IF req[r].stream THEN "start" ELSE "run"
    <2>1. req' = [req EXCEPT ![r].pc = c, ![r].base = history']
      BY <1>8 DEF PrepareMessage
    <2> HIDE DEF c
    <2> QED
      BY <1>1, <2>1 DEF Request
  <1>9. CASE Register(r)
    BY <1>1, <1>9 DEF Register, Request
  <1>10. CASE WriteDeferred(r)
    BY <1>1, <1>10 DEF WriteDeferred, Request
  <1>11. CASE GateReady(r)
    BY <1>11 DEF GateReady
  <1>12. ASSUME NEW o \in Outcomes \ {"none", "error", "lost"}, Conclude(r, o)
         PROVE  req'[r].outcome # "lost"
    BY <1>12, ConcludeFields
  <1>13. CASE Fail(r) \/ WriteContext(r)
    BY <1>1, <1>2, <1>3, <1>13 DEF Fail, WriteContext
  <1>14. CASE Close(r) \/ Cancel(r)
    BY <1>1, <1>2, <1>3, <1>14 DEF Close, Cancel
  <1> QED
    BY <1>4, <1>5, <1>6, <1>7, <1>8, <1>9, <1>10, <1>11, <1>12, <1>13, <1>14 DEF Tab, Handler

\* The requests that have saved the state of their question, if they asked one.
Past == {"context", "closing", "done"}

OwnStates == \A d \in deferred : req[d.call].pc \in Past

\* The question whose chain is level with the history: that of the card, until its
\* answer goes on from it, and that of the request the tab waits for.
Level(q) ==
  \/ q \in card /\ \A r \in tab : req[r].pc = "prepare"
  \/ q \in tab /\ req[q].pc \in Past

\* Without stops and kills: the chain of a question that is level with the history
\* says what the history says, what a run goes on from says it too, and what a run has
\* saved says what it was given.
LevelChains ==
  breaks = 0 =>
    /\ aborts = {}
    /\ \A d \in deferred : Level(d.call) => Turns(d.chain) = Turns(history)
    /\ \A r \in Requests :
         /\ req[r].outcome # "lost"
         /\ r \in tab => card \subseteq {req[r].to}
         /\ req[r].pc = "prepare" => req[r].to \in card
         /\ req[r].pc \in {"start", "run"} => IsPrefix(Turns(history), Turns(req[r].base))
         /\ req[r].pc \in {"await", "deferred", "context"} => Turns(history) = Turns(Given(r))

LEMMA OwnStatesStep ==
  ASSUME Typed, OwnStates, [Next]_vars PROVE OwnStates'
  <1> DEFINE Stays(r) == req[r].pc \in Past => req'[r].pc \in Past
  <1>1. \A d \in deferred : d.call \in Requests
    BY DEF Typed
  <1>2. ASSUME \A r \in Requests : Stays(r), deferred' = deferred PROVE OwnStates'
    BY <1>1, <1>2 DEF OwnStates
  <1>3. ASSUME NEW r \in Requests, Tab(r) \/ Handler(r), Stays(r)
        PROVE  \A s \in Requests : Stays(s)
    BY <1>3, Others
  <1>4. ASSUME NEW r \in Requests, Tab(r) PROVE OwnStates'
    <2>1. Stays(r)
      BY <1>4, SendFields, SmallFields DEF Tab, Past
    <2>2. deferred' = deferred
      BY <1>4 DEF Tab, Send, Deliver, Stop
    <2> QED
      BY <1>2, <1>3, <1>4, <2>1, <2>2
  <1>5. ASSUME NEW r \in Requests, Handler(r) PROVE OwnStates'
    <2>1. CASE PrepareAnswer(r) \/ PrepareMessage(r) \/ Register(r) \/ GateReady(r)
               \/ \E o \in Outcomes : Conclude(r, o)
      <3>1. req[r].pc \notin Past /\ deferred' = deferred
        BY <2>1 DEF PrepareAnswer, PrepareMessage, Register, GateReady, Conclude, Past
      <3> QED
        BY <1>2, <1>3, <1>5, <3>1
    <2>2. CASE Fail(r) \/ WriteContext(r) \/ Close(r) \/ Cancel(r)
      <3>1. req'[r].pc \in Past
        BY <2>2, EndFields DEF Past
      <3>2. deferred' = deferred
        BY <2>2 DEF Fail, WriteContext, Close, Cancel
      <3> QED
        BY <1>2, <1>3, <1>5, <3>1, <3>2
    <2>3. CASE WriteDeferred(r)
      <3>1. req'[r].pc \in Past
        BY <2>3, SmallFields DEF Past
      <3>2. deferred' = deferred \cup State(r) /\ \A d \in State(r) : d.call = r
        BY <2>3 DEF WriteDeferred, State
      <3>3. \A s \in Requests : Stays(s)
        BY <1>3, <1>5, <3>1
      <3> QED
        BY <1>1, <3>1, <3>2, <3>3 DEF OwnStates
    <2> QED
      BY <1>5, <2>1, <2>2, <2>3 DEF Handler
  <1>6. ASSUME NEW r \in Requests, NEW p \in Procs, Abort(r, p) PROVE OwnStates'
    BY <1>2, <1>6 DEF Abort
  <1>7. ASSUME NEW p \in Procs, Kill(p) PROVE OwnStates'
    <2>1. "lost" \in Outcomes
      BY DEF Outcomes
    <2>2. ASSUME NEW r \in Requests PROVE Stays(r)
      <3>1. req'[r] \in {req[r], Over(r, "lost")}
        BY <1>7 DEF Kill
      <3> QED
        BY <2>1, <3>1, OverFields DEF Past
    <2> QED
      BY <1>2, <1>7, <2>2 DEF Kill
  <1>8. CASE UNCHANGED vars
    BY <1>2, <1>8 DEF vars
  <1> QED
    BY <1>4, <1>5, <1>6, <1>7, <1>8 DEF Next

LEMMA LevelStep ==
  ASSUME Typed, Typed', OneAtATime, OwnStates, LevelChains, [Next]_vars PROVE LevelChains'
  <1> DEFINE Own(r) ==
               /\ req[r].outcome # "lost"
               /\ r \in tab => card \subseteq {req[r].to}
               /\ req[r].pc = "prepare" => req[r].to \in card
               /\ req[r].pc \in {"start", "run"} =>
                    IsPrefix(Turns(history), Turns(req[r].base))
               /\ req[r].pc \in {"await", "deferred", "context"} =>
                    Turns(history) = Turns(Given(r))
             Same(d) == Level(d.call) => Turns(d.chain) = Turns(history)
             Good == aborts = {} /\ (\A d \in deferred : Same(d)) /\ \A r \in Requests : Own(r)
  <1> SUFFICES ASSUME breaks' = 0 PROVE Good'
    BY DEF LevelChains
  <1>1. breaks = 0
    BY NoBreakBefore
  <1>2. Good
    BY <1>1 DEF LevelChains
  <1>3. /\ \A r \in Requests : req[r].pc \notin {"new", "done"} => r \in tab
        /\ One(tab) /\ One(card) /\ One(card') /\ tab \in SUBSET Requests
        /\ \A d \in deferred : d.call \in Requests
        /\ breaks \in Nat
    BY <1>1, BoundAssumption DEF OneAtATime, Typed
  <1>4. ASSUME NEW r \in Requests, Tab(r) PROVE Good'
    <2>0. \A s \in Requests : s # r => req'[s] = req[s]
      BY <1>4, Others
    <2>1. req'[r].outcome # "lost"
      BY <1>2, <1>4, NotLost
    <2>2. ASSUME NEW p \in Procs, NEW kind \in Kinds, NEW stream \in BOOLEAN,
                 Send(r, p, kind, stream)
          PROVE  Good'
      <3>1. /\ req'[r].pc = (IF kind = "answer" THEN "prepare" ELSE "intent") /\ tab' = {r}
            /\ kind # "answer" => card' = {}
            /\ kind = "answer" => req'[r].to \in card /\ card' = card
        BY <2>2, SendFields
      <3>2. tab = {} /\ history' = history /\ deferred' = deferred /\ aborts' = aborts
        BY <2>2 DEF Send
      <3>3. \A s \in Requests : req[s].pc \in {"new", "done"}
        BY <1>3, <3>2
      <3>4. ASSUME NEW s \in Requests, s # r PROVE Own(s)'
        <4>1. req'[s] = req[s] /\ Own(s) /\ s \notin tab'
          BY <1>2, <2>0, <3>1, <3>4
        <4> QED
          BY <3>3, <4>1
      <3>5. Own(r)'
        <4>1. card' \subseteq {req'[r].to}
          BY <1>3, <3>1 DEF One
        <4>2. req'[r].pc = "prepare" => req'[r].to \in card'
          BY <3>1
        <4> QED
          BY <2>1, <3>1, <4>1, <4>2
      <3>6. ASSUME NEW d \in deferred PROVE Same(d)'
        <4>1. Level(d.call)' => Level(d.call)
          BY <3>1, <3>2 DEF Level, Past
        <4> QED
          BY <1>2, <3>2, <4>1
      <3> QED
        BY <1>2, <3>2, <3>4, <3>5, <3>6
    <2>3. CASE Deliver(r)
      <3>1. req[r].pc = "done" /\ req'[r].pc = "done"
        BY <2>3, SmallFields
      <3>2. /\ tab = {r} /\ tab' = {} /\ card' = NextCard(r)
            /\ history' = history /\ deferred' = deferred /\ aborts' = aborts
        BY <2>3 DEF Deliver
      <3>3. card' \subseteq {r}
        BY <1>2, <3>2 DEF NextCard
      <3>4. ASSUME NEW s \in Requests PROVE Own(s)'
        <4>1. CASE s = r
          BY <2>1, <3>1, <3>2, <4>1
        <4>2. CASE s # r
          <5>1. req'[s] = req[s] /\ Own(s) /\ s \notin tab' /\ req[s].pc \in {"new", "done"}
            BY <1>2, <1>3, <2>0, <3>2, <4>2
          <5> QED
            BY <5>1
        <4> QED
          BY <4>1, <4>2
      <3>5. ASSUME NEW d \in deferred PROVE Same(d)'
        <4>1. Level(d.call)' => Level(d.call)
          BY <3>1, <3>2, <3>3 DEF Level, Past
        <4> QED
          BY <1>2, <3>2, <4>1
      <3> QED
        BY <1>2, <3>2, <3>4, <3>5
    <2>4. ASSUME NEW partial \in BOOLEAN, Stop(r, partial) PROVE FALSE
      BY <1>1, <2>4 DEF Stop
    <2> QED
      BY <1>4, <2>2, <2>3, <2>4 DEF Tab
  <1>5. ASSUME NEW r \in Requests, Handler(r) PROVE Good'
    <2>0. /\ tab' = tab /\ card' = card /\ aborts' = aborts /\ req[r].pc \notin {"new", "done"}
          /\ \A s \in Requests : s # r => req'[s] = req[s]
      <3>1. tab' = tab /\ card' = card /\ aborts' = aborts /\ req[r].pc \notin {"new", "done"}
        BY <1>5 DEF Handler, PrepareAnswer, PrepareMessage, Register, GateReady, Conclude, Fail,
                    WriteDeferred, WriteContext, Close, Cancel
      <3> QED
        BY <1>5, <3>1, Others
    <2>1. tab = {r} /\ req'[r].outcome # "lost" /\ Own(r)
      <3>1. r \in tab
        BY <1>3, <2>0
      <3>2. tab = {r}
        BY <1>3, <3>1 DEF One
      <3> QED
        BY <1>2, <1>5, <3>2, NotLost
    <2>2. ASSUME NEW s \in Requests, s # r PROVE Own(s)'
      <3>1. req'[s] = req[s] /\ Own(s) /\ s \notin tab' /\ req[s].pc \in {"new", "done"}
        BY <1>2, <1>3, <2>0, <2>1, <2>2
      <3> QED
        BY <3>1
    <2>3. ASSUME req'[r].pc # "prepare",
                 \A d \in deferred' :
                   d.call = r /\ req'[r].pc \in Past => Turns(d.chain) = Turns(history'),
                 Own(r)'
          PROVE  Good'
      <3>1. ASSUME NEW d \in deferred', Level(d.call)' PROVE Turns(d.chain) = Turns(history')
        <4>1. d.call = r /\ req'[r].pc \in Past
          BY <2>0, <2>1, <2>3, <3>1 DEF Level
        <4> QED
          BY <2>3, <4>1
      <3> QED
        BY <1>2, <2>0, <2>2, <2>3, <3>1
    <2>4. ASSUME deferred' = deferred, history' = history
          PROVE  \A d \in deferred' :
                   d.call = r /\ req'[r].pc \in Past => Turns(d.chain) = Turns(history')
      <3> SUFFICES ASSUME NEW d \in deferred, d.call = r
                   PROVE  Turns(d.chain) = Turns(history)
        BY <2>4
      <3>1. req[r].pc \in Past
        BY DEF OwnStates
      <3>2. Level(d.call)
        BY <2>1, <3>1 DEF Level
      <3> QED
        BY <1>2, <3>2
    <2>5. /\ Turns(history) \in Chain /\ Turns(req[r].base) \in Chain
          /\ \A o \in Outcomes : Turns(Saved(r, o)) = Turns(Given(r))
          /\ \A d \in State(r) : Turns(d.chain) = Turns(Given(r))
      BY TurnsOfChains
    <2>6. CASE PrepareAnswer(r)
      <3>1. history' = history /\ deferred' = deferred
        BY <2>6 DEF PrepareAnswer
      <3>2. CASE req' = [req EXCEPT ![r] = Ended(r, "error")]
        <4>1. "error" \in Outcomes /\ req'[r] = Ended(r, "error")
          BY <3>2 DEF Outcomes, Typed
        <4>2. req'[r].pc \in {"closing", "done"} /\ req'[r].to = req[r].to
          BY <4>1, EndedFields
        <4>3. Own(r)'
          BY <2>0, <2>1, <4>2
        <4> QED
          BY <2>3, <2>4, <3>1, <4>2, <4>3
      <3>3. ASSUME NEW d \in deferred, d.call = req[r].to, req'[r].base = d.chain,
                   req'[r].pc = (IF req[r].stream THEN "start" ELSE "run"),
                   req'[r].to = req[r].to
            PROVE  Good'
        <4>1. req[r].pc = "prepare" /\ req'[r].pc \in {"start", "run"}
          BY <2>6, <3>3 DEF PrepareAnswer
        <4>2. Level(d.call)
          BY <2>1, <3>3, <4>1 DEF Level
        <4>3. Turns(req'[r].base) = Turns(history)
          BY <1>2, <3>3, <4>2
        <4>4. IsPrefix(Turns(history'), Turns(req'[r].base))
          BY <2>5, <3>1, <4>3, PrefixOfItself
        <4>5. Own(r)'
          BY <2>0, <2>1, <3>3, <4>1, <4>4
        <4> QED
          BY <2>3, <2>4, <3>1, <4>1, <4>5
      <3> QED
        BY <2>6, <3>2, <3>3, AnswerFields
    <2>7. CASE PrepareMessage(r)
      <3>1. /\ req[r].pc = "intent" /\ req'[r].pc \in {"start", "run"}
            /\ req'[r].base = history' /\ req'[r].to = req[r].to
        BY <2>7, MessageFields
      <3>2. history' \in Chain
        BY DEF Typed
      <3>3. Turns(history') \in Chain
        BY <3>2, TurnsType
      <3>4. IsPrefix(Turns(history'), Turns(req'[r].base))
        BY <3>1, <3>3, PrefixOfItself
      <3>5. Own(r)'
        BY <2>0, <2>1, <3>1, <3>4
      <3> QED
        BY <2>3, <3>1, <3>5 DEF Past
    <2>8. CASE Register(r) \/ GateReady(r)
      <3>1. /\ req[r].pc \in {"start", "run"} /\ req'[r].pc \in {"start", "run"}
            /\ req'[r].base = req[r].base /\ req'[r].to = req[r].to
        <4>1. req[r].pc \in {"start", "run"}
          BY <2>8 DEF Register, GateReady
        <4> QED
          BY <2>8, <4>1, SmallFields
      <3>2. history' = history /\ deferred' = deferred
        BY <2>8 DEF Register, GateReady
      <3>3. Own(r)'
        BY <2>0, <2>1, <3>1, <3>2
      <3> QED
        BY <2>3, <2>4, <3>1, <3>2, <3>3
    <2>9. ASSUME NEW o \in Outcomes, Conclude(r, o) PROVE Good'
      <3>1. /\ req'[r].pc \in {"await", "deferred", "context"} /\ req'[r].to = req[r].to
            /\ history' = Saved(r, o)
        BY <2>9, ConcludeFields DEF AfterHistory
      <3>2. req[r].pc \in {"start", "run"} /\ deferred' = deferred
        BY <2>9 DEF Conclude
      <3>3. Turns(history') = Turns(Given(r)')
        BY <2>5, <2>9, <3>1, GivenStays
      <3>4. Own(r)'
        BY <2>0, <2>1, <3>1, <3>3
      <3>5. \A d \in deferred : d.call # r
        BY <3>2 DEF OwnStates, Past
      <3> QED
        BY <2>3, <3>1, <3>2, <3>4, <3>5
    <2>10. CASE WriteDeferred(r)
      <3>1. /\ req[r].pc \in {"await", "deferred"} /\ req'[r].pc = "context"
            /\ req'[r].to = req[r].to
        BY <2>10, SmallFields
      <3>2. history' = history /\ deferred' = deferred \cup State(r)
        BY <2>10 DEF WriteDeferred
      <3>3. Turns(history') = Turns(Given(r)')
        BY <2>1, <2>10, <3>1, <3>2, GivenStays
      <3>4. Own(r)'
        BY <2>0, <2>1, <3>1, <3>3
      <3>5. \A d \in deferred : d.call # r
        BY <3>1 DEF OwnStates, Past
      <3>6. \A d \in State(r) : Turns(d.chain) = Turns(history')
        BY <2>1, <2>5, <3>1, <3>2
      <3> QED
        BY <2>3, <3>1, <3>2, <3>4, <3>5, <3>6
    <2>11. CASE Fail(r) \/ WriteContext(r) \/ Close(r) \/ Cancel(r)
      <3>1. req'[r].pc \in {"closing", "done"} /\ req'[r].to = req[r].to
        BY <2>11, EndFields
      <3>2. history' = history /\ deferred' = deferred
        BY <2>11 DEF Fail, WriteContext, Close, Cancel
      <3>3. Own(r)'
        BY <2>0, <2>1, <3>1
      <3> QED
        BY <2>3, <2>4, <3>1, <3>2, <3>3
    <2> QED
      BY <1>5, <2>6, <2>7, <2>8, <2>9, <2>10, <2>11 DEF Handler
  <1>6. ASSUME NEW r \in Requests, NEW p \in Procs, Abort(r, p) PROVE FALSE
    BY <1>2, <1>6 DEF Abort
  <1>7. ASSUME NEW p \in Procs, Kill(p) PROVE FALSE
    BY <1>1, <1>7 DEF Kill
  <1>8. CASE UNCHANGED vars
    BY <1>2, <1>8 DEF vars, Level, Given
  <1> QED
    BY <1>4, <1>5, <1>6, <1>7, <1>8 DEF Next

LEMMA SavesKeep ==
  ASSUME Typed, LevelChains, [Next]_vars, breaks = 0
  PROVE  history' = history \/ history' = <<>> \/ IsPrefix(Turns(history), Turns(history'))
  <1>1. ASSUME NEW r \in Requests, NEW o \in Outcomes, Conclude(r, o)
        PROVE  IsPrefix(Turns(history), Turns(history'))
    <2>1. req[r].pc \in {"start", "run"} /\ history' = Saved(r, o)
      BY <1>1 DEF Conclude
    <2>2. IsPrefix(Turns(history), Turns(req[r].base))
      BY <2>1 DEF LevelChains
    <2>3. /\ Turns(history) \in Chain /\ Turns(req[r].base) \in Chain
          /\ \E m \in Messages : Turns(Given(r)) = Append(Turns(req[r].base), m)
          /\ Turns(Saved(r, o)) = Turns(Given(r))
      BY TurnsOfChains
    <2> QED
      BY <2>1, <2>2, <2>3, PrefixOfAppend
  <1>2. ASSUME NEW r \in Requests, NEW p \in Procs, Abort(r, p) PROVE FALSE
    BY <1>2 DEF Abort, LevelChains
  <1>3. ASSUME NEW r \in Requests, PrepareMessage(r) PROVE history' \in {history, <<>>}
    BY <1>3, MessageFields
  <1>4. ASSUME NEW r \in Requests,
               Tab(r) \/ PrepareAnswer(r) \/ Register(r) \/ GateReady(r) \/ Fail(r)
                 \/ WriteDeferred(r) \/ WriteContext(r) \/ Close(r) \/ Cancel(r)
        PROVE  history' = history
    BY <1>4 DEF Tab, Send, Deliver, Stop, PrepareAnswer, Register, GateReady, Fail,
                WriteDeferred, WriteContext, Close, Cancel
  <1>5. ASSUME NEW p \in Procs, Kill(p) PROVE history' = history
    BY <1>5 DEF Kill
  <1>6. CASE UNCHANGED vars
    BY <1>6 DEF vars
  <1> QED
    BY <1>1, <1>2, <1>3, <1>4, <1>5, <1>6 DEF Next, Handler

\* As long as nothing is stopped or killed, no save loses a turn of the history, unless
\* the user switches topics (the saves of process and stream).
THEOREM NoTurnLost == Spec => TurnsAreKept
  <1>1. Init => OneAtATime /\ OwnStates /\ LevelChains
    BY DEF Init, OneAtATime, OwnStates, LevelChains, Level, NewRequest
  <1>2. Typed /\ LevelChains /\ [Next]_vars =>
          [ breaks = 0 => history' = <<>> \/ IsPrefix(Turns(history), Turns(history')) ]_vars
    <2> SUFFICES ASSUME Typed, LevelChains, [Next]_vars, breaks = 0, history' # <<>>
                 PROVE  IsPrefix(Turns(history), Turns(history'))
      OBVIOUS
    <2>1. CASE history' = history
      <3>1. IsPrefix(Turns(history), Turns(history))
        <4>1. history \in Chain
          BY DEF Typed
        <4> QED
          BY <4>1, TurnsType, PrefixOfItself
      <3> QED
        BY <2>1, <3>1
    <2> QED
      BY <2>1, SavesKeep
  <1>3. Typed /\ Typed' /\ Answerable /\ OneAtATime /\ [Next]_vars => OneAtATime'
    BY OneAtATimeStep
  <1>4. Typed /\ OwnStates /\ [Next]_vars => OwnStates'
    BY OwnStatesStep
  <1>5. Typed /\ Typed' /\ OneAtATime /\ OwnStates /\ LevelChains /\ [Next]_vars => LevelChains'
    BY LevelStep
  <1> QED
    BY <1>1, <1>2, <1>3, <1>4, <1>5, TypedHolds, AnswerableHolds, PTL DEF Spec, TurnsAreKept

=============================================================================
