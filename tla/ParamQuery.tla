----------------------------- MODULE ParamQuery -----------------------------
(***************************************************************************)
(* Parameter questions of one chat session (agent/runtime/service.py,      *)
(* agent/domain/parameter_query/service.py) over the indexes of ParamSync. *)
(* The text of a question may name ECUs, that is sources; a model reads    *)
(* the rest of it.  What remains open is asked with a card, saved as a     *)
(* deferred state, whose options carry the ids of a source and of a row.   *)
(* The case context (agent/context/manager.py) keeps the source of the     *)
(* last result and fills it in when the next question selects none.        *)
(*                                                                         *)
(* A request reads the index once, waits for the model, and then runs to   *)
(* its end without yielding.  The session has one request at a time.       *)
(***************************************************************************)
EXTENDS ParamSync

CONSTANTS
  NoSource, NoRow, NoRequest,
  MaxTurns,   \* bound: requests of the session
  MaxServing  \* bound: processes that have run in a behaviour in which the session asks

ASSUME NoSourceAssumption == NoSource \notin Source
ASSUME TurnsAssumption    == MaxTurns \in Nat

VARIABLES
  slot,      \* parameter_source_id and ecu_model of the case context
  pending,   \* the sources named in the query of its pending action
  cards,     \* the deferred states of the session
  request,   \* the request that waits for the model
  turns      \* requests so far

session == <<slot, pending, cards, request, turns>>
vars    == <<syncVars, session>>

-----------------------------------------------------------------------------
(* Rows, options and answers.                                              *)

MaybeSource == Source \cup {NoSource}

\* A row as an option carries it: its id; with it the content it was shown with.
Rows(idx, s) == {[id |-> <<idx.pins[s].id, n>>, shown |-> <<idx.pins[s].content, n>>] :
                   n \in RowsOf(idx, s)}

Pick(s, row) == [source |-> s, row |-> row]
NoPick       == Pick(NoSource, NoRow)

-----------------------------------------------------------------------------
(* Which source a question is about (_resolve_source).                     *)

Resolved(state, source, candidates) ==
  [state |-> state, source |-> source, candidates |-> candidates]
Exact(s)       == Resolved("exact_match", s, {})
Clarify(found) == Resolved("need_clarify", NoSource, found)
NotFound       == Resolved("ecu_not_found", NoSource, {})

\* What the model may read out of a question.
Intents == [source : MaybeSource, text : BOOLEAN, clarify : BOOLEAN,
            candidates : SUBSET Source]

\* What is taken instead when the model fails.
FallbackIntents(named, selected) ==
  IF selected # NoSource
    THEN {[source |-> selected, text |-> TRUE, clarify |-> FALSE, candidates |-> {}]}
  ELSE IF named # {}
    THEN {[source |-> s, text |-> TRUE, clarify |-> FALSE, candidates |-> named] : s \in named}
  ELSE {[source |-> NoSource, text |-> FALSE, clarify |-> TRUE, candidates |-> {}]}

\* Mutant: the selected source is final.
SelectedFirst(idx, named, s) == IF s \in idx.sources THEN Exact(s) ELSE NotFound

\* A selected source gives way to the other sources the text names.
Selected(idx, named, s) ==
  LET others == named \ {s} IN
  IF s \notin idx.sources THEN NotFound
  ELSE IF Cardinality(others) = 1 THEN Exact(CHOOSE t \in others : TRUE)
  ELSE IF others # {} THEN Clarify(others)
  ELSE Exact(s)

\* "inferred": the sources whose rows resemble the target of the question.
Interpreted(idx, intent, inferred) ==
  LET valid == intent.candidates \cap idx.sources IN
  IF intent.source # NoSource
    THEN IF intent.source \in idx.sources THEN Exact(intent.source) ELSE NotFound
  ELSE IF intent.text THEN NotFound
  ELSE IF intent.clarify THEN Clarify(IF valid # {} THEN valid ELSE inferred)
  ELSE IF Cardinality(valid) = 1 THEN Exact(CHOOSE s \in valid : TRUE)
  ELSE Clarify(IF valid # {} THEN valid ELSE inferred)

ResolveSource(idx, text, selected) ==
  LET named == text \cap idx.sources IN
  IF selected # NoSource THEN {Selected(idx, named, selected)}
  ELSE IF Cardinality(named) = 1 THEN {Exact(CHOOSE s \in named : TRUE)}
  ELSE IF named # {} THEN {Clarify(named)}
  ELSE {Interpreted(idx, intent, inferred) :
          intent \in Intents \cup FallbackIntents(named, selected),
          inferred \in SUBSET idx.sources}

-----------------------------------------------------------------------------
(* Which of its rows (_resolve_rows).                                      *)

\* Mutants: a row is found by its number; the row of an option is asked for again.
SameNumber(r, row) == r.id[2] = row.id[2]

SameRow(r, row) == r.id = row.id

\* The rows the model selects, or a pin number: any of them.
Selections(rows) ==
  [state : {"exact_match", "need_clarify"}, rows : (SUBSET rows) \ {{}}]
    \cup [state : {"missing_target", "pin_not_found"}, rows : {{}}]

SelectAgain(rows, row) == Selections(rows)

ResolveRows(rows, row) ==
  IF rows = {} THEN {[state |-> "pin_not_found", rows |-> {}]}
  ELSE IF row # NoRow
    THEN {LET same == {r \in rows : SameRow(r, row)}
          IN [state |-> IF same = {} THEN "pin_not_found" ELSE "exact_match", rows |-> same]}
  ELSE Selections(rows)

-----------------------------------------------------------------------------
(* The response (query_async).                                             *)

Response(kind, source, rows, options) ==
  [kind |-> kind, source |-> source, rows |-> rows, options |-> options]

Message == Response("message", NoSource, {}, {})

\* Sources that are not in the index are no options; a card may have none.
SourceCard(idx, found) ==
  Response("source_card", NoSource, {}, {Pick(s, NoRow) : s \in found \cap idx.sources})

RowResponse(s, chosen) ==
  CASE chosen.state = "exact_match"   -> Response("rows", s, chosen.rows, {})
    [] chosen.state = "pin_not_found" -> Response("no_row", s, {}, {})
    [] OTHER -> Response("row_card", s, {}, {Pick(s, r) : r \in chosen.rows})

Responses(idx, text, selected, row) ==
  IF ~HasData(idx) THEN {Message}
  ELSE UNION {
    IF found.state = "exact_match"
      THEN {RowResponse(found.source, chosen) :
              chosen \in ResolveRows(Rows(idx, found.source), row)}
      ELSE {SourceCard(idx, found.candidates)} :
    found \in ResolveSource(idx, text, selected)}

IsCard(response) == response.kind \in {"source_card", "row_card"}

-----------------------------------------------------------------------------
(* Requests of the session.                                                *)

QueryInit ==
  /\ Init
  /\ slot = [source |-> NoSource, ecu |-> NoSource]
  /\ pending = {} /\ cards = {} /\ request = NoRequest /\ turns = 0

\* Bound: no exception beside overlapping synchronisations; a session asks beside MaxServing
\* processes that have run, and again only if there was no exception and every source is live.
WithinBound ==
  /\ overlap => faults = 0
  /\ turns > 0 => Cardinality({p \in Process : process[p] # "down" \/ job[p] # "none"})
                    <= MaxServing
  /\ turns > 1 => faults = 0 /\ \A s \in Source : external[s].state = "live"

\* The index is taken from the store, or loaded if the process has none.
Ask(p, text, saved, pick) ==
  LET idx == IF index[p] = NoIndex THEN Load ELSE index[p] IN
  /\ request = NoRequest /\ process[p] = "serving" /\ turns < MaxTurns
  /\ turns' = turns + 1
  /\ index' = [index EXCEPT ![p] = idx]
  /\ request' = [process |-> p, index |-> idx, text |-> text, saved |-> saved, pick |-> pick]
  /\ UNCHANGED <<slot, pending, cards>>
  /\ UNCHANGED <<external, tables, job, process, thread, counts, overlap>>

\* A message; while a parameter question is pending it is joined to that question.
AskMessage(p) ==
  \E named \in SUBSET Source : Ask(p, named \cup pending, named \cup pending, NoPick)

\* An option of a card: its query again, with the option's ids.
AskOption(p, card) ==
  \E pick \in card.options : Ask(p, card.named, card.named, pick)

\* A text as the answer of a card: in front of its query, which alone is saved again.
AskText(p, card) ==
  \E named \in SUBSET Source : Ask(p, named \cup card.named, card.named, NoPick)

\* Mutant: the source of the option is not passed on.
OfContext == slot.source

\* The source the question selects: the option's, or else the one of the case context.
SelectedSource == IF request.pick # NoPick THEN request.pick.source ELSE slot.source

\* The model has answered.  The effective query, which the pending action keeps, also
\* names the ECU of the case context.
Reply ==
  /\ request # NoRequest
  /\ \E response \in Responses(request.index, request.text, SelectedSource, request.pick.row) :
       /\ slot' = IF response.source = NoSource THEN [slot EXCEPT !.source = SelectedSource]
                  ELSE [source |-> response.source, ecu |-> response.source]
       /\ IF IsCard(response)
            THEN /\ pending' = request.text \cup ({slot.ecu} \cap Source)
                 /\ cards' = cards \cup {[named |-> request.saved, options |-> response.options]}
            ELSE pending' = {} /\ cards' = cards
  /\ request' = NoRequest
  /\ UNCHANGED <<syncVars, turns>>

Request ==
  \/ \E p \in Process : \/ AskMessage(p)
                        \/ \E card \in cards : AskOption(p, card) \/ AskText(p, card)
  \/ Reply

\* A request dies with its process; what it would have saved is not saved.
Background ==
  /\ SyncNext
  /\ request' = IF request # NoRequest /\ process'[request.process] = "down"
                  THEN NoRequest ELSE request
  /\ UNCHANGED <<slot, pending, cards, turns>>

Next == (Background \/ Request) /\ WithinBound'

Spec == QueryInit /\ [][Next]_vars

\* The thread of a synchronisation runs on; its calls have timeouts.
FairSpec == Spec /\ \A p \in Process : WF_syncVars(SyncStep(p))

-----------------------------------------------------------------------------
(* Properties.                                                             *)

PickType == [source : Source, row : [id : Nat \X RowNo, shown : Version \X RowNo] \cup {NoRow}]
              \cup {NoPick}

\* The type invariant of a session's state.
TypeOK ==
  /\ SyncTypeOK
  /\ slot \in [source : MaybeSource, ecu : MaybeSource]
  /\ pending \subseteq Source
  /\ \A card \in cards : card.named \subseteq Source /\ card.options \subseteq PickType
  /\ request = NoRequest \/
       /\ request.process \in Process /\ request.index \in Index
       /\ request.text \subseteq Source /\ request.saved \subseteq Source
       /\ request.pick \in PickType
  /\ turns \in 0 .. MaxTurns

\* What the request that waits may be answered, once the model has.
Possible == Responses(request.index, request.text, SelectedSource, request.pick.row)
Waiting  == request # NoRequest /\ HasData(request.index)

\* An option for a row is answered with the row that was shown, or with none: a resync in
\* between replaces the rows of a source, and their ids are not used again.
ChosenRowIsAnswered ==
  Waiting /\ request.pick.row # NoRow =>
    \A response \in Possible : \A r \in response.rows : r.shown = request.pick.row.shown

\* A question whose text names one ECU is about that one, whatever source the session had
\* selected before, as long as the selected one is still in the index (_resolve_source).
OneNamedIsAnswered ==
  \A s \in Source :
    /\ Waiting /\ request.text \cap request.index.sources = {s}
    /\ SelectedSource \in request.index.sources \cup {NoSource}
    => \A response \in Possible : response.source = s

\* The option a user picks decides the source, also with an index of a later time, unless
\* the saved query names another source.
PickIsHonoured ==
  /\ Waiting /\ request.pick # NoPick /\ request.text \subseteq {request.pick.source}
  /\ request.pick.source \in request.index.sources
  => \A response \in Possible : response.source = request.pick.source

\* Picking options comes to an end: when the saved query and the pick name at most two
\* sources, an option for a source leads to rows or to a card for a row, an option for a row
\* to no more options.
PicksConverge ==
  \A other \in Source :
    (Waiting /\ request.pick # NoPick /\ request.text \subseteq {request.pick.source, other}) =>
      \A response \in Possible :
        response.options # {} => response.kind = "row_card" /\ request.pick.row = NoRow
=============================================================================
