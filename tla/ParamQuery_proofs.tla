------------------------- MODULE ParamQuery_proofs -------------------------
(***************************************************************************)
(* Proofs about the parameter questions of a session, for any number of    *)
(* sources, processes and requests, and whatever the model answers: what a *)
(* pick is answered with, and that the synchronisation keeps its promises  *)
(* beside the sessions.                                                    *)
(***************************************************************************)
EXTENDS ParamQuery, ParamSync_proofs, FiniteSetTheorems

-----------------------------------------------------------------------------
(* Responses.                                                              *)

LEMMA RowsType ==
  ASSUME NEW idx \in Index, NEW s \in Source, NEW r \in Rows(idx, s)
  PROVE  r \in [id : Nat \X RowNo, shown : Version \X RowNo]
  <1>1. idx.pins[s] \in Pins
    BY DEF Index
  <1>2. RowsOf(idx, s) \subseteq RowNo
    BY <1>1, RowsAssumption DEF RowsOf, Pins, Version
  <1>3. PICK n \in RowsOf(idx, s) :
          r = [id |-> <<idx.pins[s].id, n>>, shown |-> <<idx.pins[s].content, n>>]
    BY DEF Rows
  <1> QED
    BY <1>1, <1>2, <1>3 DEF Pins

LEMMA ResolvedRows ==
  ASSUME NEW rows, NEW row, NEW chosen \in ResolveRows(rows, row)
  PROVE  chosen.rows \subseteq rows
  BY DEF ResolveRows, Selections

LEMMA ResolvedSources ==
  ASSUME NEW idx \in Index, NEW text \in SUBSET Source, NEW selected \in MaybeSource,
         NEW found \in ResolveSource(idx, text, selected), found.state = "exact_match"
  PROVE  found.source \in idx.sources
  <1> DEFINE named == text \cap idx.sources
  <1>1. ASSUME NEW set \in SUBSET idx.sources, Cardinality(set) = 1
        PROVE  (CHOOSE s \in set : TRUE) \in idx.sources
    BY <1>1, FS_EmptySet
  <1>2. CASE selected # NoSource
    <2>1. found = Selected(idx, named, selected)
      BY <1>2 DEF ResolveSource
    <2> QED
      BY <1>1, <2>1 DEF Selected, NotFound, Exact, Clarify, Resolved
  <1>3. CASE selected = NoSource /\ named # {}
    <2>1. found = Exact(CHOOSE s \in named : TRUE) \/ found = Clarify(named)
      BY <1>3 DEF ResolveSource
    <2> QED
      BY <1>3, <2>1 DEF Exact, Clarify, Resolved
  <1>4. CASE selected = NoSource /\ named = {}
    <2>1. Cardinality(named) # 1
      BY <1>4, FS_EmptySet
    <2>2. PICK intent \in Intents \cup FallbackIntents(named, selected),
               inferred \in SUBSET idx.sources : found = Interpreted(idx, intent, inferred)
      BY <1>4, <2>1 DEF ResolveSource
    <2> QED
      BY <1>1, <2>2 DEF Interpreted, NotFound, Exact, Clarify, Resolved
  <1> QED
    BY <1>2, <1>3, <1>4

\* A response is a message, or the rows of a source that was resolved, or asks for a source.
LEMMA ResponseCases ==
  ASSUME NEW idx, NEW text, NEW selected, NEW row,
         NEW response \in Responses(idx, text, selected, row), HasData(idx)
  PROVE  \E found \in ResolveSource(idx, text, selected) :
           IF found.state = "exact_match"
             THEN \E chosen \in ResolveRows(Rows(idx, found.source), row) :
                    response = RowResponse(found.source, chosen)
             ELSE response = SourceCard(idx, found.candidates)
  <1>1. response \in UNION {
          IF found.state = "exact_match"
            THEN {RowResponse(found.source, chosen) :
                    chosen \in ResolveRows(Rows(idx, found.source), row)}
            ELSE {SourceCard(idx, found.candidates)} :
          found \in ResolveSource(idx, text, selected)}
    BY DEF Responses
  <1> QED
    BY <1>1

LEMMA ResponseType ==
  ASSUME NEW idx \in Index, NEW text \in SUBSET Source, NEW selected \in MaybeSource, NEW row,
         NEW response \in Responses(idx, text, selected, row)
  PROVE  response.source \in MaybeSource /\ response.options \subseteq PickType
  <1>1. CASE ~HasData(idx)
    BY <1>1 DEF Responses, Message, Response, MaybeSource
  <1>2. CASE HasData(idx)
    <2>1. PICK found \in ResolveSource(idx, text, selected) :
            IF found.state = "exact_match"
              THEN \E chosen \in ResolveRows(Rows(idx, found.source), row) :
                     response = RowResponse(found.source, chosen)
              ELSE response = SourceCard(idx, found.candidates)
      BY <1>2, ResponseCases
    <2>2. CASE found.state # "exact_match"
      BY <2>1, <2>2 DEF SourceCard, Response, MaybeSource, PickType, Pick, Index
    <2>3. CASE found.state = "exact_match"
      <3>1. PICK chosen \in ResolveRows(Rows(idx, found.source), row) :
              response = RowResponse(found.source, chosen)
        BY <2>1, <2>3
      <3>2. found.source \in Source
        BY <2>3, ResolvedSources DEF Index
      <3>3. \A r \in chosen.rows : Pick(found.source, r) \in PickType
        BY <3>2, RowsType, ResolvedRows DEF Pick, PickType
      <3> QED
        BY <3>1, <3>2, <3>3 DEF RowResponse, Response, MaybeSource
    <2> QED
      BY <2>2, <2>3
  <1> QED
    BY <1>1, <1>2
-----------------------------------------------------------------------------
(* Types.                                                                  *)

LEMMA QueryTypeInit == QueryInit => TypeOK
  BY TypeInit, TurnsAssumption DEF QueryInit, TypeOK, MaybeSource

LEMMA AskType ==
  ASSUME TypeOK, NEW p \in Process, NEW text \in SUBSET Source, NEW saved \in SUBSET Source,
         NEW pick \in PickType, Ask(p, text, saved, pick)
  PROVE  TypeOK'
  <1> DEFINE idx == IF index[p] = NoIndex THEN Load ELSE index[p]
  <1>1. idx \in Index
    BY LoadType DEF TypeOK, SyncTypeOK
  <1>2. index' = [index EXCEPT ![p] = idx]
    BY DEF Ask
  <1>3. index' \in [Process -> Index \cup {NoIndex}]
    BY <1>1, <1>2 DEF TypeOK, SyncTypeOK
  <1>4. SyncTypeOK'
    BY <1>3 DEF Ask, TypeOK, SyncTypeOK, tables, thread, counts
  <1>5. request' = [process |-> p, index |-> idx, text |-> text, saved |-> saved, pick |-> pick]
    BY DEF Ask
  <1>6. turns' \in 0 .. MaxTurns
    BY TurnsAssumption DEF Ask, TypeOK
  <1> HIDE DEF idx
  <1> QED
    BY <1>1, <1>4, <1>5, <1>6 DEF Ask, TypeOK

LEMMA SelectedType == TypeOK /\ request # NoRequest => SelectedSource \in MaybeSource
  BY DEF TypeOK, SelectedSource, PickType, MaybeSource

LEMMA QueryTypeStep == TypeOK /\ [Next]_vars => TypeOK'
  <1> SUFFICES ASSUME TypeOK, [Next]_vars PROVE TypeOK'
    OBVIOUS
  <1>1. NoPick \in PickType
    BY DEF PickType
  <1>2. ASSUME NEW p \in Process, AskMessage(p) PROVE TypeOK'
    <2>1. PICK named \in SUBSET Source : Ask(p, named \cup pending, named \cup pending, NoPick)
      BY <1>2 DEF AskMessage
    <2>2. named \cup pending \in SUBSET Source
      BY DEF TypeOK
    <2> QED
      BY <1>1, <2>1, <2>2, AskType
  <1>3. ASSUME NEW p \in Process, NEW card \in cards, AskOption(p, card) PROVE TypeOK'
    <2>1. card.named \in SUBSET Source /\ card.options \subseteq PickType
      BY DEF TypeOK
    <2> QED
      BY <1>3, <2>1, AskType DEF AskOption
  <1>4. ASSUME NEW p \in Process, NEW card \in cards, AskText(p, card) PROVE TypeOK'
    <2>1. PICK named \in SUBSET Source : Ask(p, named \cup card.named, card.named, NoPick)
      BY <1>4 DEF AskText
    <2>2. card.named \in SUBSET Source /\ named \cup card.named \in SUBSET Source
      BY DEF TypeOK
    <2> QED
      BY <1>1, <2>1, <2>2, AskType
  <1>5. CASE Reply
    <2>1. PICK response \in Responses(request.index, request.text, SelectedSource,
                                      request.pick.row) :
            /\ slot' = IF response.source = NoSource
                         THEN [slot EXCEPT !.source = SelectedSource]
                         ELSE [source |-> response.source, ecu |-> response.source]
            /\ IF IsCard(response)
                 THEN /\ pending' = request.text \cup ({slot.ecu} \cap Source)
                      /\ cards' = cards \cup {[named |-> request.saved,
                                               options |-> response.options]}
                 ELSE pending' = {} /\ cards' = cards
      BY <1>5 DEF Reply
    <2>2. request.index \in Index /\ request.text \in SUBSET Source /\ request.saved \subseteq Source
      BY <1>5 DEF Reply, TypeOK
    <2>3. SelectedSource \in MaybeSource
      BY <1>5, SelectedType DEF Reply
    <2>4. response.source \in MaybeSource /\ response.options \subseteq PickType
      BY <2>2, <2>3, ResponseType
    <2>5. slot' \in [source : MaybeSource, ecu : MaybeSource]
      BY <2>1, <2>3, <2>4 DEF TypeOK
    <2>6. pending' \subseteq Source
      BY <2>1, <2>2
    <2>7. \A card \in cards' : card.named \subseteq Source /\ card.options \subseteq PickType
      BY <2>1, <2>2, <2>4 DEF TypeOK
    <2>8. SyncTypeOK' /\ request' = NoRequest /\ turns' = turns
      BY <1>5 DEF Reply, TypeOK, SyncTypeOK, syncVars, tables, thread, counts
    <2> QED
      BY <2>5, <2>6, <2>7, <2>8 DEF TypeOK
  <1>6. CASE Background
    <2>1. SyncTypeOK'
      BY <1>6, TypeStep DEF Background, TypeOK
    <2>2. request' \in {NoRequest, request}
      BY <1>6 DEF Background
    <2> QED
      BY <1>6, <2>1, <2>2 DEF Background, TypeOK
  <1>7. CASE UNCHANGED vars
    BY <1>7 DEF vars, session, syncVars, tables, thread, counts, TypeOK, SyncTypeOK
  <1> QED
    BY <1>2, <1>3, <1>4, <1>5, <1>6, <1>7 DEF Next, Request

-----------------------------------------------------------------------------
(* The theorems.                                                           *)

\* The types of a session's state, of its cards and of its requests.
THEOREM QueryTyping == Spec => []TypeOK
  BY QueryTypeInit, QueryTypeStep, PTL DEF Spec

LEMMA OneSource ==
  ASSUME NEW idx, NEW text, NEW selected, NEW row, HasData(idx), NEW s,
         \A found \in ResolveSource(idx, text, selected) : found = Exact(s),
         NEW response \in Responses(idx, text, selected, row)
  PROVE  /\ response.source = s
         /\ \E chosen \in ResolveRows(Rows(idx, s), row) : response = RowResponse(s, chosen)
  <1>1. PICK chosen \in ResolveRows(Rows(idx, s), row) : response = RowResponse(s, chosen)
    BY ResponseCases DEF Exact, Resolved
  <1> QED
    BY <1>1 DEF RowResponse, Response

\* A question whose text names one ECU is about that one (_resolve_source).
THEOREM OneNamed == Spec => []OneNamedIsAnswered
  <1>1. ASSUME NEW s \in Source, Waiting, request.text \cap request.index.sources = {s},
               SelectedSource \in request.index.sources \cup {NoSource}
        PROVE  \A response \in Possible : response.source = s
    <2>1. Cardinality({s}) = 1 /\ (CHOOSE t \in {s} : TRUE) = s
      BY FS_Singleton
    <2>2. ASSUME NEW found \in ResolveSource(request.index, request.text, SelectedSource)
          PROVE  found = Exact(s)
      <3>1. CASE SelectedSource = NoSource
        BY <1>1, <2>1, <3>1 DEF ResolveSource
      <3>2. CASE SelectedSource # NoSource
        <4>1. found = Selected(request.index, {s}, SelectedSource)
          BY <1>1, <3>2 DEF ResolveSource
        <4>2. SelectedSource \in request.index.sources
          BY <1>1, <3>2
        <4>3. {s} \ {SelectedSource} = IF SelectedSource = s THEN {} ELSE {s}
          OBVIOUS
        <4> QED
          BY <2>1, <4>1, <4>2, <4>3, FS_EmptySet DEF Selected
      <3> QED
        BY <3>1, <3>2
    <2> QED
      BY <1>1, <2>2, OneSource DEF Possible, Waiting
  <1>2. OneNamedIsAnswered
    BY <1>1 DEF OneNamedIsAnswered
  <1> QED
    BY <1>2, PTL

-----------------------------------------------------------------------------
(* The ids of the rows.                                                    *)

\* The rows options carry, on cards and in the request that waits, and the indexes there are.
Offered ==
  {pick \in PickType : \/ \E card \in cards : pick \in card.options
                       \/ request # NoRequest /\ pick = request.pick}
OfferedRows == {pick.row : pick \in Offered} \ {NoRow}
Indexes ==
  ({index[p] : p \in Process} \ {NoIndex})
    \cup (IF request = NoRequest THEN {} ELSE {request.index})

\* The rows of a source, as one row of them tells.
PinsOf(row) == [content |-> row.shown[1], id |-> row.id[1]]

\* All that is known of rows: in the table, in an index, or on an option that may be old.
Known ==
  {NoPins} \cup {pins[s] : s \in Source} \cup {idx.pins[s] : idx \in Indexes, s \in Source}
    \cup {PinsOf(row) : row \in OfferedRows}

\* An id is of one content for ever, and those to come are new (AUTO_INCREMENT).
OneContent ==
  /\ \A a \in Known : a.id < nextId
  /\ \A a, b \in Known : a.id = b.id => a.content = b.content
  /\ \A row \in OfferedRows : row.id[2] = row.shown[2]

\* Whatever rows a response shows or offers are rows of a source in the request's index.
LEMMA ResponseRows ==
  ASSUME NEW idx \in Index, NEW text \in SUBSET Source, NEW selected \in MaybeSource, NEW row,
         NEW response \in Responses(idx, text, selected, row),
         NEW r, r \in response.rows \/ \E pick \in response.options : pick.row = r /\ r # NoRow
  PROVE  \E s \in Source : r \in Rows(idx, s)
  <1>1. HasData(idx)
    <2>1. ASSUME ~HasData(idx) PROVE FALSE
      BY <2>1 DEF Responses, Message, Response
    <2> QED
      BY <2>1
  <1>2. PICK found \in ResolveSource(idx, text, selected) :
          IF found.state = "exact_match"
            THEN \E chosen \in ResolveRows(Rows(idx, found.source), row) :
                   response = RowResponse(found.source, chosen)
            ELSE response = SourceCard(idx, found.candidates)
    BY <1>1, ResponseCases
  <1>3. CASE found.state # "exact_match"
    BY <1>2, <1>3 DEF SourceCard, Response, Pick
  <1>4. CASE found.state = "exact_match"
    <2>1. PICK chosen \in ResolveRows(Rows(idx, found.source), row) :
            response = RowResponse(found.source, chosen)
      BY <1>2, <1>4
    <2>2. found.source \in Source
      BY <1>4, ResolvedSources DEF Index
    <2>3. r \in chosen.rows
      BY <2>1 DEF RowResponse, Response, Pick
    <2> QED
      BY <2>2, <2>3, ResolvedRows
  <1> QED
    BY <1>3, <1>4

LEMMA KnownType == TypeOK => Known \subseteq Pins
  <1> SUFFICES ASSUME TypeOK PROVE Known \subseteq Pins
    OBVIOUS
  <1>1. NoPins \in Pins
    BY VersionAssumption DEF NoPins, Pins, Version
  <1>2. ASSUME NEW idx \in Indexes, NEW s \in Source PROVE idx.pins[s] \in Pins
    <2>1. idx \in Index
      BY DEF Indexes, TypeOK, SyncTypeOK
    <2> QED
      BY <2>1 DEF Index
  <1>3. ASSUME NEW row \in OfferedRows PROVE PinsOf(row) \in Pins
    <2>1. PICK pick \in Offered : row = pick.row /\ row # NoRow
      BY DEF OfferedRows
    <2>2. pick \in PickType
      BY DEF Offered
    <2>3. row \in [id : Nat \X RowNo, shown : Version \X RowNo]
      BY <2>1, <2>2 DEF PickType, NoPick, Pick
    <2> QED
      BY <2>3 DEF PinsOf, Pins
  <1>4. \A s \in Source : pins[s] \in Pins
    BY DEF TypeOK, SyncTypeOK
  <1> QED
    BY <1>1, <1>2, <1>3, <1>4 DEF Known

\* At most one content gets a new id.
LEMMA ContentKept ==
  ASSUME TypeOK, OneContent, NEW new, Known' \subseteq Known \cup {new},
         \/ new \in Known /\ nextId' = nextId
         \/ new.id = nextId /\ nextId' = nextId + 1,
         \A row \in OfferedRows' : row.id[2] = row.shown[2]
  PROVE  OneContent'
  <1>1. nextId \in Nat /\ \A a \in Known : a.id \in Nat /\ a.id < nextId
    BY KnownType DEF OneContent, Pins, TypeOK, SyncTypeOK
  <1>2. \A a \in Known' : a.id < nextId'
    BY <1>1
  <1>3. \A a, b \in Known' : a.id = b.id => a.content = b.content
    BY <1>1 DEF OneContent
  <1> QED
    BY <1>2, <1>3 DEF OneContent

\* What a step of a synchronisation does to rows and indexes.
LEMMA PinsStep ==
  ASSUME SyncTypeOK, SyncNext
  PROVE  \E new : /\ \A s \in Source : pins'[s] \in {pins[s], NoPins, new}
                  /\ \/ new = NoPins /\ nextId' = nextId
                     \/ new.id = nextId /\ nextId' = nextId + 1
  <1>1. ASSUME pins' = pins, nextId' = nextId
        PROVE  \A s \in Source : pins'[s] \in {pins[s], NoPins, NoPins}
    BY <1>1
  <1>2. ASSUME NEW p \in Process, NEW s \in Source, SyncSource(p, s)
        PROVE  /\ \A t \in Source : pins'[t] \in {pins[t], NoPins, Replaced(p, s)}
               /\ Replaced(p, s).id = nextId /\ nextId' = nextId + 1
    BY <1>2 DEF SyncSource, Replaced, SyncTypeOK
  <1>3. ASSUME NEW p \in Process, MarkDisabled(p)
        PROVE  (\A s \in Source : pins'[s] \in {pins[s], NoPins, NoPins}) /\ nextId' = nextId
    BY <1>3 DEF MarkDisabled, counts
  <1> QED
    BY <1>1, <1>2, <1>3
    DEF SyncNext, SyncStep, Start, StartFails, Kill, Begin, List, Fetch, MarkFailed,
        RebuildAliases, Finish, Rebuild, SyncFails, Edit, Remove, tables, counts

LEMMA IndexStep ==
  ASSUME SyncTypeOK, SyncNext
  PROVE  \A p \in Process : index'[p] \in {index[p], NoIndex, Load}
  BY DEF SyncNext, SyncStep, Start, StartFails, Kill, Begin, List, MarkDisabled, Fetch,
         SyncSource, MarkFailed, Done, RebuildAliases, Finish, Rebuild, SyncFails, Edit,
         Remove, SyncTypeOK

\* What a load takes from the table is known already.
LEMMA LoadIsKnown == \A s \in Source : Load.pins[s] \in Known
  BY DEF Load, Known

LEMMA OneContentStep == TypeOK /\ OneContent /\ [Next]_vars => OneContent'
  <1> SUFFICES ASSUME TypeOK, OneContent, [Next]_vars PROVE OneContent'
    OBVIOUS
  <1>1. ASSUME Indexes' \subseteq Indexes \cup {Load}, pins' = pins, nextId' = nextId,
               NEW more, Offered' \subseteq Offered \cup more,
               \A pick \in more : pick.row # NoRow =>
                 PinsOf(pick.row) \in Known /\ pick.row.id[2] = pick.row.shown[2]
        PROVE  OneContent'
    <2>1. \A row \in OfferedRows' : row \in OfferedRows \/ \E pick \in more : row = pick.row /\ row # NoRow
      BY <1>1 DEF OfferedRows
    <2>2. \A row \in OfferedRows' : row.id[2] = row.shown[2] /\ PinsOf(row) \in Known
      BY <1>1, <2>1 DEF OneContent, Known
    <2>3. \A idx \in Indexes', s \in Source : idx.pins[s] \in Known
      BY <1>1, LoadIsKnown DEF Known
    <2>4. \A s \in Source : pins'[s] \in Known
      BY <1>1 DEF Known
    <2>5. Known' \subseteq Known \cup {NoPins}
      BY <2>2, <2>3, <2>4 DEF Known
    <2>6. NoPins \in Known
      BY DEF Known
    <2> QED
      BY <1>1, <2>2, <2>5, <2>6, ContentKept
  <1>2. ASSUME NEW p \in Process, NEW text, NEW saved, NEW pick, Ask(p, text, saved, pick),
               pick \in Offered \cup {NoPick}
        PROVE  OneContent'
    <2> DEFINE idx == IF index[p] = NoIndex THEN Load ELSE index[p]
    <2>1. /\ index' = [index EXCEPT ![p] = idx] /\ request'.index = idx /\ request'.pick = pick
          /\ UNCHANGED <<cards, pins, nextId>>
      BY <1>2 DEF Ask, tables, counts
    <2>2. index \in [Process -> Index \cup {NoIndex}]
      BY DEF TypeOK, SyncTypeOK
    <2>3. idx \in Indexes \cup {Load}
      BY <2>2 DEF Indexes
    <2>4. Indexes' \subseteq Indexes \cup {Load}
      <3> HIDE DEF idx
      <3> QED
        BY <2>1, <2>2, <2>3 DEF Indexes
    <2> DEFINE more == {NoPick}
    <2> HIDE DEF idx, more
    <2>5. Offered' \subseteq Offered \cup more
      <3>1. \A choice \in Offered' : choice \in Offered \/ choice = pick
        BY <2>1 DEF Offered
      <3> QED
        BY <1>2, <3>1 DEF more
    <2>6. \A choice \in more : choice.row = NoRow
      BY DEF more, NoPick, Pick
    <2> QED
      BY <1>1, <2>1, <2>4, <2>5, <2>6
  <1>3. ASSUME NEW p \in Process, AskMessage(p) PROVE OneContent'
    BY <1>2, <1>3 DEF AskMessage
  <1>4. ASSUME NEW p \in Process, NEW card \in cards, AskOption(p, card) PROVE OneContent'
    <2>1. \A pick \in card.options : pick \in Offered
      BY DEF Offered, TypeOK
    <2> QED
      BY <1>2, <1>4, <2>1 DEF AskOption
  <1>5. ASSUME NEW p \in Process, NEW card \in cards, AskText(p, card) PROVE OneContent'
    BY <1>2, <1>5 DEF AskText
  <1>6. CASE Reply
    <2>1. PICK response \in Responses(request.index, request.text, SelectedSource,
                                      request.pick.row) :
            \/ cards' = cards \cup {[named |-> request.saved, options |-> response.options]}
            \/ cards' = cards
      BY <1>6 DEF Reply
    <2>2. request # NoRequest /\ request.index \in Index /\ request.text \in SUBSET Source
      BY <1>6 DEF Reply, TypeOK
    <2>3. SelectedSource \in MaybeSource
      BY <2>2, SelectedType
    <2>4. ASSUME NEW pick \in response.options, pick.row # NoRow
          PROVE  PinsOf(pick.row) \in Known /\ pick.row.id[2] = pick.row.shown[2]
      <3>1. PICK s \in Source : pick.row \in Rows(request.index, s)
        BY <2>2, <2>3, <2>4, ResponseRows
      <3>2. PICK n : pick.row = [id |-> <<request.index.pins[s].id, n>>,
                                 shown |-> <<request.index.pins[s].content, n>>]
        BY <3>1 DEF Rows
      <3>3. request.index.pins[s] \in Pins
        BY <2>2 DEF Index
      <3>4. PinsOf(pick.row) = request.index.pins[s]
        BY <3>2, <3>3 DEF PinsOf, Pins
      <3>5. request.index.pins[s] \in Known
        BY <2>2 DEF Known, Indexes
      <3> QED
        BY <3>2, <3>4, <3>5
    <2>5. Offered' \subseteq Offered \cup response.options
      BY <1>6, <2>1 DEF Reply, Offered
    <2>6. Indexes' \subseteq Indexes \cup {Load}
      BY <1>6 DEF Reply, syncVars, Indexes
    <2> QED
      BY <1>1, <1>6, <2>4, <2>5, <2>6 DEF Reply, syncVars, tables, counts
  <1>7. CASE Background
    <2>1. request' \in {NoRequest, request} /\ cards' = cards
      BY <1>7 DEF Background
    <2>2. SyncTypeOK /\ SyncNext
      BY <1>7 DEF Background, TypeOK
    <2>3. PICK new : /\ \A s \in Source : pins'[s] \in {pins[s], NoPins, new}
                     /\ \/ new = NoPins /\ nextId' = nextId
                        \/ new.id = nextId /\ nextId' = nextId + 1
      BY <2>2, PinsStep
    <2>4. Offered' \subseteq Offered
      BY <2>1 DEF Offered
    <2>5. OfferedRows' \subseteq OfferedRows
      BY <2>4 DEF OfferedRows
    <2>6. Indexes' \subseteq Indexes \cup {Load}
      BY <2>1, <2>2, IndexStep DEF Indexes
    <2>7. \A idx \in Indexes', s \in Source : idx.pins[s] \in Known
      BY <2>6, LoadIsKnown DEF Known
    <2>8. NoPins \in Known /\ \A s \in Source : pins[s] \in Known
      BY DEF Known
    <2>9. \A row \in OfferedRows' : PinsOf(row) \in Known /\ row.id[2] = row.shown[2]
      BY <2>5 DEF Known, OneContent
    <2>10. Known' \subseteq Known \cup {new}
      BY <2>3, <2>7, <2>8, <2>9 DEF Known
    <2> QED
      BY <2>3, <2>8, <2>9, <2>10, ContentKept
  <1>8. CASE UNCHANGED vars
    BY <1>8 DEF vars, session, syncVars, tables, counts, OneContent, Known, Indexes, OfferedRows,
                Offered, PinsOf
  <1> QED
    BY <1>3, <1>4, <1>5, <1>6, <1>7, <1>8 DEF Next, Request

\* An option for a row is answered with that row or with none, however often its source was
\* synchronised since the card was shown (_resolve_rows).
THEOREM ChosenRowAnswered == Spec => []ChosenRowIsAnswered
  <1>1. QueryInit => OneContent
    BY DEF QueryInit, Init, OneContent, Known, Indexes, OfferedRows, Offered, NoPins
  <1>2. TypeOK /\ OneContent => ChosenRowIsAnswered
    <2> SUFFICES ASSUME TypeOK, OneContent, Waiting, request.pick.row # NoRow,
                        NEW response \in Possible, NEW r \in response.rows
                 PROVE  r.shown = request.pick.row.shown
      BY DEF ChosenRowIsAnswered
    <2> DEFINE row == request.pick.row
    <2>1. /\ request # NoRequest /\ request.index \in Index /\ request.text \in SUBSET Source
          /\ request.pick \in PickType /\ SelectedSource \in MaybeSource
      BY SelectedType DEF Waiting, TypeOK
    <2>2. PICK found \in ResolveSource(request.index, request.text, SelectedSource) :
            IF found.state = "exact_match"
              THEN \E chosen \in ResolveRows(Rows(request.index, found.source), row) :
                     response = RowResponse(found.source, chosen)
              ELSE response = SourceCard(request.index, found.candidates)
      BY ResponseCases DEF Waiting, Possible
    <2>3. found.state = "exact_match"
      BY <2>2 DEF SourceCard, Response
    <2>4. PICK chosen \in ResolveRows(Rows(request.index, found.source), row) :
            response = RowResponse(found.source, chosen)
      BY <2>2, <2>3
    <2>5. r \in chosen.rows
      BY <2>4 DEF RowResponse, Response
    <2>6. r \in Rows(request.index, found.source) /\ r.id = row.id
      BY <2>5 DEF ResolveRows, SameRow
    <2>7. found.source \in Source
      BY <2>1, <2>3, ResolvedSources DEF Index
    <2>8. PICK n : r = [id |-> <<request.index.pins[found.source].id, n>>,
                        shown |-> <<request.index.pins[found.source].content, n>>]
      BY <2>6 DEF Rows
    <2>9. row \in [id : Nat \X RowNo, shown : Version \X RowNo]
      BY <2>1 DEF PickType, NoPick, Pick
    <2>10. row \in OfferedRows
      <3>1. request.pick \in Offered
        BY <2>1 DEF Offered
      <3> QED
        BY <3>1 DEF OfferedRows
    <2>11. PinsOf(row) \in Known /\ request.index.pins[found.source] \in Known
      BY <2>1, <2>7, <2>10 DEF Known, Indexes
    <2>12. PinsOf(row).id = request.index.pins[found.source].id
      BY <2>6, <2>8, <2>9 DEF PinsOf
    <2>13. row.shown[1] = request.index.pins[found.source].content
      BY <2>11, <2>12 DEF OneContent, PinsOf
    <2>14. row.shown[2] = n
      BY <2>6, <2>8, <2>10 DEF OneContent
    <2>15. row.shown = <<row.shown[1], row.shown[2]>>
      BY <2>9
    <2> QED
      BY <2>8, <2>13, <2>14, <2>15
  <1> QED
    BY <1>1, <1>2, OneContentStep, QueryTyping, PTL DEF Spec

-----------------------------------------------------------------------------
(* Picks.                                                                  *)

\* The source of a pick that is in the index, unless the text names another one.
LEMMA SelectedAlone ==
  ASSUME NEW idx, NEW text, NEW s \in Source, s \in idx.sources, text \subseteq {s},
         NEW found \in ResolveSource(idx, text, s)
  PROVE  found = Exact(s)
  <1>1. found = Selected(idx, text \cap idx.sources, s)
    BY NoSourceAssumption DEF ResolveSource
  <1>2. (text \cap idx.sources) \ {s} = {}
    OBVIOUS
  <1> QED
    BY <1>1, <1>2, FS_EmptySet DEF Selected

LEMMA PickSelects ==
  TypeOK /\ Waiting /\ request.pick # NoPick =>
    SelectedSource = request.pick.source /\ request.pick.source \in Source
  BY DEF TypeOK, Waiting, SelectedSource, PickType

\* A pick decides the source, with whatever index and whatever the model answers
\* (_resolve_source, query_async).
THEOREM PickHonoured == Spec => []PickIsHonoured
  <1>1. TypeOK => PickIsHonoured
    BY PickSelects, SelectedAlone, OneSource DEF PickIsHonoured, Possible, Waiting
  <1> QED
    BY <1>1, QueryTyping, PTL

\* Options lead from sources to rows and from rows to an answer (_resolve_source,
\* _resolve_rows).
THEOREM PicksEnd == Spec => []PicksConverge
  <1>1. ASSUME TypeOK, NEW other \in Source, Waiting, request.pick # NoPick,
               request.text \subseteq {request.pick.source, other},
               NEW response \in Possible, response.options # {}
        PROVE  response.kind = "row_card" /\ request.pick.row = NoRow
    <2> DEFINE s == request.pick.source
               others == (request.text \cap request.index.sources) \ {s}
    <2>1. SelectedSource = s /\ s \in Source /\ HasData(request.index)
      BY <1>1, PickSelects DEF Waiting
    <2>2. PICK found \in ResolveSource(request.index, request.text, s) :
            IF found.state = "exact_match"
              THEN \E chosen \in ResolveRows(Rows(request.index, found.source), request.pick.row) :
                     response = RowResponse(found.source, chosen)
              ELSE response = SourceCard(request.index, found.candidates)
      BY <1>1, <2>1, ResponseCases DEF Possible
    <2>3. found = Selected(request.index, request.text \cap request.index.sources, s)
      BY <2>1, <2>2, NoSourceAssumption DEF ResolveSource
    <2>4. others = {} \/ others = {other}
      BY <1>1
    <2>5. found = NotFound \/ \E t : found = Exact(t)
      <3>1. others = {} \/ Cardinality(others) = 1
        BY <2>4, FS_Singleton
      <3> QED
        BY <2>3, <3>1 DEF Selected
    <2>6. found.state = "exact_match"
      BY <1>1, <2>2, <2>5 DEF NotFound, Exact, Resolved, SourceCard, Response
    <2>7. PICK chosen \in ResolveRows(Rows(request.index, found.source), request.pick.row) :
            response = RowResponse(found.source, chosen)
      BY <2>2, <2>6
    <2>8. chosen.state \notin {"exact_match", "pin_not_found"}
      BY <1>1, <2>7 DEF RowResponse, Response
    <2>9. response.kind = "row_card"
      BY <2>7, <2>8 DEF RowResponse, Response
    <2>10. request.pick.row = NoRow
      BY <2>7, <2>8 DEF ResolveRows
    <2> QED
      BY <2>9, <2>10
  <1>2. TypeOK => PicksConverge
    BY <1>1 DEF PicksConverge
  <1> QED
    BY <1>2, QueryTyping, PTL

-----------------------------------------------------------------------------
(* The synchronisation beside the sessions.  A request writes nothing of   *)
(* it, but it may load an index where there was none.                      *)

\* A load serves no rows that are newer than the tables, or than what a thread has fetched.
LEMMA LoadKeepsInv ==
  ASSUME IInv, SyncTypeOK', \A p \in Process : index'[p] \in {index[p], Load},
         UNCHANGED <<external, tables, job, process, thread, counts, overlap>>
  PROVE  IInv'
  <1> USE DEF tables, thread, counts
  <1>1. \A s \in Source : LoadsRows(s) /\ VersionTypes(s)
    BY LoadFacts, Versions DEF IInv
  <1>2. DownIsIdle' /\ OneWriter' /\ FirstReads' /\ TodoIsLive' /\ ListedVersions'
    BY DEF IInv, DownIsIdle, OneWriter, Writing, FirstReads, TodoIsLive, ListedVersions
  <1>3. KnownVersions'
    <2>1. ASSUME NEW s \in Source PROVE Load.pins[s].content <= external[s].version
      <3>1. Load.pins[s].content \in Nat
        BY LoadType, VersionAssumption DEF IInv, Index, Pins, Version
      <3> QED
        BY <1>1, <3>1 DEF IInv, KnownVersions, LoadsRows, VersionTypes
    <2> QED
      BY <2>1 DEF IInv, KnownVersions
  <1>4. FetchedVersions'
    <2>1. ASSUME NEW p \in Process, pc[p] = "source", NEW s \in todo[p], ~overlap,
                 external[s].state # "absent", NEW q \in Process, index'[q] # NoIndex
          PROVE  index'[q].pins[s].content <= contents[p][s]
      <3>1. s \in Source /\ contents[p][s] \in Nat
        BY VersionAssumption DEF IInv, SyncTypeOK, Version
      <3>2. CASE index'[q] = index[q]
        BY <2>1, <3>2 DEF IInv, FetchedVersions
      <3>3. CASE index'[q] = Load
        <4>1. Load.pins[s].content <= pins[s].content /\ pins[s].content <= contents[p][s]
          BY <1>1, <2>1, <3>1 DEF IInv, FetchedVersions, LoadsRows
        <4>2. Load.pins[s].content \in Nat /\ pins[s].content \in Nat
          BY <3>1, <1>1, LoadType, VersionAssumption DEF IInv, VersionTypes, Index, Pins, Version
        <4> QED
          BY <3>1, <3>3, <4>1, <4>2
      <3> QED
        BY <3>2, <3>3
    <2> QED
      BY <2>1 DEF IInv, FetchedVersions
  <1>5. ServedIsOlder'
    BY <1>1 DEF IInv, ServedIsOlder, Ready, LoadsRows, VersionTypes
  <1>6. Records' /\ SoFarComplete' /\ ReadyHasItsRows' /\ StaleIsDetected'
    BY DEF IInv, Records, SoFarComplete, ReadyHasItsRows, StaleIsDetected, Has, Ready, NeedsResync
  <1> QED
    BY <1>2, <1>3, <1>4, <1>5, <1>6 DEF IInv

\* What a request does to the indexes.
LEMMA RequestLoads ==
  ASSUME SyncTypeOK, Request
  PROVE  /\ \A p \in Process : index'[p] = index[p] \/ (index[p] = NoIndex /\ index'[p] = Load)
         /\ UNCHANGED <<external, tables, job, process, thread, counts, overlap>>
  <1>1. ASSUME NEW p \in Process, NEW text, NEW saved, NEW pick, Ask(p, text, saved, pick)
        PROVE  /\ \A q \in Process : index'[q] = index[q] \/ (index[q] = NoIndex /\ index'[q] = Load)
               /\ UNCHANGED <<external, tables, job, process, thread, counts, overlap>>
    <2>1. index' = [index EXCEPT ![p] = IF index[p] = NoIndex THEN Load ELSE index[p]]
      BY <1>1 DEF Ask
    <2>2. \A q \in Process : index'[q] = index[q] \/ (index[q] = NoIndex /\ index'[q] = Load)
      BY <2>1 DEF SyncTypeOK
    <2> QED
      BY <1>1, <2>2 DEF Ask
  <1>2. CASE Reply
    <2>1. UNCHANGED syncVars
      BY <1>2 DEF Reply
    <2> QED
      BY <2>1 DEF syncVars
  <1> QED
    BY <1>1, <1>2 DEF Request, AskMessage, AskOption, AskText

LEMMA ComposedInvariance == Spec => []IInv
  <1>1. QueryInit => IInv
    BY InvInit DEF QueryInit
  <1>2. IInv /\ TypeOK' /\ [Next]_vars => IInv'
    <2> SUFFICES ASSUME IInv, TypeOK', [Next]_vars PROVE IInv'
      OBVIOUS
    <2>1. CASE Background \/ UNCHANGED vars
      BY <2>1, InvStep DEF Background, vars
    <2>2. CASE Request
      <3>1. SyncTypeOK /\ SyncTypeOK'
        BY DEF IInv, TypeOK
      <3> QED
        BY <2>2, <3>1, RequestLoads, LoadKeepsInv
    <2> QED
      BY <2>1, <2>2 DEF Next
  <1> QED
    BY <1>1, <1>2, QueryTyping, PTL DEF Spec

\* The sessions do not disturb the synchronisation: beside their requests too, the rows of a
\* ready source are those of its record, and stale content is found (sync_service.py).
THEOREM ComposedSync == Spec => [](ReadyHasItsRows /\ StaleIsDetected)
  <1>1. IInv => ReadyHasItsRows /\ StaleIsDetected
    BY DEF IInv
  <1> QED
    BY <1>1, ComposedInvariance, PTL

\* Nor do they make a process serve an older content or a synchronisation report success for
\* what it has not done (index_store.py, sync_service.py).
THEOREM ComposedSteps == Spec => NeverServesOlder /\ SuccessIsComplete
  <1>1. IInv /\ IInv' /\ [Next]_vars =>
          [\A p \in Process : (~overlap' /\ index[p] # NoIndex /\ index'[p] # NoIndex) =>
             \A s \in index[p].sources \cap index'[p].sources :
               \/ index'[p].pins[s].content >= index[p].pins[s].content
               \/ external[s].state = "absent"]_syncVars
    <2> SUFFICES ASSUME IInv, IInv', [Next]_vars, NEW p \in Process, ~overlap',
                        index[p] # NoIndex, index'[p] # NoIndex,
                        NEW s \in index[p].sources \cap index'[p].sources,
                        external[s].state # "absent"
                 PROVE  index'[p].pins[s].content >= index[p].pins[s].content
      OBVIOUS
    <2>1. CASE Background \/ UNCHANGED vars
      BY <2>1, OlderStep DEF Background, vars
    <2>2. CASE Request
      <3>1. SyncTypeOK
        BY DEF IInv
      <3>2. index'[p] = index[p]
        BY <2>2, <3>1, RequestLoads
      <3>3. index[p].pins[s].content \in Nat
        BY <3>1, VersionAssumption DEF SyncTypeOK, Index, Pins, Version
      <3> QED
        BY <3>2, <3>3
    <2> QED
      BY <2>1, <2>2 DEF Next
  <1>2. IInv /\ [Next]_vars =>
          [\A p \in Process : (~overlap /\ job[p] = "running" /\ job'[p] = "success") =>
             \A s \in Source :
               /\ listed[p][s].state = "live" =>
                    Ready(knowledge[s]) /\ knowledge[s].version = listed[p][s].version
               /\ listed[p][s].state = "disabled" => ~Ready(knowledge[s]) /\ pins[s] = NoPins]_syncVars
    <2> SUFFICES ASSUME IInv, [Next]_vars
                 PROVE  \A p \in Process : (~overlap /\ job[p] = "running" /\ job'[p] = "success") =>
                          \A s \in Source :
                            /\ listed[p][s].state = "live" =>
                                 Ready(knowledge[s]) /\ knowledge[s].version = listed[p][s].version
                            /\ listed[p][s].state = "disabled" =>
                                 ~Ready(knowledge[s]) /\ pins[s] = NoPins
      OBVIOUS
    <2>1. CASE Background \/ UNCHANGED vars
      BY <2>1, SuccessStep DEF Background, vars
    <2>2. CASE Request
      <3>1. job' = job
        BY <2>2, RequestLoads DEF IInv
      <3> QED
        BY <3>1
    <2> QED
      BY <2>1, <2>2 DEF Next
  <1> QED
    BY <1>1, <1>2, ComposedInvariance, PTL DEF Spec, NeverServesOlder, SuccessIsComplete
=============================================================================
