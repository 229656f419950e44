----------------------------- MODULE DocSearch -----------------------------
(***************************************************************************)
(* The document search of one chat session: _execute_doc_search_workflow   *)
(* of agent/runtime/service.py with agent/domain/doc_search and            *)
(* legacy/services/clarify_service.py.  A search that finds too much is    *)
(* answered with a card; the deferred state of the card keeps the results  *)
(* (the snapshot), and an option carries filters and ids that choose among *)
(* them, perhaps for another card.                                         *)
(*                                                                         *)
(* Documents are numbered by their rank.  A facet of a document has values *)
(* (none, one or a list; spellings that are normalised alike are one       *)
(* value).  An option of a facet is one value, and matches the documents   *)
(* with a value that contains it.  The rules look at the first results     *)
(* only.  What texts, scores and dimension tables decide is left open, and *)
(* so is what models propose.                                              *)
(***************************************************************************)
EXTENDS Naturals, FiniteSets, Sequences

CONSTANTS
  Doc, Value, NoValue,
  Facet, Brand,   \* the facets; the one that contradicting brands are about
  FacetOrder,     \* the facets, by priority
  Containing,     \* the values that match an option: itself, those that contain it or one
                  \* of its patterns, those that share an emission standard with it
  DocType, Named, \* the facet that file names may mention, and what they mention
  Catalogues,     \* the values the documents may have in each facet
  Query,          \* what the user may look for
  Entities,       \* the values recognised in a query
  Implied,        \* those that may filter at once, parents and roots included
  Hidden,         \* values that are no options: in the query's text, or of other parents
  Conflicts,      \* the filters that settle contradictory values of a query
  TargetResults,  \* clarify_target_results, also llm_clarify_min_results
  MinOptions, MaxOptions, MaxRounds, TopCount,
  MaxLooked,      \* results the rules look at (50)
  MaxConsidered,  \* values of them that may become options (max_options + 10)
  MaxSeen,        \* results of which a model's options must name half (MAX_DOCS_FOR_LLM)
  MaxProposed,    \* bound: options of a card of the model
  MaxRequests,    \* bound: requests of the session
  MaxMessages,    \* bound: those that are questions in words; their cards share nothing
  MaxFaults,      \* bound: failed requests, lost requests and expired cards
  Nothing

Request == 1 .. MaxRequests
Filters == [Facet -> Value \cup {NoValue}]

ASSUME DocAssumption      == Doc \subseteq Nat /\ IsFiniteSet(Doc)
ASSUME FacetAssumption    == Brand \in Facet /\ FacetOrder \in Seq(Facet)
ASSUME ValueAssumption    == NoValue \notin Value /\ IsFiniteSet(Value)
ASSUME CountAssumption    == /\ MaxRequests \in Nat /\ MaxMessages \in Nat /\ MaxFaults \in Nat /\ MaxRounds \in Nat
                             /\ TargetResults \in Nat /\ MinOptions \in Nat /\ MaxOptions \in Nat /\ MinOptions < MaxOptions
                             /\ MaxLooked \in Nat /\ MaxSeen \in Nat
                             /\ MaxConsidered \in Nat /\ MaxOptions <= MaxConsidered
ASSUME ContainsAssumption == /\ Containing \in [Value -> SUBSET Value]
                             /\ \A v \in Value : v \in Containing[v]
ASSUME NamedAssumption    == Named \in [Doc -> SUBSET Value]
ASSUME CatalogAssumption  == Catalogues \subseteq [Doc -> [Facet -> SUBSET Value]]
ASSUME QueryAssumption    == /\ Entities \in [Query -> [Facet -> SUBSET Value]]
                             /\ Implied \in [Query -> [Facet -> SUBSET Value]]
                             /\ Hidden \in [Query -> SUBSET Value]
                             /\ Conflicts \in [Query -> SUBSET (Filters \ {[f \in Facet |-> NoValue]})]

VARIABLES
  catalogue,  \* the values of the documents
  cards,      \* the deferred states of the session, by the request that made the card
  request,    \* the requests of the session
  reply,      \* what the client has been answered
  faults

searchVars == <<catalogue, cards, request, reply, faults>>

-----------------------------------------------------------------------------
(* Filters and options (pipeline.py, matching.py).                         *)

NoFilters == [f \in Facet |-> NoValue]

\* The type of a document may be in the name of its file or folder only.
Matches(d, f, v) == catalogue[d][f] \cap Containing[v] # {} \/ (f = DocType /\ v \in Named[d])

\* The documents that match every filter (apply_filters_strict).
Narrowed(docs, filters) ==
  {d \in docs : \A f \in Facet : filters[f] # NoValue => Matches(d, f, filters[f])}

\* Filters that are set later replace earlier ones.
Merged(filters, extra) ==
  [f \in Facet |-> IF extra[f] # NoValue THEN extra[f] ELSE filters[f]]

First(docs, n) == {d \in docs : Cardinality({e \in docs : e < d}) < n}

\* An option's payload: all filters and, unless empty, ids.  "pick" is what the user reads.
Option(filters, pick, ids) == [filters |-> filters, pick |-> pick, ids |-> ids]
Picking(filters, pick)     == Option(Merged(filters, pick), pick, {})
Naming(filters, ids)       == Option(filters, NoFilters, ids)

Found(docs, filters, valid) ==
  [docs |-> IF valid THEN docs ELSE {}, filters |-> filters, valid |-> valid /\ docs # {}]

\* Mutants: the ids are ignored; the filters are not reported.
IgnoresIds(docs, option)     == Found(Narrowed(docs, option.filters), option.filters, TRUE)
ForgetsFilters(docs, option) ==
  Found(Narrowed(IF option.ids = {} THEN docs ELSE docs \cap option.ids, option.filters),
        NoFilters, TRUE)

\* finalize_search with an option: its ids, its filters; the query is not checked again.
Chosen(docs, option) ==
  LET named == IF option.ids = {} THEN docs ELSE docs \cap option.ids
  IN Found(Narrowed(named, option.filters), option.filters, TRUE)

\* The values of the query that filter at once, as long as something remains (apply_initial).
AutoFilters(docs, q) ==
  {F \in Filters : /\ \A f \in Facet : F[f] # NoValue => F[f] \in Implied[q][f]
                   /\ F # NoFilters => Narrowed(docs, F) # {}}

\* finalize_search without an option: a first result whose title is the query is the only
\* one; the query filters; the checks of its words and values may refuse what remains.
Initial(docs, q) ==
  {Found(First(docs, 1), NoFilters, valid) : valid \in BOOLEAN}
  \cup {Found(Narrowed(docs, F), F, valid) : F \in AutoFilters(docs, q), valid \in BOOLEAN}

-----------------------------------------------------------------------------
(* The chain of cards: how many were answered and, for the properties, the *)
(* facets its user has settled and the documents that satisfy every pick.  *)

NoChain == [round |-> 0, settled |-> {}, wanted |-> Doc]

Picked(chain, option) ==
  [round   |-> chain.round + 1,
   settled |-> chain.settled \cup {f \in Facet : option.pick[f] # NoValue},
   wanted  |-> {d \in Narrowed(chain.wanted, option.pick) : option.ids # {} => d \in option.ids}]

\* A card and its snapshot.
Card(source, facet, options, q, found, chain) ==
  [source |-> source, facet |-> facet, options |-> options, query |-> q,
   docs |-> found.docs, chain |-> chain]

-----------------------------------------------------------------------------
(* The cards of the rules (clarify_service.py).                            *)

With(docs, f)     == {d \in docs : catalogue[d][f] # {}}
Values(docs, f)   == UNION {catalogue[d][f] : d \in docs}
Count(docs, f, v) == Cardinality({d \in docs : v \in catalogue[d][f]})

\* The results that scores and options are made from.
Looked(docs) == First(docs, MaxLooked)

\* _calculate_discrimination, not divided by the number of documents; 2 to 5 values are best.
Weight(n) == CASE n < 2 -> 0 [] n \in 2 .. 5 -> 10 [] n \in 6 .. 10 -> 7 [] OTHER -> 5
Score(docs, f) ==
  LET top == First(docs, TopCount)
  IN IF \/ 10 * Cardinality(With(docs, f)) < 3 * Cardinality(docs)
        \/ 10 * Cardinality(With(top, f)) < 6 * Cardinality(top)
       THEN 0 ELSE Weight(Cardinality(Values(docs, f))) * Cardinality(With(docs, f))

Lesser(m, n) == IF m < n THEN m ELSE n

\* The values considered, of the most frequent ones; of equally frequent ones any.
Frequent(docs, f) ==
  {top \in SUBSET Values(docs, f) :
     /\ Cardinality(top) = Lesser(Cardinality(Values(docs, f)), MaxConsidered)
     /\ \A v \in top, w \in Values(docs, f) \ top : Count(docs, f, v) >= Count(docs, f, w)}

\* The options but "other": the most frequent of them that may be shown.
Explicit(docs, f, q) ==
  UNION {LET shown == top \ Hidden[q]
             long  == Lesser(Cardinality(shown), MaxOptions - 1)
         IN {s \in [1 .. long -> shown] :
               /\ \A i, j \in 1 .. long :
                    i < j => s[i] # s[j] /\ Count(docs, f, s[i]) >= Count(docs, f, s[j])
               /\ \A v \in shown \ {s[i] : i \in 1 .. long} :
                    \A i \in 1 .. long : Count(docs, f, s[i]) >= Count(docs, f, v)}
         : top \in Frequent(docs, f)}

\* The facets that neither filters nor the query set, the best of them first; one that
\* has too few options is skipped.
Askable(docs, filters, q) ==
  {f \in Facet : filters[f] = NoValue /\ Entities[q][f] = {} /\ Score(docs, f) > 0}
Before(f, g) ==
  \E i, j \in DOMAIN FacetOrder : i < j /\ FacetOrder[i] = f /\ FacetOrder[j] = g
Best(docs, facets, q) ==
  {f \in facets : \A g \in facets \ {f} :
     \/ Score(docs, f) > Score(docs, g)
     \/ Score(docs, f) = Score(docs, g) /\ Before(f, g)
     \/ \E s \in Explicit(docs, g, q) : Len(s) < MinOptions}

\* Each explicit option stands for the first document it matches that is not taken yet.
Representatives(docs, f, s) ==
  LET taken[i \in 0 .. Len(s)] ==
        IF i = 0 THEN {}
        ELSE taken[i - 1] \cup First({d \in docs \ taken[i - 1] : Matches(d, f, s[i])}, 1)
  IN taken[Len(s)]

\* "Other" stands for all documents but those.
Others(docs, f, s) ==
  LET rest == docs \ Representatives(docs, f, s) IN IF rest = {} THEN docs ELSE docs \cap rest

\* Mutant: "other" is offered one value too late.
LateOther(docs, filters, f, s) ==
  {Picking(filters, [NoFilters EXCEPT ![f] = s[i]]) : i \in DOMAIN s}
  \cup IF Cardinality(Values(Looked(docs), f)) > Len(s) + 1
         THEN {Naming(filters, Others(docs, f, s))} ELSE {}

\* "Other" is offered if the results looked at have further values; it stands for results
\* beyond them, too.
RuleOptions(docs, filters, f, s) ==
  {Picking(filters, [NoFilters EXCEPT ![f] = s[i]]) : i \in DOMAIN s}
  \cup IF Cardinality(Values(Looked(docs), f)) > Len(s)
         THEN {Naming(filters, Others(docs, f, s))} ELSE {}

RuleCards(q, found, chain) ==
  IF chain.round >= MaxRounds \/ Cardinality(found.docs) <= TargetResults THEN {}
  ELSE LET looked == Looked(found.docs)
       IN UNION {{Card("rule", f, RuleOptions(found.docs, found.filters, f, s), q, found, chain) :
                    s \in {t \in Explicit(looked, f, q) : Len(t) >= MinOptions}} :
                 f \in Best(looked, Askable(looked, found.filters, q), q)}

\* Contradictions and several brands in the query come first, whatever was found.
PreflightCards(q, found, chain) ==
  LET brands == {[NoFilters EXCEPT ![Brand] = v] : v \in Entities[q][Brand]}
      picks  == IF Conflicts[q] # {} THEN Conflicts[q]
                ELSE IF Cardinality(Entities[q][Brand]) > 1 THEN brands ELSE {}
  IN IF picks = {} THEN {}
     ELSE {Card("preflight", Nothing, {Picking(found.filters, p) : p \in picks}, q, found, chain)}

-----------------------------------------------------------------------------
(* The cards of the model (llm_smart.py).                                  *)

\* What it sees: the query's values may narrow it (the filters have), if two documents remain.
Scopes(docs, q) ==
  {docs} \cup {s \in {Narrowed(docs, F) : F \in
                        {G \in Filters : \A f \in Facet :
                           G[f] # NoValue => G[f] \in Entities[q][f]}} :
                 Cardinality(s) >= 2}

\* At least two options, of all that is in scope, which together name as many as half of
\* the first of them.
LLMCards(q, found, chain) ==
  {Card("llm", Nothing, {Naming(found.filters, ids) : ids \in sets}, q, found, chain) :
     sets \in UNION {{o \in SUBSET ((SUBSET scope) \ {{}}) :
                        /\ Cardinality(o) \in 2 .. MaxProposed
                        /\ 2 * Cardinality(UNION o) >= Cardinality(First(scope, MaxSeen))} :
                     scope \in Scopes(found.docs, q)}}

-----------------------------------------------------------------------------
(* A request searches or resumes a card, may wait for the model, and ends. *)
(* Its client may leave meanwhile: the search goes on unheard.             *)

Draft(q, found, chain) == [query |-> q, found |-> found, chain |-> chain]

Idle  == [state |-> "none", left |-> FALSE, card |-> Nothing, option |-> Nothing,
          draft |-> Nothing]
Used  == {r \in Request : request[r].state # "none"}
Busy(r) == request[r].state \in {"begun", "asking"}

Init ==
  /\ catalogue \in Catalogues
  /\ cards   = [r \in Request |-> Nothing]
  /\ request = [r \in Request |-> Idle]
  /\ reply   = [r \in Request |-> Nothing]
  /\ faults  = 0

Answered(type, docs, card) == [type |-> type, docs |-> docs, card |-> card]

\* Mutant: an id that is in use.
Restarted(r, card, option) ==
  /\ request' = [request EXCEPT ![r] =
                   [Idle EXCEPT !.state = "begun", !.card = card, !.option = option]]
  /\ UNCHANGED <<catalogue, cards, reply, faults>>

Started(r, card, option) ==
  /\ r \in Request \ Used /\ \A s \in Request \ Used : r <= s
  /\ request' = [request EXCEPT ![r] =
                   [Idle EXCEPT !.state = "begun", !.card = card, !.option = option]]
  /\ UNCHANGED <<catalogue, cards, reply, faults>>

\* A question in words.
Ask(r) ==
  /\ Cardinality({s \in Used : request[s].option = Nothing}) < MaxMessages
  /\ Started(r, Nothing, Nothing)

\* An answer to a card, with the payload of one of its options.  The deferred state is
\* loaded at once (_resolve_doc_search_workflow_state); it is not consumed.
Pick(r, c, option) ==
  /\ c \in Used /\ reply[c] # Nothing /\ reply[c].type = "card"
  /\ option \in reply[c].card.options
  /\ Started(r, cards[c], option)

\* The response is built and, unless its client has left, delivered; a card is saved first.
Ended(r, type, docs, card) ==
  /\ request' = [request EXCEPT ![r].state = "done", ![r].draft = Nothing]
  /\ cards' = [cards EXCEPT ![r] = card]
  /\ reply' = IF request[r].left THEN reply
              ELSE [reply EXCEPT ![r] = Answered(type, docs, card)]
  /\ UNCHANGED catalogue

\* What was found is shown as documents, or refused with a message.
Shows(r, found) ==
  IF found.valid THEN Ended(r, "documents", found.docs, Nothing)
  ELSE Ended(r, "message", {}, Nothing)

\* analyze_ambiguity: the cards of the query, then those of the rules (which the scores
\* may hold back), then the model's.
Considered(r, q, found, chain, first) ==
  /\ UNCHANGED faults
  /\ IF first # {} THEN \E card \in first : Ended(r, "card", {}, card)
     ELSE \/ \E card \in RuleCards(q, found, chain) : Ended(r, "card", {}, card)
          \/ /\ Cardinality(found.docs) <= TargetResults
             /\ Shows(r, found)
          \/ /\ Cardinality(found.docs) > TargetResults
             /\ request' = [request EXCEPT ![r].state = "asking",
                                           ![r].draft = Draft(q, found, chain)]
             /\ UNCHANGED <<catalogue, cards, reply>>

\* The planned searches: what those that succeed find is merged, and the values read out
\* of one of them filter it.
Search(r) ==
  /\ request[r].state = "begun" /\ request[r].option = Nothing
  /\ \E q \in Query, docs \in SUBSET Doc : \E found \in Initial(docs, q) :
       Considered(r, q, found, NoChain, PreflightCards(q, found, NoChain))

\* A card that is not saved (any more) is an error; the other is resumed from its snapshot.
Resume(r) ==
  /\ request[r].state = "begun" /\ request[r].option # Nothing
  /\ LET card == request[r].card  option == request[r].option IN
     IF card = Nothing THEN Ended(r, "error", {}, Nothing) /\ UNCHANGED faults
     ELSE Considered(r, card.query, Chosen(card.docs, option), Picked(card.chain, option), {})

\* The model proposes a card, or nothing that can be used (or it fails).
Propose(r) ==
  /\ request[r].state = "asking"
  /\ LET draft == request[r].draft IN
     \/ \E card \in LLMCards(draft.query, draft.found, draft.chain) : Ended(r, "card", {}, card)
     \/ Shows(r, draft.found)
  /\ UNCHANGED faults

\* All searches fail ("error"), or an exception ends the request without a response ("http").
Fail(r) ==
  /\ faults < MaxFaults
  /\ \/ request[r].state = "begun" /\ request[r].option = Nothing /\ Ended(r, "error", {}, Nothing)
     \/ Busy(r) /\ Ended(r, "http", {}, Nothing)
  /\ faults' = faults + 1

\* The process dies.
Lose(r) ==
  /\ Busy(r) /\ faults < MaxFaults
  /\ request' = [request EXCEPT ![r].state = "lost", ![r].draft = Nothing]
  /\ faults' = faults + 1
  /\ UNCHANGED <<catalogue, cards, reply>>

\* A deferred state lives for a while only.
Expire(c) ==
  /\ cards[c] # Nothing /\ faults < MaxFaults
  /\ cards' = [cards EXCEPT ![c] = Nothing]
  /\ faults' = faults + 1
  /\ UNCHANGED <<catalogue, request, reply>>

\* The client stops listening: the stream is closed, its background task is not cancelled.
Leave(r) ==
  /\ Busy(r) \/ request[r].state = "lost"
  /\ ~request[r].left
  /\ request' = [request EXCEPT ![r].left = TRUE]
  /\ UNCHANGED <<catalogue, cards, reply, faults>>

ServerStep(r) == Search(r) \/ Resume(r) \/ Propose(r)
Fault         == \E r \in Request : Fail(r) \/ Lose(r) \/ Expire(r)

-----------------------------------------------------------------------------
(* Types.                                                                  *)

Options == [filters : Filters, pick : Filters, ids : SUBSET Doc]
Chains  == [round : Nat, settled : SUBSET Facet, wanted : SUBSET Doc]
Finds   == [docs : SUBSET Doc, filters : Filters, valid : BOOLEAN]
Drafts  == [query : Query, found : Finds, chain : Chains]
AnyCard == [source : {"rule", "preflight", "llm"}, facet : Facet \cup {Nothing},
            options : SUBSET Options, query : Query, docs : SUBSET Doc, chain : Chains]
Replies == [type : {"card", "documents", "message", "error", "http"}, docs : SUBSET Doc,
            card : AnyCard \cup {Nothing}]
States  == [state : {"none", "begun", "asking", "done", "lost"}, left : BOOLEAN,
            card : AnyCard \cup {Nothing}, option : Options \cup {Nothing},
            draft : Drafts \cup {Nothing}]

ASSUME NothingAssumption == Nothing \notin AnyCard \cup Options \cup Drafts \cup Replies

SearchTypeOK ==
  /\ catalogue \in Catalogues
  /\ cards \in [Request -> AnyCard \cup {Nothing}]
  /\ request \in [Request -> States]
  /\ reply \in [Request -> Replies \cup {Nothing}]
  /\ faults \in 0 .. MaxFaults
  /\ \A r \in Request :
       /\ request[r].draft # Nothing <=> request[r].state = "asking"
       /\ cards[r] # Nothing \/ reply[r] # Nothing => request[r].state = "done"
       /\ reply[r] # Nothing => (reply[r].card # Nothing <=> reply[r].type = "card")

-----------------------------------------------------------------------------
(* Properties.                                                             *)

Cards == {cards[r] : r \in Request} \ {Nothing}

\* Every option of a card finds something in the snapshot.  The options of a rule's card
\* together find every document among the first MaxLooked that has a value of the facet,
\* and if "other" is offered, every document of the snapshot, however far down.  (A card
\* that settles the query itself may be about nothing that was found.)
OptionsCover ==
  \A card \in Cards : card.source # "preflight" =>
    /\ \A o \in card.options : Chosen(card.docs, o).docs # {}
    /\ card.source = "rule" =>
         LET found == UNION {Chosen(card.docs, o).docs : o \in card.options}
         IN /\ With(First(card.docs, MaxLooked), card.facet) \subseteq found
            /\ (\E o \in card.options : o.ids # {}) => found = card.docs

\* Whatever is shown, or kept for a further card, satisfies all that was picked on the way.
PicksAreKept ==
  /\ \A card \in Cards : card.docs \subseteq card.chain.wanted
  /\ \A r \in Request : request[r].draft # Nothing =>
       request[r].draft.found.docs \subseteq request[r].draft.chain.wanted
  /\ \A r \in Request : reply[r] # Nothing /\ request[r].card # Nothing =>
       reply[r].docs \subseteq Picked(request[r].card.chain, request[r].option).wanted

\* The rules never ask again about a facet whose value the user has picked, and stop asking
\* after max_rounds answers.
FacetAskedOnce ==
  \A card \in Cards : card.source = "rule" =>
    card.facet \notin card.chain.settled /\ card.chain.round < MaxRounds
=============================================================================
