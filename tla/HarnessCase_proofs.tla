------------------------ MODULE HarnessCase_proofs -------------------------
(***************************************************************************)
(* Proofs about HarnessCase, for any documents, values, queries, cards of  *)
(* the model and clients: typing, that the chain of cards keeps what the   *)
(* user picked, that options leave nothing behind, and that the verdict on *)
(* a case is fair.                                                         *)
(***************************************************************************)
EXTENDS HarnessCase, FiniteSetTheorems, RecursionLemmas, TLAPS

-----------------------------------------------------------------------------
(* The operators: what they return.                                        *)

LEMMA CatalogueType == TypeOK => catalogue \in [Doc -> [Facet -> SUBSET Value]]
BY CatalogAssumption DEF TypeOK, SearchTypeOK

LEMMA NarrowedType ==
  ASSUME NEW docs, NEW filters
  PROVE  Narrowed(docs, filters) \subseteq docs
BY DEF Narrowed

LEMMA FirstType ==
  ASSUME NEW docs, NEW n
  PROVE  First(docs, n) \subseteq docs
BY DEF First

LEMMA NoFiltersType == NoFilters \in Filters
BY DEF NoFilters, Filters

LEMMA MergedType ==
  ASSUME NEW filters \in Filters, NEW extra \in Filters
  PROVE  /\ Merged(filters, extra) \in Filters
         /\ \A f \in Facet : extra[f] # NoValue => Merged(filters, extra)[f] = extra[f]
         /\ \A f \in Facet : filters[f] # NoValue => Merged(filters, extra)[f] # NoValue
BY DEF Merged, Filters

LEMMA FoundType ==
  ASSUME NEW docs \in SUBSET Doc, NEW filters \in Filters, NEW valid \in BOOLEAN
  PROVE  /\ Found(docs, filters, valid) \in Finds
         /\ Found(docs, filters, valid).docs \subseteq docs
         /\ Found(docs, filters, valid).filters = filters
BY DEF Found, Finds

LEMMA ChosenType ==
  ASSUME NEW docs \in SUBSET Doc, NEW option \in Options
  PROVE  /\ Chosen(docs, option) \in Finds
         /\ Chosen(docs, option).filters = option.filters
         /\ Chosen(docs, option).docs \subseteq Narrowed(docs, option.filters)
         /\ option.ids # {} => Chosen(docs, option).docs \subseteq option.ids
<1>. DEFINE named == IF option.ids = {} THEN docs ELSE docs \cap option.ids
            kept  == Narrowed(named, option.filters)
<1>1. option.filters \in Filters /\ TRUE \in BOOLEAN
  BY DEF Options
<1>2. named \subseteq docs /\ (option.ids # {} => named \subseteq option.ids)
  OBVIOUS
<1>3. kept \subseteq named /\ kept \subseteq Narrowed(docs, option.filters)
  BY <1>2 DEF Narrowed
<1>4. Chosen(docs, option) = Found(kept, option.filters, TRUE)
  BY DEF Chosen
<1>5. kept \in SUBSET Doc
  BY <1>2, <1>3
<1>. HIDE DEF named, kept
<1>6. /\ Found(kept, option.filters, TRUE) \in Finds
      /\ Found(kept, option.filters, TRUE).docs \subseteq kept
      /\ Found(kept, option.filters, TRUE).filters = option.filters
  BY <1>1, <1>5, FoundType
<1>. QED
  BY <1>2, <1>3, <1>4, <1>6

LEMMA InitialType ==
  ASSUME NEW docs \in SUBSET Doc, NEW q \in Query, NEW found \in Initial(docs, q)
  PROVE  found \in Finds
<1>1. CASE \E valid \in BOOLEAN : found = Found(First(docs, 1), NoFilters, valid)
  BY <1>1, FirstType, NoFiltersType, FoundType
<1>2. CASE \E F \in AutoFilters(docs, q), valid \in BOOLEAN : found = Found(Narrowed(docs, F), F, valid)
  BY <1>2, NarrowedType, FoundType DEF AutoFilters
<1>. QED
  BY <1>1, <1>2 DEF Initial

LEMMA NoChainType == NoChain \in Chains
BY DEF NoChain, Chains

LEMMA PickedType ==
  ASSUME NEW chain \in Chains, NEW option \in Options
  PROVE  Picked(chain, option) \in Chains
BY DEF Picked, Chains, Narrowed

LEMMA CardType ==
  ASSUME NEW source \in {"rule", "preflight", "llm"}, NEW facet \in Facet \cup {Nothing},
         NEW options \in SUBSET Options, NEW q \in Query, NEW found \in Finds, NEW chain \in Chains
  PROVE  /\ Card(source, facet, options, q, found, chain) \in AnyCard
         /\ Card(source, facet, options, q, found, chain).source = source
         /\ Card(source, facet, options, q, found, chain).facet = facet
         /\ Card(source, facet, options, q, found, chain).options = options
         /\ Card(source, facet, options, q, found, chain).docs = found.docs
         /\ Card(source, facet, options, q, found, chain).chain = chain
BY DEF Card, AnyCard, Finds

LEMMA OptionType ==
  ASSUME NEW filters \in Filters
  PROVE  /\ \A pick \in Filters : /\ Picking(filters, pick) \in Options
                                  /\ Picking(filters, pick).filters = Merged(filters, pick)
                                  /\ Picking(filters, pick).pick = pick
         /\ \A ids \in SUBSET Doc : /\ Naming(filters, ids) \in Options
                                    /\ Naming(filters, ids).filters = filters
                                    /\ Naming(filters, ids).pick = NoFilters
BY MergedType, NoFiltersType DEF Picking, Naming, Option, Options

-----------------------------------------------------------------------------
(* The cards: what they keep.                                              *)

\* The filters of an option say what its user reads, and those of a chain say what its
\* user has picked.
Agrees(option)          == \A f \in Facet : option.pick[f] # NoValue => option.filters[f] = option.pick[f]
Settles(filters, chain) == \A f \in chain.settled : filters[f] # NoValue

SoundFound(found, chain) == found.docs \subseteq chain.wanted /\ Settles(found.filters, chain)

SoundCard(card) ==
  /\ card.docs \subseteq card.chain.wanted
  /\ \A o \in card.options : Agrees(o) /\ Settles(o.filters, card.chain)
  /\ card.source = "rule" => card.facet \notin card.chain.settled /\ card.chain.round < MaxRounds

LEMMA SoundPicking ==
  ASSUME NEW filters \in Filters, NEW pick \in Filters, NEW chain \in Chains,
         Settles(filters, chain)
  PROVE  Agrees(Picking(filters, pick)) /\ Settles(Picking(filters, pick).filters, chain)
<1>1. chain.settled \subseteq Facet
  BY DEF Chains
<1>. QED
  BY <1>1, OptionType, MergedType DEF Agrees, Settles

LEMMA SoundNaming ==
  ASSUME NEW filters \in Filters, NEW ids \in SUBSET Doc, NEW chain \in Chains,
         Settles(filters, chain)
  PROVE  Agrees(Naming(filters, ids)) /\ Settles(Naming(filters, ids).filters, chain)
BY OptionType DEF Agrees, Settles, NoFilters

\* The options of the rules.
LEMMA RuleOptionsType ==
  ASSUME NEW docs \in SUBSET Doc, NEW filters \in Filters, NEW f \in Facet,
         NEW s, NEW option \in RuleOptions(docs, filters, f, s),
         \A i \in DOMAIN s : s[i] \in Value
  PROVE  /\ option \in Options
         /\ \A chain \in Chains :
              Settles(filters, chain) => Agrees(option) /\ Settles(option.filters, chain)
<1>1. CASE \E i \in DOMAIN s : option = Picking(filters, [NoFilters EXCEPT ![f] = s[i]])
  <2>1. PICK i \in DOMAIN s : option = Picking(filters, [NoFilters EXCEPT ![f] = s[i]])
    BY <1>1
  <2>2. [NoFilters EXCEPT ![f] = s[i]] \in Filters
    BY NoFiltersType DEF Filters
  <2>. QED
    BY <2>1, <2>2, OptionType, SoundPicking
<1>2. CASE option = Naming(filters, Others(docs, f, s))
  <2>1. Others(docs, f, s) \in SUBSET Doc
    BY DEF Others
  <2>. QED
    BY <1>2, <2>1, OptionType, SoundNaming
<1>. QED
  BY <1>1, <1>2 DEF RuleOptions

\* The explicit options are values that may be shown, and different ones.
LEMMA ExplicitShown ==
  ASSUME NEW docs, NEW f, NEW q, NEW s \in Explicit(docs, f, q)
  PROVE  \E top \in Frequent(docs, f) :
           LET long == Lesser(Cardinality(top \ Hidden[q]), MaxOptions - 1)
           IN /\ s \in [1 .. long -> top \ Hidden[q]]
              /\ \A i, j \in 1 .. long : i < j => s[i] # s[j]
BY DEF Explicit

LEMMA ExplicitType ==
  ASSUME TypeOK, NEW docs \in SUBSET Doc, NEW f \in Facet, NEW q \in Query,
         NEW s \in Explicit(docs, f, q)
  PROVE  \A i \in DOMAIN s : s[i] \in Value
<1>1. Values(docs, f) \subseteq Value
  BY CatalogueType DEF Values
<1>2. PICK top \in Frequent(docs, f) :
        s \in [1 .. Lesser(Cardinality(top \ Hidden[q]), MaxOptions - 1) -> top \ Hidden[q]]
  BY ExplicitShown
<1>3. top \subseteq Values(docs, f)
  BY DEF Frequent
<1>. QED
  BY <1>1, <1>2, <1>3

\* A rule's card is about a facet without a filter, and has explicit options.
LEMMA RuleCardShape ==
  ASSUME NEW q, NEW found, NEW chain, NEW card \in RuleCards(q, found, chain)
  PROVE  /\ ~ (chain.round >= MaxRounds) /\ ~ (Cardinality(found.docs) <= TargetResults)
         /\ \E f \in Facet : \E s \in Explicit(Looked(found.docs), f, q) :
              /\ found.filters[f] = NoValue
              /\ card = Card("rule", f, RuleOptions(found.docs, found.filters, f, s), q, found, chain)
<1>. DEFINE looked == Looked(found.docs)
            best == Best(looked, Askable(looked, found.filters, q), q)
            long(f) == {t \in Explicit(looked, f, q) : Len(t) >= MinOptions}
            made(f, s) == Card("rule", f, RuleOptions(found.docs, found.filters, f, s), q, found, chain)
<1>1. /\ ~ (chain.round >= MaxRounds) /\ ~ (Cardinality(found.docs) <= TargetResults)
      /\ card \in UNION {{made(f, s) : s \in long(f)} : f \in best}
  BY DEF RuleCards
<1>2. \A f \in best : f \in Facet /\ found.filters[f] = NoValue
  BY DEF Best, Askable
<1>3. \A f : long(f) \subseteq Explicit(looked, f, q)
  OBVIOUS
<1>. HIDE DEF best, long, made
<1>4. PICK f \in best : \E s \in long(f) : card = made(f, s)
  BY <1>1
<1>5. PICK s \in long(f) : card = made(f, s)
  BY <1>4
<1>6. f \in Facet /\ s \in Explicit(Looked(found.docs), f, q) /\ found.filters[f] = NoValue
  BY <1>2, <1>3, <1>4, <1>5
<1>. QED
  BY <1>1, <1>5, <1>6 DEF made

LEMMA RuleCardsType ==
  ASSUME TypeOK, NEW q \in Query, NEW found \in Finds, NEW chain \in Chains,
         NEW card \in RuleCards(q, found, chain)
  PROVE  card \in AnyCard /\ (SoundFound(found, chain) => SoundCard(card))
<1>1. chain.round < MaxRounds
  BY CountAssumption, RuleCardShape DEF Chains
<1>9. PICK f \in Facet : \E s \in Explicit(Looked(found.docs), f, q) :
        /\ found.filters[f] = NoValue
        /\ card = Card("rule", f, RuleOptions(found.docs, found.filters, f, s), q, found, chain)
  BY RuleCardShape
<1>2. PICK s \in Explicit(Looked(found.docs), f, q) :
        card = Card("rule", f, RuleOptions(found.docs, found.filters, f, s), q, found, chain)
  BY <1>9
<1>3. f \in Facet /\ found.filters[f] = NoValue
  BY <1>9
<1>4. found.docs \in SUBSET Doc /\ found.filters \in Filters /\ Looked(found.docs) \in SUBSET Doc
  BY FirstType DEF Finds, Looked
<1>5. \A i \in DOMAIN s : s[i] \in Value
  BY <1>2, <1>3, <1>4, ExplicitType
<1>. DEFINE options == RuleOptions(found.docs, found.filters, f, s)
<1>6. /\ options \in SUBSET Options
      /\ Settles(found.filters, chain) =>
           \A o \in options : Agrees(o) /\ Settles(o.filters, chain)
  BY <1>3, <1>4, <1>5, RuleOptionsType
<1>7. /\ card \in AnyCard /\ card.source = "rule" /\ card.facet = f /\ card.options = options
      /\ card.docs = found.docs /\ card.chain = chain
  BY <1>2, <1>3, <1>6, CardType
<1>8. ASSUME SoundFound(found, chain)
      PROVE  SoundCard(card)
  BY <1>1, <1>3, <1>6, <1>7, <1>8 DEF SoundCard, SoundFound, Settles
<1>. QED
  BY <1>7, <1>8

LEMMA PreflightCardsType ==
  ASSUME TypeOK, NEW q \in Query, NEW found \in Finds, NEW chain \in Chains,
         NEW card \in PreflightCards(q, found, chain)
  PROVE  card \in AnyCard /\ (SoundFound(found, chain) => SoundCard(card))
<1>. DEFINE brands == {[NoFilters EXCEPT ![Brand] = v] : v \in Entities[q][Brand]}
            picks  == IF Conflicts[q] # {} THEN Conflicts[q]
                      ELSE IF Cardinality(Entities[q][Brand]) > 1 THEN brands ELSE {}
            options == {Picking(found.filters, p) : p \in picks}
<1>1. picks \subseteq Filters
  <2>1. brands \subseteq Filters
    <3>1. Entities[q][Brand] \subseteq Value
      BY QueryAssumption, FacetAssumption
    <3>. QED
      BY <3>1, NoFiltersType DEF Filters
  <2>2. Conflicts[q] \subseteq Filters
    BY QueryAssumption
  <2>. QED
    BY <2>1, <2>2
<1>2. found.filters \in Filters
  BY DEF Finds
<1>3. card = Card("preflight", Nothing, options, q, found, chain)
  BY DEF PreflightCards
<1>. HIDE DEF picks
<1>4. /\ options \in SUBSET Options
      /\ Settles(found.filters, chain) =>
           \A o \in options : Agrees(o) /\ Settles(o.filters, chain)
  BY <1>1, <1>2, OptionType, SoundPicking
<1>. HIDE DEF options
<1>5. /\ card \in AnyCard /\ card.source = "preflight" /\ card.options = options
      /\ card.docs = found.docs /\ card.chain = chain
  BY <1>3, <1>4, CardType
<1>. QED
  BY <1>4, <1>5 DEF SoundCard, SoundFound

LEMMA LLMCardsType ==
  ASSUME TypeOK, NEW q \in Query, NEW found \in Finds, NEW chain \in Chains,
         NEW card \in LLMCards(q, found, chain)
  PROVE  card \in AnyCard /\ (SoundFound(found, chain) => SoundCard(card))
<1>7. PICK scope \in Scopes(found.docs, q) :
        \E sets \in SUBSET ((SUBSET scope) \ {{}}) :
          card = Card("llm", Nothing, {Naming(found.filters, ids) : ids \in sets}, q, found, chain)
  BY DEF LLMCards
<1>1. PICK sets \in SUBSET ((SUBSET scope) \ {{}}) :
        card = Card("llm", Nothing, {Naming(found.filters, ids) : ids \in sets}, q, found, chain)
  BY <1>7
<1>2. found.filters \in Filters /\ found.docs \in SUBSET Doc
  BY DEF Finds
<1>3. scope \in SUBSET Doc
  BY <1>2, <1>7, NarrowedType DEF Scopes
<1>4. sets \subseteq SUBSET Doc
  BY <1>3
<1>. DEFINE options == {Naming(found.filters, ids) : ids \in sets}
<1>5. /\ options \in SUBSET Options
      /\ Settles(found.filters, chain) =>
           \A o \in options : Agrees(o) /\ Settles(o.filters, chain)
  BY <1>2, <1>4, OptionType, SoundNaming
<1>. HIDE DEF options
<1>6. /\ card \in AnyCard /\ card.source = "llm" /\ card.options = options
      /\ card.docs = found.docs /\ card.chain = chain
  BY <1>1, <1>5, CardType DEF options
<1>. QED
  BY <1>5, <1>6 DEF SoundCard, SoundFound

\* Picking an option of a sound card keeps what was found sound.
LEMMA ChosenIsSound ==
  ASSUME NEW card \in AnyCard, SoundCard(card), NEW option \in card.options
  PROVE  SoundFound(Chosen(card.docs, option), Picked(card.chain, option))
<1>1. /\ option \in Options /\ card.docs \in SUBSET Doc /\ card.chain \in Chains
      /\ card.docs \subseteq card.chain.wanted
      /\ Agrees(option) /\ Settles(option.filters, card.chain)
  BY DEF AnyCard, SoundCard
<1>. DEFINE found == Chosen(card.docs, option)
<1>2. /\ found.filters = option.filters
      /\ found.docs \subseteq Narrowed(card.docs, option.filters)
      /\ option.ids # {} => found.docs \subseteq option.ids
  BY <1>1, ChosenType
<1>3. Narrowed(card.docs, option.filters) \subseteq Narrowed(card.chain.wanted, option.pick)
  BY <1>1 DEF Narrowed, Agrees
<1>4. found.docs \subseteq Picked(card.chain, option).wanted
  BY <1>2, <1>3 DEF Picked
<1>5. Settles(found.filters, Picked(card.chain, option))
  BY <1>1, <1>2 DEF Settles, Picked, Agrees
<1>. QED
  BY <1>4, <1>5 DEF SoundFound

-----------------------------------------------------------------------------
(* The inductive invariant: what cards, replies and waiting requests keep. *)

Kept(r) ==
  /\ cards[r] # Nothing => SoundCard(cards[r])
  /\ reply[r] # Nothing /\ reply[r].card # Nothing =>
       SoundCard(reply[r].card) /\ cards[r] \in {Nothing, reply[r].card}
  /\ reply[r] # Nothing /\ request[r].card # Nothing =>
       reply[r].docs \subseteq Picked(request[r].card.chain, request[r].option).wanted
  /\ request[r].card # Nothing =>
       SoundCard(request[r].card) /\ request[r].option \in request[r].card.options
  /\ request[r].draft # Nothing =>
       /\ SoundFound(request[r].draft.found, request[r].draft.chain)
       /\ request[r].card # Nothing =>
            request[r].draft.chain = Picked(request[r].card.chain, request[r].option)

Sound == \A r \in Request : Kept(r)

\* Requests are used in order, and a case has asked for every request but the current one.
InOrder == \E n \in 0 .. MaxRequests : Used = 1 .. n /\ Turns = n
Counted ==
  /\ client = "tab" => case = Unbegun
  /\ case.status = "unbegun"  => case.asked = 0 /\ (client = "case" => Turns = 0)
  /\ case.status = "waiting"  => case.asked + 1 = Turns /\ Turns <= MaxTurns
  /\ case.status = "deciding" => case.asked = Turns /\ Turns < MaxTurns

Inv == TypeOK /\ Sound /\ InOrder /\ Counted

LEMMA UsedTurns ==
  ASSUME NEW n \in Nat, Used = 1 .. n
  PROVE  Turns = n
BY FS_Interval, n - 1 + 1 = n DEF Turns

LEMMA KeptOn ==
  ASSUME NEW s \in Request, Kept(s), catalogue' = catalogue, reply'[s] = reply[s],
         cards'[s] \in {Nothing, cards[s]},
         request'[s].card = request[s].card, request'[s].option = request[s].option,
         request'[s].draft \in {Nothing, request[s].draft}
  PROVE  Kept(s)'
BY DEF Kept, Picked, Narrowed, Matches

-----------------------------------------------------------------------------
(* The steps of a request.                                                 *)

\* A request that is over: what it answers and saves must be sound.
LEMMA EndedKeeps ==
  ASSUME SearchTypeOK, Sound, NEW r \in Request, Busy(r), faults' \in 0 .. MaxFaults,
         NEW type \in {"card", "documents", "message", "error", "http"},
         NEW docs \in SUBSET Doc, NEW card \in AnyCard \cup {Nothing},
         card # Nothing <=> type = "card",
         card # Nothing => SoundCard(card),
         request[r].card # Nothing => docs \subseteq Picked(request[r].card.chain, request[r].option).wanted,
         Ended(r, type, docs, card)
  PROVE  SearchTypeOK' /\ Sound' /\ Used' = Used
<1>. DEFINE answer == Answered(type, docs, card)
<1>1. /\ answer \in Replies /\ answer # Nothing
      /\ answer.type = type /\ answer.docs = docs /\ answer.card = card
  BY NothingAssumption DEF Answered, Replies
<1>2. /\ request'[r].state = "done" /\ request'[r].draft = Nothing /\ request'[r].left = request[r].left
      /\ request'[r].card = request[r].card /\ request'[r].option = request[r].option
      /\ \A s \in Request \ {r} : request'[s] = request[s]
      /\ request' \in [Request -> States]
  BY DEF Ended, SearchTypeOK, States
<1>3. /\ cards'[r] = card /\ \A s \in Request \ {r} : cards'[s] = cards[s]
      /\ cards' \in [Request -> AnyCard \cup {Nothing}]
  BY DEF Ended, SearchTypeOK
<1>4. reply[r] = Nothing
  BY DEF SearchTypeOK, Busy
<1>5. /\ reply'[r] \in {Nothing, answer} /\ \A s \in Request \ {r} : reply'[s] = reply[s]
      /\ reply' \in [Request -> Replies \cup {Nothing}]
  <2>1. CASE request[r].left
    BY <1>1, <1>4, <2>1 DEF Ended, SearchTypeOK
  <2>2. CASE ~request[r].left
    BY <1>1, <2>2 DEF Ended, SearchTypeOK
  <2>. QED
    BY <2>1, <2>2
<1>6. catalogue' = catalogue
  BY DEF Ended
<1>. HIDE DEF answer
<1>7. SearchTypeOK'
  <2>1. ASSUME NEW s \in Request
        PROVE  /\ request'[s].draft # Nothing <=> request'[s].state = "asking"
               /\ cards'[s] # Nothing \/ reply'[s] # Nothing => request'[s].state = "done"
               /\ reply'[s] # Nothing => (reply'[s].card # Nothing <=> reply'[s].type = "card")
    <3>1. CASE s = r
      BY <1>1, <1>2, <1>5, <3>1
    <3>2. CASE s # r
      BY <1>2, <1>3, <1>5, <3>2 DEF SearchTypeOK
    <3>. QED
      BY <3>1, <3>2
  <2>. QED
    BY <1>2, <1>3, <1>5, <1>6, <2>1 DEF SearchTypeOK
<1>8. ASSUME NEW s \in Request
      PROVE  Kept(s)'
  <2>1. CASE s # r
    BY <1>2, <1>3, <1>5, <1>6, <2>1, KeptOn DEF Sound
  <2>2. CASE s = r
    <3>1. cards'[r] # Nothing => SoundCard(cards'[r])
      BY <1>3
    <3>2. reply'[r] # Nothing /\ reply'[r].card # Nothing =>
            SoundCard(reply'[r].card) /\ cards'[r] \in {Nothing, reply'[r].card}
      BY <1>1, <1>3, <1>5
    <3>3. reply'[r] # Nothing /\ request'[r].card # Nothing =>
            reply'[r].docs \subseteq Picked(request[r].card.chain, request[r].option).wanted
      BY <1>1, <1>2, <1>5
    <3>4. request'[r].card # Nothing =>
            SoundCard(request'[r].card) /\ request'[r].option \in request'[r].card.options
      BY <1>2 DEF Sound, Kept
    <3>. QED
      BY <1>2, <1>6, <2>2, <3>1, <3>2, <3>3, <3>4 DEF Kept, Picked, Narrowed, Matches
  <2>. QED
    BY <2>1, <2>2
<1>9. Used' = Used
  BY <1>2 DEF Used, Busy
<1>. QED
  BY <1>7, <1>8, <1>9 DEF Sound

\* A request that starts: the card it answers must be sound.
LEMMA StartedKeeps ==
  ASSUME SearchTypeOK, Sound, NEW r \in Request,
         NEW card \in AnyCard \cup {Nothing}, NEW option \in Options \cup {Nothing},
         card # Nothing => SoundCard(card) /\ option \in card.options,
         Started(r, card, option)
  PROVE  SearchTypeOK' /\ Sound' /\ Used' = Used \cup {r}
<1>1. request[r].state = "none" /\ cards[r] = Nothing /\ reply[r] = Nothing
  BY DEF Started, Used, SearchTypeOK
<1>2. /\ request'[r].state = "begun" /\ request'[r].draft = Nothing
      /\ request'[r].card = card /\ request'[r].option = option
      /\ \A s \in Request \ {r} : request'[s] = request[s]
      /\ request' \in [Request -> States]
  BY DEF Started, Idle, SearchTypeOK, States
<1>3. /\ catalogue' = catalogue /\ cards' = cards /\ reply' = reply /\ faults' = faults
  BY DEF Started
<1>4. SearchTypeOK'
  BY <1>1, <1>2, <1>3 DEF SearchTypeOK
<1>5. ASSUME NEW s \in Request
      PROVE  Kept(s)'
  <2>1. CASE s # r
    BY <1>2, <1>3, <2>1, KeptOn DEF Sound
  <2>2. CASE s = r
    BY <1>1, <1>2, <1>3, <2>2 DEF Kept
  <2>. QED
    BY <2>1, <2>2
<1>6. Used' = Used \cup {r}
  BY <1>2 DEF Used
<1>. QED
  BY <1>4, <1>5, <1>6 DEF Sound

\* What is found goes to the user, into a card, or waits for the model.
LEMMA ShowsKeeps ==
  ASSUME SearchTypeOK, Sound, NEW r \in Request, Busy(r), faults' = faults,
         NEW found \in Finds,
         request[r].card # Nothing =>
           found.docs \subseteq Picked(request[r].card.chain, request[r].option).wanted,
         Shows(r, found)
  PROVE  SearchTypeOK' /\ Sound' /\ Used' = Used
<1>1. faults' \in 0 .. MaxFaults /\ found.docs \in SUBSET Doc
  BY DEF SearchTypeOK, Finds
<1>2. CASE found.valid
  <2>1. Ended(r, "documents", found.docs, Nothing)
    BY <1>2 DEF Shows
  <2>. QED
    BY <1>1, <2>1, EndedKeeps
<1>3. CASE ~found.valid
  <2>1. Ended(r, "message", {}, Nothing)
    BY <1>3 DEF Shows
  <2>. QED
    BY <1>1, <2>1, EndedKeeps
<1>. QED
  BY <1>2, <1>3

LEMMA ConsideredKeeps ==
  ASSUME TypeOK, Sound, NEW r \in Request, request[r].state = "begun",
         NEW q \in Query, NEW found \in Finds, NEW chain \in Chains, NEW first \in SUBSET AnyCard,
         SoundFound(found, chain),
         request[r].card # Nothing => chain = Picked(request[r].card.chain, request[r].option),
         \A card \in first : SoundCard(card),
         Considered(r, q, found, chain, first)
  PROVE  SearchTypeOK' /\ Sound' /\ Used' = Used
<1>1. SearchTypeOK /\ faults' = faults /\ faults' \in 0 .. MaxFaults /\ Busy(r)
  BY DEF Considered, TypeOK, SearchTypeOK, Busy
<1>2. ASSUME NEW card \in AnyCard, SoundCard(card), Ended(r, "card", {}, card)
      PROVE  SearchTypeOK' /\ Sound' /\ Used' = Used
  <2>1. card \in AnyCard \cup {Nothing} /\ card # Nothing /\ {} \in SUBSET Doc
    BY <1>2, NothingAssumption
  <2>. QED
    BY <1>1, <1>2, <2>1, EndedKeeps
<1>3. CASE \E card \in first : Ended(r, "card", {}, card)
  BY <1>2, <1>3
<1>4. CASE \E card \in RuleCards(q, found, chain) : Ended(r, "card", {}, card)
  <2>1. PICK card \in RuleCards(q, found, chain) : Ended(r, "card", {}, card)
    BY <1>4
  <2>2. card \in AnyCard /\ SoundCard(card)
    BY <2>1, RuleCardsType
  <2>. QED
    BY <1>2, <2>1, <2>2
<1>5. CASE Shows(r, found)
  BY <1>1, <1>5, ShowsKeeps DEF SoundFound
<1>6. CASE /\ request' = [request EXCEPT ![r].state = "asking", ![r].draft = Draft(q, found, chain)]
           /\ UNCHANGED <<catalogue, cards, reply>>
  <2>. DEFINE draft == Draft(q, found, chain)
  <2>1. draft \in Drafts /\ draft # Nothing /\ draft.found = found /\ draft.chain = chain
    BY NothingAssumption DEF Draft, Drafts
  <2>2. /\ request'[r].state = "asking" /\ request'[r].draft = draft
        /\ request'[r].card = request[r].card /\ request'[r].option = request[r].option
        /\ \A s \in Request \ {r} : request'[s] = request[s]
        /\ request' \in [Request -> States]
    <3>. HIDE DEF draft
    <3>1. request' = [request EXCEPT ![r].state = "asking", ![r].draft = draft]
      BY <1>6 DEF draft
    <3>. QED
      BY <1>1, <2>1, <3>1 DEF SearchTypeOK, States
  <2>. HIDE DEF draft
  <2>3. cards[r] = Nothing /\ reply[r] = Nothing
    BY <1>1 DEF SearchTypeOK
  <2>4. SearchTypeOK'
    BY <1>1, <1>6, <2>1, <2>2, <2>3 DEF SearchTypeOK
  <2>5. ASSUME NEW s \in Request
        PROVE  Kept(s)'
    <3>1. CASE s # r
      BY <1>6, <2>2, <3>1, KeptOn DEF Sound
    <3>2. CASE s = r
      <4>1. request[r].card # Nothing =>
              SoundCard(request[r].card) /\ request[r].option \in request[r].card.options
        BY DEF Sound, Kept
      <4>2. /\ request'[r].draft.found = found /\ request'[r].draft.chain = chain
            /\ SoundFound(request'[r].draft.found, request'[r].draft.chain)
        BY <2>1, <2>2
      <4>3. request'[r].card # Nothing =>
              chain = Picked(request'[r].card.chain, request'[r].option)
        BY <2>2
      <4>4. catalogue' = catalogue /\ cards'[r] = Nothing /\ reply'[r] = Nothing
        BY <1>6, <2>3
      <4>. QED
        BY <2>2, <3>2, <4>1, <4>2, <4>3, <4>4 DEF Kept, Picked, Narrowed, Matches
    <3>. QED
      BY <3>1, <3>2
  <2>6. Used' = Used
    BY <2>2 DEF Used
  <2>. QED
    BY <2>4, <2>5, <2>6 DEF Sound
<1>. QED
  BY <1>3, <1>4, <1>5, <1>6 DEF Considered

LEMMA SearchKeeps ==
  ASSUME TypeOK, Sound, NEW r \in Request, Search(r)
  PROVE  SearchTypeOK' /\ Sound' /\ Used' = Used
<1>1. PICK q \in Query, docs \in SUBSET Doc :
        \E found \in Initial(docs, q) :
          Considered(r, q, found, NoChain, PreflightCards(q, found, NoChain))
  BY DEF Search
<1>2. PICK found \in Initial(docs, q) :
        Considered(r, q, found, NoChain, PreflightCards(q, found, NoChain))
  BY <1>1
<1>3. found \in Finds
  BY <1>2, InitialType
<1>4. SoundFound(found, NoChain)
  BY <1>3 DEF SoundFound, Settles, NoChain, Finds
<1>5. \A card \in PreflightCards(q, found, NoChain) : card \in AnyCard /\ SoundCard(card)
  BY <1>3, <1>4, NoChainType, PreflightCardsType
<1>6. request[r].state = "begun" /\ request[r].option = Nothing
  BY DEF Search
<1>7. request[r].card = Nothing
  <2>1. request[r].card \in AnyCard \cup {Nothing}
    BY DEF TypeOK, SearchTypeOK, States
  <2>2. request[r].card # Nothing => Nothing \in Options
    BY <1>6, <2>1 DEF Sound, Kept, AnyCard
  <2>. QED
    BY <2>2, NothingAssumption
<1>8. PreflightCards(q, found, NoChain) \in SUBSET AnyCard
  BY <1>5
<1>9. NoChain \in Chains
  BY NoChainType
<1>. QED
  BY <1>2, <1>3, <1>4, <1>5, <1>6, <1>7, <1>8, <1>9, ConsideredKeeps

LEMMA ResumeKeeps ==
  ASSUME TypeOK, Sound, NEW r \in Request, Resume(r)
  PROVE  SearchTypeOK' /\ Sound' /\ Used' = Used
<1>1. SearchTypeOK /\ request[r].state = "begun" /\ Busy(r)
  BY DEF Resume, TypeOK, Busy
<1>2. CASE request[r].card = Nothing
  <2>1. Ended(r, "error", {}, Nothing) /\ faults' = faults /\ faults' \in 0 .. MaxFaults
    BY <1>1, <1>2 DEF Resume, SearchTypeOK
  <2>. QED
    BY <1>1, <1>2, <2>1, EndedKeeps
<1>3. CASE request[r].card # Nothing
  <2>. DEFINE card == request[r].card  option == request[r].option
              found == Chosen(card.docs, option)  chain == Picked(card.chain, option)
  <2>1. card \in AnyCard /\ SoundCard(card) /\ option \in card.options
    BY <1>1, <1>3 DEF SearchTypeOK, States, Sound, Kept
  <2>2. option \in Options /\ card.docs \in SUBSET Doc /\ card.chain \in Chains /\ card.query \in Query
    BY <2>1 DEF AnyCard
  <2>3. Considered(r, card.query, found, chain, {})
    BY <1>3 DEF Resume
  <2>4. found \in Finds /\ chain \in Chains /\ SoundFound(found, chain)
    <3>. HIDE DEF card, option
    <3>. QED
      BY <2>1, <2>2, ChosenType, PickedType, ChosenIsSound
  <2>5. card # Nothing => chain = Picked(request[r].card.chain, request[r].option)
    OBVIOUS
  <2>. HIDE DEF found, chain
  <2>6. {} \in SUBSET AnyCard
    OBVIOUS
  <2>. QED
    BY <1>1, <2>2, <2>3, <2>4, <2>5, <2>6, ConsideredKeeps
<1>. QED
  BY <1>2, <1>3

LEMMA ProposeKeeps ==
  ASSUME TypeOK, Sound, NEW r \in Request, Propose(r)
  PROVE  SearchTypeOK' /\ Sound' /\ Used' = Used
<1>1. SearchTypeOK /\ faults' = faults /\ faults' \in 0 .. MaxFaults /\ Busy(r)
  BY DEF Propose, TypeOK, SearchTypeOK, Busy
<1>. DEFINE draft == request[r].draft
<1>2. draft # Nothing /\ draft \in Drafts
  BY <1>1 DEF Propose, SearchTypeOK, States
<1>3. draft.query \in Query /\ draft.found \in Finds /\ draft.chain \in Chains
  BY <1>2 DEF Drafts
<1>4. /\ SoundFound(draft.found, draft.chain)
      /\ request[r].card # Nothing => draft.chain = Picked(request[r].card.chain, request[r].option)
  BY <1>2 DEF Sound, Kept
<1>5. CASE \E card \in LLMCards(draft.query, draft.found, draft.chain) : Ended(r, "card", {}, card)
  <2>1. PICK card \in LLMCards(draft.query, draft.found, draft.chain) : Ended(r, "card", {}, card)
    BY <1>5
  <2>2. card \in AnyCard /\ SoundCard(card)
    BY <1>3, <1>4, <2>1, LLMCardsType
  <2>3. card \in AnyCard \cup {Nothing} /\ card # Nothing /\ {} \in SUBSET Doc
    BY <2>2, NothingAssumption
  <2>. QED
    BY <1>1, <2>1, <2>2, <2>3, EndedKeeps
<1>6. CASE Shows(r, draft.found)
  BY <1>1, <1>3, <1>4, <1>6, ShowsKeeps DEF SoundFound
<1>. QED
  BY <1>5, <1>6 DEF Propose

LEMMA FailKeeps ==
  ASSUME SearchTypeOK, Sound, NEW r \in Request, Fail(r)
  PROVE  SearchTypeOK' /\ Sound' /\ Used' = Used
<1>1. faults' \in 0 .. MaxFaults
  BY CountAssumption DEF Fail, SearchTypeOK
<1>2. Busy(r) /\ \E type \in {"error", "http"} : Ended(r, type, {}, Nothing)
  BY DEF Fail, Busy
<1>. QED
  BY <1>1, <1>2, EndedKeeps

\* A request that only changes its state, without being answered.
LEMMA LeftKeeps ==
  ASSUME SearchTypeOK, Sound, NEW r \in Request, request[r].state # "none",
         faults' \in 0 .. MaxFaults, UNCHANGED <<catalogue, cards, reply>>,
         \/ request' = [request EXCEPT ![r].left = TRUE]
         \/ Busy(r) /\ request' = [request EXCEPT ![r].state = "lost", ![r].draft = Nothing]
  PROVE  SearchTypeOK' /\ Sound' /\ Used' = Used
<1>1. /\ request'[r].card = request[r].card /\ request'[r].option = request[r].option
      /\ request'[r].draft \in {Nothing, request[r].draft} /\ request'[r].state # "none"
      /\ request'[r].draft # Nothing <=> request'[r].state = "asking"
      /\ \A s \in Request \ {r} : request'[s] = request[s]
      /\ request' \in [Request -> States]
      /\ cards[r] # Nothing \/ reply[r] # Nothing => request'[r].state = "done"
  <2>1. /\ request \in [Request -> States]
        /\ request[r].draft # Nothing <=> request[r].state = "asking"
        /\ cards[r] # Nothing \/ reply[r] # Nothing => request[r].state = "done"
    BY DEF SearchTypeOK
  <2>2. CASE request' = [request EXCEPT ![r].left = TRUE]
    BY <2>1, <2>2 DEF States
  <2>3. CASE Busy(r) /\ request' = [request EXCEPT ![r].state = "lost", ![r].draft = Nothing]
    BY <2>1, <2>3 DEF States, Busy
  <2>. QED
    BY <2>2, <2>3
<1>3. SearchTypeOK'
  BY <1>1 DEF SearchTypeOK
<1>4. Sound'
  BY <1>1, KeptOn DEF Sound, SearchTypeOK
<1>5. Used' = Used
  BY <1>1 DEF Used
<1>. QED
  BY <1>3, <1>4, <1>5

LEMMA LoseKeeps ==
  ASSUME SearchTypeOK, Sound, NEW r \in Request, Lose(r)
  PROVE  SearchTypeOK' /\ Sound' /\ Used' = Used
<1>1. faults' \in 0 .. MaxFaults
  BY CountAssumption DEF Lose, SearchTypeOK
<1>. QED
  BY <1>1, LeftKeeps DEF Lose, Busy

LEMMA LeaveKeeps ==
  ASSUME SearchTypeOK, Sound, NEW r \in Request, Leave(r)
  PROVE  SearchTypeOK' /\ Sound' /\ Used' = Used
<1>1. faults' \in 0 .. MaxFaults
  BY DEF Leave, SearchTypeOK
<1>. QED
  BY <1>1, LeftKeeps DEF Leave, Busy

LEMMA ExpireKeeps ==
  ASSUME SearchTypeOK, Sound, NEW c \in Request, Expire(c)
  PROVE  SearchTypeOK' /\ Sound' /\ Used' = Used
<1>1. faults' \in 0 .. MaxFaults
  BY CountAssumption DEF Expire, SearchTypeOK
<1>2. \A s \in Request : cards'[s] \in {Nothing, cards[s]}
  BY DEF Expire, SearchTypeOK
<1>3. SearchTypeOK'
  BY <1>1, <1>2 DEF Expire, SearchTypeOK
<1>4. Sound'
  BY <1>2, KeptOn DEF Expire, Sound
<1>. QED
  BY <1>3, <1>4 DEF Expire, Used

LEMMA AskKeeps ==
  ASSUME SearchTypeOK, Sound, NEW r \in Request, Ask(r)
  PROVE  SearchTypeOK' /\ Sound' /\ Used' = Used \cup {r}
BY StartedKeeps DEF Ask

LEMMA PickKeeps ==
  ASSUME SearchTypeOK, Sound, NEW r \in Request, NEW c, NEW option, Pick(r, c, option)
  PROVE  SearchTypeOK' /\ Sound' /\ Used' = Used \cup {r}
<1>1. c \in Request /\ reply[c] # Nothing /\ reply[c].type = "card" /\ option \in reply[c].card.options
  BY DEF Pick, Used
<1>2. reply[c].card # Nothing /\ reply[c].card \in AnyCard
  BY <1>1 DEF SearchTypeOK, Replies
<1>3. option \in Options
  BY <1>1, <1>2 DEF AnyCard
<1>4. cards[c] \in AnyCard \cup {Nothing}
  BY <1>1 DEF SearchTypeOK
<1>5. cards[c] # Nothing => SoundCard(cards[c]) /\ option \in cards[c].options
  BY <1>1, <1>2 DEF Sound, Kept
<1>. QED
  BY <1>3, <1>4, <1>5, StartedKeeps DEF Pick

-----------------------------------------------------------------------------
(* The steps of the clients.                                               *)

LEMMA InOrderType == InOrder => Turns \in Nat /\ Turns <= MaxRequests
BY CountAssumption DEF InOrder

LEMMA InOrderOn ==
  ASSUME InOrder, Used' = Used
  PROVE  InOrder' /\ Turns' = Turns
BY DEF InOrder, Turns

LEMMA InOrderNext ==
  ASSUME InOrder, NEW r \in Request \ Used, \A s \in Request \ Used : r <= s,
         Used' = Used \cup {r}
  PROVE  InOrder' /\ Turns' = Turns + 1
<1>1. PICK n \in 0 .. MaxRequests : Used = 1 .. n /\ Turns = n
  BY DEF InOrder
<1>2. MaxRequests \in Nat /\ n \in Nat
  BY CountAssumption
<1>3. r = n + 1 /\ n + 1 \in 0 .. MaxRequests
  BY <1>1, <1>2 DEF Request
<1>4. Used' = 1 .. n + 1
  BY <1>1, <1>2, <1>3
<1>5. Turns' = n + 1
  <2>1. Cardinality(1 .. n + 1) = n + 1
    BY <1>2, FS_Interval
  <2>. QED
    BY <1>4, <2>1 DEF Turns
<1>. QED
  BY <1>1, <1>3, <1>4, <1>5 DEF InOrder

LEMMA CurrentType ==
  ASSUME InOrder, Turns > 0
  PROVE  Current \in Request
<1>1. PICK n \in 0 .. MaxRequests : Used = 1 .. n /\ Turns = n
  BY DEF InOrder
<1>2. n \in Nat /\ n \in Used /\ \A s \in Used : s <= n
  BY <1>1, CountAssumption
<1>3. Current \in Used
  BY <1>2 DEF Current
<1>. QED
  BY <1>3 DEF Used

LEMMA ServerKeeps ==
  ASSUME Inv, Server
  PROVE  Inv'
<1>1. SearchTypeOK' /\ Sound' /\ Used' = Used
  <2>1. CASE \E r \in Request : Fail(r) \/ Lose(r) \/ Expire(r)
    BY <2>1, FailKeeps, LoseKeeps, ExpireKeeps DEF Inv, TypeOK
  <2>2. CASE \E r \in Request : Search(r) \/ Resume(r) \/ Propose(r)
    BY <2>2, SearchKeeps, ResumeKeeps, ProposeKeeps DEF Inv
  <2>. QED
    BY <2>1, <2>2 DEF Server, Fault, ServerStep
<1>2. client' = client /\ case' = case
  BY DEF Server
<1>3. InOrder' /\ Turns' = Turns
  BY <1>1, InOrderOn DEF Inv
<1>. QED
  BY <1>1, <1>2, <1>3 DEF Inv, TypeOK, Counted

LEMMA TabKeeps ==
  ASSUME Inv, Tab
  PROVE  Inv'
<1>1. client' = client /\ case' = case /\ client = "tab" /\ case.status = "unbegun"
  <2>1. client' = client /\ case' = case /\ client = "tab"
    BY DEF Tab
  <2>2. case = Unbegun
    BY <2>1 DEF Inv, Counted
  <2>. QED
    BY <2>1, <2>2 DEF Unbegun
<1>2. ASSUME NEW r \in Request, Used' = Used \cup {r}, SearchTypeOK' /\ Sound',
             r \in Request \ Used /\ \A s \in Request \ Used : r <= s
      PROVE  Inv'
  <2>1. InOrder'
    BY <1>2, InOrderNext DEF Inv
  <2>. QED
    BY <1>1, <1>2, <2>1 DEF Inv, TypeOK, Counted
<1>3. CASE \E r \in Request : Ask(r)
  BY <1>2, <1>3, AskKeeps DEF Inv, TypeOK, Ask, Started
<1>4. CASE \E c, r \in Request : \E option \in reply[c].card.options : Pick(r, c, option)
  <2>1. PICK c, r \in Request : \E option \in reply[c].card.options : Pick(r, c, option)
    BY <1>4
  <2>2. PICK option : Pick(r, c, option)
    BY <2>1
  <2>. QED
    BY <1>2, <2>2, PickKeeps DEF Inv, TypeOK, Pick, Started
<1>5. CASE \E r \in Request : Leave(r)
  <2>1. SearchTypeOK' /\ Sound' /\ Used' = Used
    BY <1>5, LeaveKeeps DEF Inv, TypeOK
  <2>2. InOrder'
    BY <2>1, InOrderOn DEF Inv
  <2>. QED
    BY <1>1, <2>1, <2>2 DEF Inv, TypeOK, Counted
<1>. QED
  BY <1>3, <1>4, <1>5 DEF Tab, TabAsks, TabAnswers, TabStops

LEMMA CaseKeeps ==
  ASSUME Inv, CaseStep
  PROVE  Inv'
<1>. DEFINE Result == [status : {"unbegun", "waiting", "deciding"} \cup Ends, type : Types,
                       http : BOOLEAN, gaps : SUBSET {"rollback"}, asked : 0 .. MaxTurns]
<1>1. client' = client /\ client = "case" /\ SearchTypeOK /\ Sound /\ InOrder /\ case \in Result
  BY DEF CaseStep, Inv, TypeOK
<1>2. MaxTurns \in Nat /\ Turns \in Nat /\ Turns <= MaxRequests /\ MaxTurns > 0
  BY <1>1, InOrderType, TurnsAssumption, CountAssumption
<1>3. ASSUME SearchTypeOK', Sound', InOrder', case' \in Result, Counted'
      PROVE  Inv'
  BY <1>1, <1>3 DEF Inv, TypeOK
<1>4. ASSUME NEW status \in Ends, NEW type \in Types
      PROVE  /\ Stopped(status, type) \in Result
             /\ Stopped(status, type).status = status
             /\ Stopped(status, type).asked = case.asked
  BY <1>1 DEF Stopped, Types
<1>5. CASE Begin
  <2>1. PICK r \in Request : Ask(r)
    BY <1>5 DEF Begin
  <2>2. SearchTypeOK' /\ Sound' /\ Used' = Used \cup {r}
    BY <1>1, <2>1, AskKeeps
  <2>3. InOrder' /\ Turns' = Turns + 1
    BY <1>1, <2>1, <2>2, InOrderNext DEF Ask, Started
  <2>4. case' \in Result /\ case'.status = "waiting" /\ case'.asked = 0 /\ Turns = 0
    BY <1>1, <1>5 DEF Begin, Inv, Counted
  <2>5. Counted'
    BY <1>1, <1>2, <2>3, <2>4 DEF Counted
  <2>. QED
    BY <1>3, <2>2, <2>3, <2>4, <2>5
<1>6. CASE Choose
  <2>1. PICK r \in Request : \E option \in reply[Current].card.options : Pick(r, Current, option)
    BY <1>6 DEF Choose
  <2>2. PICK option : Pick(r, Current, option)
    BY <2>1
  <2>3. SearchTypeOK' /\ Sound' /\ Used' = Used \cup {r}
    BY <1>1, <2>2, PickKeeps
  <2>4. InOrder' /\ Turns' = Turns + 1
    BY <1>1, <2>2, <2>3, InOrderNext DEF Pick, Started
  <2>5. /\ case' \in Result /\ case'.status = "waiting" /\ case'.asked = case.asked
        /\ case.asked = Turns /\ Turns < MaxTurns
    BY <1>1, <1>6 DEF Choose, Inv, Counted
  <2>6. Counted'
    BY <1>1, <1>2, <2>4, <2>5 DEF Counted
  <2>. QED
    BY <1>3, <2>3, <2>4, <2>5, <2>6
<1>7. CASE Timeout
  <2>1. case.status = "waiting" /\ Leave(Current) /\ case' = Stopped("error_http", "message")
    BY <1>7 DEF Timeout
  <2>2. case.asked + 1 = Turns /\ Turns <= MaxTurns
    BY <2>1 DEF Inv, Counted
  <2>3. Current \in Request
    BY <1>1, <1>2, <2>2, CurrentType
  <2>4. SearchTypeOK' /\ Sound' /\ Used' = Used
    BY <1>1, <2>1, <2>3, LeaveKeeps
  <2>5. InOrder'
    BY <1>1, <2>4, InOrderOn
  <2>6. case' \in Result /\ case'.status = "error_http"
    BY <1>4, <2>1 DEF Ends, Types
  <2>7. Counted'
    BY <1>1, <2>6 DEF Counted
  <2>. QED
    BY <1>3, <2>4, <2>5, <2>6, <2>7
<1>8. ASSUME UNCHANGED searchVars, case' \in Result, Counted'
      PROVE  Inv'
  <2>1. SearchTypeOK' /\ Used' = Used
    BY <1>1, <1>8 DEF searchVars, SearchTypeOK, Used
  <2>2. Sound'
    BY <1>1, <1>8, KeptOn DEF searchVars, Sound
  <2>3. InOrder'
    BY <1>1, <2>1, InOrderOn
  <2>. QED
    BY <1>3, <1>8, <2>1, <2>2, <2>3
<1>9. CASE GiveUp
  <2>1. case' \in Result /\ case'.status \in Ends
    BY <1>1, <1>9 DEF GiveUp, Stopped, Ends, Types
  <2>2. Counted'
    BY <1>1, <2>1 DEF Counted, Ends
  <2>. QED
    BY <1>8, <1>9, <2>1, <2>2 DEF GiveUp
<1>10. CASE Receive
  <2>1. UNCHANGED searchVars /\ case.status = "waiting" /\ reply[Current] # Nothing
    BY <1>10 DEF Receive
  <2>2. case.asked + 1 = Turns /\ Turns <= MaxTurns /\ Turns' = Turns
    BY <2>1 DEF Inv, Counted, searchVars, Turns, Used
  <2>3. reply[Current] \in Replies
    BY <1>1, <1>2, <2>1, <2>2, CurrentType DEF SearchTypeOK
  <2>8. case.asked \in Nat /\ case.asked + 1 \in 0 .. MaxTurns
    BY <1>1, <1>2, <2>2
  <2>. DEFINE type == reply[Current].type
  <2>4. CASE type = "card" /\ Turns < MaxTurns
    <3>1. case' = [case EXCEPT !.status = "deciding", !.asked = @ + 1]
      <4>1. ~(Turns >= MaxTurns)
        BY <1>2, <2>4
      <4>. QED
        BY <1>10, <2>4, <4>1 DEF Receive
    <3>2. case' \in Result /\ case'.status = "deciding" /\ case'.asked = Turns
      BY <1>1, <2>2, <2>8, <3>1
    <3>3. Counted'
      BY <1>1, <2>2, <2>4, <3>2 DEF Counted
    <3>. QED
      BY <1>8, <2>1, <3>2, <3>3
  <2>5. CASE type = "card" /\ Turns >= MaxTurns
    <3>1. case' = [Stopped("max_turns_exceeded", "ask_user") EXCEPT !.asked = @ + 1]
      <4>1. ~(Turns < MaxTurns)
        BY <1>2, <2>5
      <4>. QED
        BY <1>10, <2>5, <4>1 DEF Receive
    <3>2. case' \in Result /\ case'.status = "max_turns_exceeded"
      BY <1>1, <2>8, <3>1 DEF Stopped, Ends, Types
    <3>3. Counted'
      BY <1>1, <3>2 DEF Counted
    <3>. QED
      BY <1>8, <2>1, <3>2, <3>3
  <2>6. CASE type = "http"
    <3>1. case' = [Stopped("error_http", "message") EXCEPT !.http = TRUE]
      BY <1>10, <2>6 DEF Receive
    <3>2. case' \in Result /\ case'.status = "error_http"
      BY <1>1, <3>1 DEF Stopped, Ends, Types
    <3>3. Counted'
      BY <1>1, <3>2 DEF Counted
    <3>. QED
      BY <1>8, <2>1, <3>2, <3>3
  <2>7. CASE type \in {"documents", "message", "error"}
    <3>1. \E status \in {"success_documents", "success_message"} : case' = Stopped(status, type)
      BY <1>10, <2>7 DEF Receive
    <3>2. case' \in Result /\ case'.status \in {"success_documents", "success_message"}
      BY <1>1, <2>7, <3>1 DEF Stopped, Ends, Types
    <3>3. Counted'
      BY <1>1, <3>2 DEF Counted
    <3>. QED
      BY <1>8, <2>1, <3>2, <3>3
  <2>. QED
    BY <1>2, <2>3, <2>4, <2>5, <2>6, <2>7 DEF Replies
<1>. QED
  BY <1>5, <1>6, <1>7, <1>9, <1>10 DEF CaseStep

-----------------------------------------------------------------------------
(* What the options of a card cover.  Nobody changes the documents, so it  *)
(* is enough to look at the cards when they are made.                      *)

\* A find holds what its filters let through.
Clean(found) == found.docs \subseteq Narrowed(found.docs, found.filters)

Covered(card, d) == \E o \in card.options : d \in Chosen(card.docs, o).docs

Covering(card) ==
  card.source # "preflight" =>
    /\ \A o \in card.options : Chosen(card.docs, o).docs # {}
    /\ card.source = "rule" =>
         /\ \A d \in With(First(card.docs, MaxLooked), card.facet) : Covered(card, d)
         /\ (\E o \in card.options : o.ids # {}) => \A d \in card.docs : Covered(card, d)

LEMMA NarrowedClean ==
  ASSUME NEW docs, NEW filters
  PROVE  Narrowed(docs, filters) \subseteq Narrowed(Narrowed(docs, filters), filters)
BY DEF Narrowed

LEMMA FoundClean ==
  ASSUME NEW docs, NEW filters, NEW valid \in BOOLEAN,
         docs \subseteq Narrowed(docs, filters)
  PROVE  Clean(Found(docs, filters, valid))
BY DEF Clean, Found, Narrowed

LEMMA ChosenClean ==
  ASSUME NEW docs, NEW option
  PROVE  Clean(Chosen(docs, option))
BY NarrowedClean, FoundClean DEF Chosen

LEMMA InitialClean ==
  ASSUME NEW docs, NEW q \in Query, NEW found \in Initial(docs, q)
  PROVE  Clean(found)
<1>1. CASE \E valid \in BOOLEAN : found = Found(First(docs, 1), NoFilters, valid)
  <2>1. First(docs, 1) \subseteq Narrowed(First(docs, 1), NoFilters)
    BY DEF Narrowed, NoFilters
  <2>. QED
    BY <1>1, <2>1, FoundClean
<1>2. CASE \E F \in AutoFilters(docs, q), valid \in BOOLEAN : found = Found(Narrowed(docs, F), F, valid)
  BY <1>2, NarrowedClean, FoundClean
<1>. QED
  BY <1>1, <1>2 DEF Initial

\* An option that names some of the documents finds just these.
LEMMA NamingFinds ==
  ASSUME NEW docs, NEW filters, docs \subseteq Narrowed(docs, filters),
         NEW ids \in SUBSET docs, ids # {}
  PROVE  Chosen(docs, Naming(filters, ids)).docs = ids
<1>1. Naming(filters, ids).ids = ids /\ Naming(filters, ids).filters = filters
  BY DEF Naming, Option
<1>2. Chosen(docs, Naming(filters, ids)).docs = Narrowed(docs \cap ids, filters)
  BY <1>1 DEF Chosen, Found
<1>3. docs \cap ids = ids /\ Narrowed(ids, filters) = ids
  BY DEF Narrowed
<1>. QED
  BY <1>2, <1>3

\* An option that adds a value of a facet not filtered yet finds all documents that match it.
LEMMA PickingFinds ==
  ASSUME NEW docs, NEW filters \in Filters, docs \subseteq Narrowed(docs, filters),
         NEW f \in Facet, filters[f] = NoValue, NEW v \in Value,
         NEW d \in docs, Matches(d, f, v)
  PROVE  d \in Chosen(docs, Picking(filters, [NoFilters EXCEPT ![f] = v])).docs
<1>. DEFINE pick  == [NoFilters EXCEPT ![f] = v]
            added == Merged(filters, pick)
<1>1. Picking(filters, pick).ids = {} /\ Picking(filters, pick).filters = added
  BY DEF Picking, Option
<1>2. Chosen(docs, Picking(filters, pick)).docs = Narrowed(docs, added)
  BY <1>1 DEF Chosen, Found
<1>3. \A g \in Facet : added[g] # NoValue => Matches(d, g, added[g])
  <2>1. ASSUME NEW g \in Facet
        PROVE  pick[g] = IF g = f THEN v ELSE NoValue
    BY DEF NoFilters
  <2>2. v # NoValue
    BY ValueAssumption
  <2>3. \A g \in Facet : filters[g] # NoValue => Matches(d, g, filters[g])
    BY DEF Narrowed
  <2>. HIDE DEF pick
  <2>. QED
    BY <2>1, <2>2, <2>3 DEF Merged
<1>. HIDE DEF added
<1>. QED
  BY <1>2, <1>3 DEF Narrowed

\* The documents the explicit options stand for match one of them.
LEMMA RepresentativesMatch ==
  ASSUME NEW docs, NEW f, NEW s, Len(s) \in Nat, NEW d \in Representatives(docs, f, s)
  PROVE  d \in docs /\ \E i \in 1 .. Len(s) : Matches(d, f, s[i])
<1>. DEFINE n == Len(s)
            Next1(i, T) == First({e \in docs \ T : Matches(e, f, s[i])}, 1)
            Rule(t) == [i \in 0 .. n |-> IF i = 0 THEN {} ELSE t[i - 1] \cup Next1(i, t[i - 1])]
            step == [i \in 1 .. n |-> [T \in SUBSET docs |-> T \cup Next1(i, T)]]
            taken == CHOOSE t : t = Rule(t)
<1>1. Representatives(docs, f, s) = taken[n]
  BY DEF Representatives
<1>2. \A i \in 1 .. n : \A T \in SUBSET docs :
        /\ Next1(i, T) \subseteq {e \in docs : Matches(e, f, s[i])}
        /\ T \cup Next1(i, T) \in SUBSET docs
  BY FirstType
<1>. HIDE DEF Next1
<1>3. taken = Rule(taken)
  <2>. DEFINE A == SUBSET docs
              none == {}
  <2>1. step \in [1 .. n -> [A -> A]]
    BY <1>2
  <2>2. n \in Nat /\ none \in A
    OBVIOUS
  <2>. HIDE DEF n, step, A, none, Rule, taken
  <2>3. PICK t : Follows(t, n, A, none, step)
    BY <2>1, <2>2, Recursion
  <2>4. t \in [0 .. n -> SUBSET docs] /\ t[0] = {} /\ \A i \in 1 .. n : t[i] = step[i][t[i - 1]]
    BY <2>3 DEF A, none, Follows
  <2>5. ASSUME NEW i \in 1 .. n
        PROVE  t[i] = t[i - 1] \cup Next1(i, t[i - 1])
    <3>1. i - 1 \in 0 .. n
      BY <2>2
    <3>2. t[i - 1] \in SUBSET docs
      BY <2>4, <3>1
    <3>3. step[i][t[i - 1]] = t[i - 1] \cup Next1(i, t[i - 1])
      BY <3>2 DEF step
    <3>. QED
      BY <2>4, <3>3
  <2>6. t = Rule(t)
    BY <2>2, <2>4, <2>5 DEF Rule
  <2>. QED
    BY <2>6 DEF taken
<1>. DEFINE Fits == {k \in 0 .. n : taken[k] \subseteq {e \in docs : \E i \in 1 .. n : Matches(e, f, s[i])}}
<1>. HIDE DEF taken
<1>4. 0 \in Fits
  BY <1>3
<1>5. ASSUME NEW k \in 0 .. n - 1, k \in Fits
      PROVE  k + 1 \in Fits
  <2>1. taken[k + 1] = taken[k] \cup Next1(k + 1, taken[k])
    <3>1. k + 1 \in 0 .. n /\ k + 1 # 0 /\ (k + 1) - 1 = k
      OBVIOUS
    <3>2. taken[k + 1] = taken[(k + 1) - 1] \cup Next1(k + 1, taken[(k + 1) - 1])
      BY <1>3, <3>1
    <3>. QED
      BY <3>1, <3>2
  <2>2. taken[k] \in SUBSET docs /\ k + 1 \in 1 .. n
    BY <1>5
  <2>. QED
    BY <1>2, <1>5, <2>1, <2>2
<1>. HIDE DEF Fits
<1>6. \A k \in 0 .. n : k \in Fits
  BY <1>4, <1>5, UpTo, Zenon
<1>7. n \in Fits
  BY <1>6
<1>. QED
  BY <1>1, <1>7 DEF Fits

\* The explicit options of a rule's card: different values; when there are as many as the
\* documents have, they are all of them.
LEMMA ExplicitCovers ==
  ASSUME TypeOK, NEW docs \in SUBSET Doc, NEW f \in Facet, NEW q \in Query,
         NEW s \in Explicit(docs, f, q)
  PROVE  /\ Len(s) \in Nat /\ DOMAIN s = 1 .. Len(s)
         /\ \A i \in DOMAIN s : s[i] \in Values(docs, f)
         /\ ~ (Cardinality(Values(docs, f)) > Len(s)) =>
              \A v \in Values(docs, f) : \E i \in DOMAIN s : s[i] = v
<1>0. PICK top \in Frequent(docs, f) :
        LET long == Lesser(Cardinality(top \ Hidden[q]), MaxOptions - 1)
        IN /\ s \in [1 .. long -> top \ Hidden[q]]
           /\ \A i, j \in 1 .. long : i < j => s[i] # s[j]
  BY ExplicitShown
<1>. DEFINE shown  == top \ Hidden[q]
            values == Values(docs, f)
            long   == Lesser(Cardinality(shown), MaxOptions - 1)
<1>1. values \subseteq Value /\ shown \subseteq values
  <2>1. top \subseteq values
    BY DEF Frequent
  <2>. QED
    BY <2>1, CatalogueType DEF Values
<1>2. IsFiniteSet(values) /\ IsFiniteSet(shown)
  BY <1>1, ValueAssumption, FS_Subset
<1>3. Cardinality(values) \in Nat /\ Cardinality(shown) \in Nat
  BY <1>2, FS_CardinalityType
<1>4. long \in Nat
  BY <1>3, CountAssumption DEF Lesser
<1>5. s \in [1 .. long -> shown] /\ \A i, j \in 1 .. long : i < j => s[i] # s[j]
  BY <1>0
<1>. HIDE DEF shown, values, long
<1>6. Len(s) = long /\ DOMAIN s = 1 .. long
  BY <1>4, <1>5
<1>7. s \in Injection(1 .. long, values)
  <2>1. s \in [1 .. long -> values]
    BY <1>1, <1>5
  <2>2. \A i, j \in 1 .. long : s[i] = s[j] => i = j
    BY <1>4, <1>5
  <2>. QED
    BY <2>1, <2>2 DEF Injection, IsInjective
<1>8. ASSUME ~ (Cardinality(values) > long), NEW v \in values
      PROVE  \E i \in 1 .. long : s[i] = v
  <2>1. Cardinality(1 .. long) = long
    BY <1>4, FS_Interval
  <2>2. /\ Cardinality(1 .. long) <= Cardinality(values)
        /\ Cardinality(1 .. long) = Cardinality(values) <=> s \in Surjection(1 .. long, values)
    BY <1>2, <1>7, FS_Injection
  <2>3. s \in Surjection(1 .. long, values)
    BY <1>3, <1>4, <1>8, <2>1, <2>2
  <2>. QED
    BY <2>3 DEF Surjection
<1>9. \A i \in 1 .. long : s[i] \in values
  BY <1>1, <1>5
<1>. QED
  BY <1>4, <1>6, <1>8, <1>9 DEF values

LEMMA RuleCardsCover ==
  ASSUME TypeOK, NEW q \in Query, NEW found \in Finds, Clean(found), NEW chain \in Chains,
         NEW card \in RuleCards(q, found, chain)
  PROVE  Covering(card)
<1>. DEFINE docs == found.docs  filters == found.filters  looked == Looked(docs)
<1>1. PICK f \in Facet : \E s \in Explicit(looked, f, q) :
        /\ filters[f] = NoValue
        /\ card = Card("rule", f, RuleOptions(docs, filters, f, s), q, found, chain)
  BY RuleCardShape
<1>2. PICK s \in Explicit(looked, f, q) :
        card = Card("rule", f, RuleOptions(docs, filters, f, s), q, found, chain)
  BY <1>1
<1>3. f \in Facet /\ filters[f] = NoValue
  BY <1>1
<1>4. /\ docs \in SUBSET Doc /\ filters \in Filters /\ docs \subseteq Narrowed(docs, filters)
      /\ looked \in SUBSET docs
  BY FirstType DEF Finds, Clean, Looked
<1>5. docs # {}
  <2>1. ~ (Cardinality(docs) <= TargetResults)
    BY RuleCardShape
  <2>. QED
    BY <2>1, FS_EmptySet, CountAssumption
<1>6. /\ card.source = "rule" /\ card.facet = f /\ card.docs = docs
      /\ card.options = RuleOptions(docs, filters, f, s)
  BY <1>2 DEF Card
<1>0. Looked(docs) = looked
  OBVIOUS
<1>. HIDE DEF docs, filters, looked
<1>7. /\ Len(s) \in Nat /\ DOMAIN s = 1 .. Len(s)
      /\ \A i \in DOMAIN s : s[i] \in Values(looked, f)
      /\ ~ (Cardinality(Values(looked, f)) > Len(s)) =>
           \A v \in Values(looked, f) : \E i \in DOMAIN s : s[i] = v
  <2>1. looked \in SUBSET Doc
    BY <1>4
  <2>. QED
    BY <1>2, <1>3, <2>1, ExplicitCovers
<1>. DEFINE option(i) == Picking(filters, [NoFilters EXCEPT ![f] = s[i]])
            other     == Naming(filters, Others(docs, f, s))
<1>8. ASSUME NEW v \in Values(looked, f)
      PROVE  v \in Value /\ \E d \in looked : v \in catalogue[d][f]
  BY <1>3, <1>4, CatalogueType DEF Values
<1>9. ASSUME NEW i \in DOMAIN s, NEW d \in docs, Matches(d, f, s[i])
      PROVE  d \in Chosen(docs, option(i)).docs
  <2>1. s[i] \in Value
    BY <1>7, <1>8
  <2>. QED
    BY <1>3, <1>4, <1>9, <2>1, PickingFinds
<1>10. ASSUME NEW d \in looked, NEW v \in catalogue[d][f]
       PROVE  Matches(d, f, v) /\ v \in Values(looked, f)
  <2>1. v \in Values(looked, f)
    BY <1>10 DEF Values
  <2>. QED
    BY <1>8, <2>1, ContainsAssumption DEF Matches
<1>11. Others(docs, f, s) \in SUBSET docs /\ Others(docs, f, s) # {}
  BY <1>5 DEF Others
<1>12. other.ids = Others(docs, f, s) /\ Chosen(docs, other).docs = Others(docs, f, s)
  BY <1>4, <1>11, NamingFinds DEF Naming, Option
<1>13. \A i \in DOMAIN s : option(i) \in card.options /\ option(i).ids = {}
  BY <1>6 DEF RuleOptions, Picking, Option
<1>14. ASSUME NEW o \in card.options
       PROVE  \/ \E i \in DOMAIN s : o = option(i)
              \/ o = other
  BY <1>6 DEF RuleOptions
<1>15. other \in card.options <=> Cardinality(Values(looked, f)) > Len(s)
  <2>1. Cardinality(Values(looked, f)) > Len(s) => other \in card.options
    BY <1>0, <1>6 DEF RuleOptions
  <2>2. ASSUME ~ (Cardinality(Values(looked, f)) > Len(s))
        PROVE  other \notin card.options
    <3>1. card.options = {option(i) : i \in DOMAIN s}
      BY <1>0, <1>6, <2>2 DEF RuleOptions
    <3>. HIDE DEF other, option
    <3>. QED
      BY <1>11, <1>12, <1>13, <3>1
  <2>. QED
    BY <2>1, <2>2
<1>. HIDE DEF option, other
<1>16. ASSUME NEW o \in card.options
       PROVE  Chosen(docs, o).docs # {}
  <2>1. CASE \E i \in DOMAIN s : o = option(i)
    <3>1. PICK i \in DOMAIN s : o = option(i)
      BY <2>1
    <3>2. PICK d \in looked : s[i] \in catalogue[d][f]
      BY <1>7, <1>8
    <3>. QED
      BY <1>4, <1>9, <1>10, <3>1, <3>2
  <2>2. CASE o = other
    BY <1>11, <1>12, <2>2
  <2>. QED
    BY <1>14, <2>1, <2>2
<1>17. ASSUME other \in card.options, NEW d \in docs
       PROVE  Covered(card, d)
  <2>1. CASE d \in Others(docs, f, s)
    BY <1>6, <1>12, <1>17, <2>1 DEF Covered
  <2>2. CASE d \notin Others(docs, f, s)
    <3>1. d \in Representatives(docs, f, s)
      BY <2>2 DEF Others
    <3>2. PICK i \in 1 .. Len(s) : Matches(d, f, s[i])
      BY <1>7, <3>1, RepresentativesMatch
    <3>. QED
      BY <1>6, <1>7, <1>9, <1>13, <3>2 DEF Covered
  <2>. QED
    BY <2>1, <2>2
<1>18. ASSUME NEW d \in With(looked, f)
       PROVE  Covered(card, d)
  <2>1. d \in looked /\ d \in docs /\ \E v : v \in catalogue[d][f]
    BY <1>4 DEF With
  <2>2. PICK v : v \in catalogue[d][f]
    BY <2>1
  <2>3. CASE Cardinality(Values(looked, f)) > Len(s)
    BY <1>15, <1>17, <2>1, <2>3
  <2>4. CASE ~ (Cardinality(Values(looked, f)) > Len(s))
    <3>1. v \in Values(looked, f) /\ Matches(d, f, v)
      BY <1>10, <2>1, <2>2
    <3>2. PICK i \in DOMAIN s : s[i] = v
      BY <1>7, <2>4, <3>1
    <3>3. d \in Chosen(docs, option(i)).docs
      BY <1>9, <2>1, <3>1, <3>2
    <3>. QED
      BY <1>6, <1>13, <3>3 DEF Covered
  <2>. QED
    BY <2>3, <2>4
<1>19. ASSUME NEW o \in card.options, o.ids # {}
       PROVE  other \in card.options
  BY <1>13, <1>14, <1>19
<1>. QED
  BY <1>6, <1>16, <1>17, <1>18, <1>19 DEF Covering, looked, Looked

LEMMA LLMCardsCover ==
  ASSUME NEW q \in Query, NEW found \in Finds, Clean(found), NEW chain \in Chains,
         NEW card \in LLMCards(q, found, chain)
  PROVE  Covering(card)
<1>1. PICK scope \in Scopes(found.docs, q) :
        \E sets \in SUBSET ((SUBSET scope) \ {{}}) :
          card = Card("llm", Nothing, {Naming(found.filters, ids) : ids \in sets}, q, found, chain)
  BY DEF LLMCards
<1>2. PICK sets \in SUBSET ((SUBSET scope) \ {{}}) :
        card = Card("llm", Nothing, {Naming(found.filters, ids) : ids \in sets}, q, found, chain)
  BY <1>1
<1>3. scope \subseteq found.docs
  BY <1>1, NarrowedType DEF Scopes
<1>4. /\ card.source = "llm" /\ card.docs = found.docs
      /\ card.options = {Naming(found.filters, ids) : ids \in sets}
  BY <1>2 DEF Card
<1>5. ASSUME NEW o \in card.options
      PROVE  Chosen(card.docs, o).docs # {}
  <2>1. PICK ids \in sets : o = Naming(found.filters, ids)
    BY <1>4
  <2>2. ids \in SUBSET found.docs /\ ids # {}
    BY <1>3
  <2>. QED
    BY <1>4, <2>1, <2>2, NamingFinds DEF Clean
<1>. QED
  BY <1>4, <1>5 DEF Covering

\* What is kept is clean, and every card that is saved covers.
Covers ==
  \A r \in Request : /\ cards[r] # Nothing => Covering(cards[r])
                     /\ request[r].draft # Nothing => Clean(request[r].draft.found)

LEMMA CoversOn ==
  ASSUME Covers, catalogue' = catalogue,
         \A r \in Request : cards'[r] \in {Nothing, cards[r]} \/ Covering(cards'[r]),
         \A r \in Request : request'[r].draft \in {Nothing, request[r].draft} \/ Clean(request'[r].draft.found)
  PROVE  Covers'
<1>1. ASSUME NEW card, Covering(card)
      PROVE  Covering(card)'
  <2>1. \A docs, filters : Narrowed(docs, filters)' = Narrowed(docs, filters)
    BY DEF Narrowed, Matches
  <2>2. \A docs, o : Chosen(docs, o)' = Chosen(docs, o)
    BY <2>1 DEF Chosen
  <2>3. \A d : Covered(card, d)' = Covered(card, d)
    BY <2>2 DEF Covered
  <2>4. With(First(card.docs, MaxLooked), card.facet)' = With(First(card.docs, MaxLooked), card.facet)
    BY DEF With, First
  <2>. QED
    BY <1>1, <2>2, <2>3, <2>4 DEF Covering
<1>2. \A found : Clean(found) => Clean(found)'
  BY DEF Clean, Narrowed, Matches
<1>. QED
  BY <1>1, <1>2 DEF Covers

LEMMA EndedCovers ==
  ASSUME SearchTypeOK, Covers, NEW r \in Request, NEW type, NEW docs, NEW card,
         card # Nothing => Covering(card), Ended(r, type, docs, card)
  PROVE  Covers'
<1>1. \A s \in Request : cards'[s] \in {Nothing, cards[s]} \/ Covering(cards'[s])
  BY DEF Ended, SearchTypeOK
<1>2. \A s \in Request : request'[s].draft \in {Nothing, request[s].draft}
  BY DEF Ended, SearchTypeOK
<1>. QED
  BY <1>1, <1>2, CoversOn DEF Ended

LEMMA ConsideredCovers ==
  ASSUME TypeOK, Covers, NEW r \in Request, NEW q \in Query, NEW found \in Finds, Clean(found),
         NEW chain \in Chains, NEW first, \A card \in first : Covering(card),
         Considered(r, q, found, chain, first)
  PROVE  Covers'
<1>1. SearchTypeOK
  BY DEF TypeOK
<1>2. CASE \E card \in first : Ended(r, "card", {}, card)
  BY <1>1, <1>2, EndedCovers
<1>3. CASE \E card \in RuleCards(q, found, chain) : Ended(r, "card", {}, card)
  BY <1>1, <1>3, RuleCardsCover, EndedCovers
<1>4. CASE Shows(r, found)
  BY <1>1, <1>4, EndedCovers DEF Shows
<1>5. CASE /\ request' = [request EXCEPT ![r].state = "asking", ![r].draft = Draft(q, found, chain)]
           /\ UNCHANGED <<catalogue, cards, reply>>
  <2>1. Draft(q, found, chain).found = found
    BY DEF Draft
  <2>2. \A s \in Request : \/ request'[s].draft = request[s].draft
                           \/ request'[s].draft = Draft(q, found, chain)
    BY <1>1, <1>5 DEF SearchTypeOK
  <2>3. \A s \in Request : request'[s].draft = request[s].draft \/ Clean(request'[s].draft.found)
    BY <2>1, <2>2
  <2>4. \A s \in Request : cards'[s] = cards[s]
    BY <1>5
  <2>. QED
    BY <1>5, <2>3, <2>4, CoversOn
<1>. QED
  BY <1>2, <1>3, <1>4, <1>5 DEF Considered

LEMMA CurrentWaited ==
  ASSUME Inv, case.status = "waiting"
  PROVE  Current \in Request
<1>1. case.asked \in Nat /\ case.asked + 1 = Turns
  BY TurnsAssumption DEF Inv, TypeOK, Counted
<1>. QED
  BY <1>1, CurrentType DEF Inv

LEMMA CoversStep ==
  ASSUME Inv, Covers, [Next]_vars
  PROVE  Covers'
<1>1. SearchTypeOK /\ TypeOK
  BY DEF Inv, TypeOK
<1>2. ASSUME NEW r \in Request, Search(r)
      PROVE  Covers'
  <2>1. PICK q \in Query, docs \in SUBSET Doc :
          \E found \in Initial(docs, q) :
            Considered(r, q, found, NoChain, PreflightCards(q, found, NoChain))
    BY <1>2 DEF Search
  <2>2. PICK found \in Initial(docs, q) :
          Considered(r, q, found, NoChain, PreflightCards(q, found, NoChain))
    BY <2>1
  <2>3. found \in Finds /\ Clean(found)
    BY <2>2, InitialType, InitialClean
  <2>4. \A card \in PreflightCards(q, found, NoChain) : Covering(card)
    BY DEF PreflightCards, Card, Covering
  <2>. QED
    BY <1>1, <2>2, <2>3, <2>4, NoChainType, ConsideredCovers
<1>3. ASSUME NEW r \in Request, Resume(r)
      PROVE  Covers'
  <2>1. CASE request[r].card = Nothing
    BY <1>1, <1>3, <2>1, EndedCovers DEF Resume
  <2>2. CASE request[r].card # Nothing
    <3>. DEFINE card == request[r].card  option == request[r].option
    <3>1. card \in AnyCard /\ option \in card.options
      BY <1>1, <2>2 DEF SearchTypeOK, States, Inv, Sound, Kept
    <3>2. option \in Options /\ card.docs \in SUBSET Doc /\ card.chain \in Chains /\ card.query \in Query
      BY <3>1 DEF AnyCard
    <3>3. Considered(r, card.query, Chosen(card.docs, option), Picked(card.chain, option), {})
      BY <1>3, <2>2 DEF Resume
    <3>. DEFINE found == Chosen(card.docs, option)  chain == Picked(card.chain, option)
    <3>. HIDE DEF card, option
    <3>4. found \in Finds /\ Clean(found) /\ chain \in Chains
      BY <3>2, ChosenType, ChosenClean, PickedType
    <3>. HIDE DEF found, chain
    <3>5. Considered(r, card.query, found, chain, {})
      BY <3>3 DEF found, chain
    <3>. QED
      BY <1>1, <3>2, <3>4, <3>5, ConsideredCovers
  <2>. QED
    BY <2>1, <2>2
<1>4. ASSUME NEW r \in Request, Propose(r)
      PROVE  Covers'
  <2>. DEFINE draft == request[r].draft
  <2>1. draft # Nothing /\ draft \in Drafts /\ Clean(draft.found)
    BY <1>1, <1>4 DEF Propose, SearchTypeOK, States, Covers
  <2>2. draft.query \in Query /\ draft.found \in Finds /\ draft.chain \in Chains
    BY <2>1 DEF Drafts
  <2>3. CASE \E card \in LLMCards(draft.query, draft.found, draft.chain) : Ended(r, "card", {}, card)
    BY <1>1, <2>1, <2>2, <2>3, LLMCardsCover, EndedCovers
  <2>4. CASE Shows(r, draft.found)
    BY <1>1, <2>4, EndedCovers DEF Shows
  <2>. QED
    BY <1>4, <2>3, <2>4 DEF Propose
<1>5. ASSUME NEW r \in Request, Fail(r)
      PROVE  Covers'
  BY <1>1, <1>5, EndedCovers DEF Fail
<1>6. ASSUME catalogue' = catalogue,
             \A r \in Request : cards'[r] \in {Nothing, cards[r]},
             \A r \in Request : request'[r].draft \in {Nothing, request[r].draft}
      PROVE  Covers'
  BY <1>6, CoversOn
<1>7. ASSUME NEW r \in Request, Lose(r) \/ Leave(r)
      PROVE  Covers'
  <2>1. catalogue' = catalogue /\ cards' = cards
    BY <1>7 DEF Lose, Leave
  <2>2. request \in [Request -> States]
    BY <1>1 DEF SearchTypeOK
  <2>3. \A s \in Request : request'[s].draft \in {Nothing, request[s].draft}
    <3>1. CASE Lose(r)
      BY <2>2, <3>1 DEF Lose, States
    <3>2. CASE Leave(r)
      BY <2>2, <3>2 DEF Leave, States
    <3>. QED
      BY <1>7, <3>1, <3>2
  <2>. QED
    BY <1>6, <2>1, <2>3
<1>8. ASSUME NEW r \in Request, Expire(r)
      PROVE  Covers'
  BY <1>1, <1>6, <1>8 DEF Expire, SearchTypeOK
<1>9. ASSUME NEW r, NEW card, NEW option, Started(r, card, option)
      PROVE  Covers'
  BY <1>1, <1>6, <1>9 DEF Started, Idle, SearchTypeOK
<1>10. ASSUME NEW r \in Request, Ask(r)
       PROVE  Covers'
  BY <1>9, <1>10 DEF Ask
<1>11. ASSUME NEW r, NEW c, NEW option, Pick(r, c, option)
       PROVE  Covers'
  BY <1>9, <1>11 DEF Pick
<1>12. ASSUME UNCHANGED searchVars
       PROVE  Covers'
  BY <1>6, <1>12 DEF searchVars
<1>13. CASE Tab
  BY <1>7, <1>10, <1>11, <1>13 DEF Tab, TabAsks, TabAnswers, TabStops
<1>14. CASE CaseStep
  <2>1. CASE Begin
    BY <1>10, <2>1 DEF Begin
  <2>2. CASE Receive \/ GiveUp
    BY <1>12, <2>2 DEF Receive, GiveUp
  <2>3. CASE Timeout
    <3>1. Leave(Current) /\ Current \in Request
      BY <2>3, CurrentWaited DEF Timeout
    <3>. QED
      BY <1>7, <3>1
  <2>4. CASE Choose
    BY <1>11, <2>4 DEF Choose
  <2>. QED
    BY <1>14, <2>1, <2>2, <2>3, <2>4 DEF CaseStep
<1>15. CASE Server
  BY <1>2, <1>3, <1>4, <1>5, <1>7, <1>8, <1>15 DEF Server, Fault, ServerStep
<1>16. CASE UNCHANGED vars
  BY <1>12, <1>16 DEF vars, searchVars
<1>. QED
  BY <1>13, <1>14, <1>15, <1>16 DEF Next

-----------------------------------------------------------------------------
(* How a case ends.  What its last request has been answered, or that its  *)
(* client has left, does not change any more, and the case has recorded it.*)

Valid(found) == found.valid => found.docs # {}

\* Documents are shown only if there are some.
Answers ==
  \A r \in Request :
    /\ reply[r] # Nothing /\ reply[r].type = "documents" => reply[r].docs # {}
    /\ request[r].draft # Nothing => Valid(request[r].draft.found)

Outcome ==
  \/ /\ reply[Current] = Nothing
     /\ request[Current].left /\ case.type = "message"
  \/ /\ reply[Current] # Nothing /\ reply[Current].type = "card"
     /\ case.type \in {"ask_user", "error"} /\ (case.type = "error" => case.gaps = {})
  \/ /\ reply[Current] # Nothing /\ reply[Current].type = "http"
     /\ case.type = "message" /\ case.http /\ case.gaps = {}
  \/ /\ reply[Current] # Nothing /\ reply[Current].type \in {"documents", "message", "error"}
     /\ case.type = reply[Current].type /\ case.gaps = {}

Judged ==
  /\ ~ HasEnded => case.gaps = {}
  /\ case.status = "deciding" \/ HasEnded => Current \in Request
  /\ case.status = "deciding" => reply[Current] # Nothing /\ reply[Current].type = "card"
  /\ HasEnded => Outcome

LEMMA ChosenValid ==
  ASSUME NEW docs, NEW option
  PROVE  Valid(Chosen(docs, option))
BY DEF Valid, Chosen, Found

LEMMA InitialValid ==
  ASSUME NEW docs, NEW q, NEW found \in Initial(docs, q)
  PROVE  Valid(found)
<1>1. ASSUME NEW kept, NEW filters, NEW valid \in BOOLEAN
      PROVE  Valid(Found(kept, filters, valid))
  BY DEF Valid, Found
<1>. QED
  BY <1>1 DEF Initial

LEMMA EndedAnswers ==
  ASSUME SearchTypeOK, Answers, NEW r \in Request, NEW type, NEW docs, NEW card,
         type = "documents" => docs # {}, Ended(r, type, docs, card)
  PROVE  Answers'
<1>. DEFINE answer == Answered(type, docs, card)
<1>1. answer.type = type /\ answer.docs = docs
  BY DEF Answered
<1>2. \A s \in Request : reply'[s] = reply[s] \/ reply'[s] = answer
  BY DEF Ended, SearchTypeOK
<1>3. \A s \in Request : request'[s].draft \in {Nothing, request[s].draft}
  BY DEF Ended, SearchTypeOK
<1>. HIDE DEF answer
<1>. QED
  BY <1>1, <1>2, <1>3 DEF Answers, Valid

LEMMA ShowsAnswers ==
  ASSUME SearchTypeOK, Answers, NEW r \in Request, NEW found, Valid(found), Shows(r, found)
  PROVE  Answers'
<1>1. CASE found.valid
  BY <1>1, EndedAnswers DEF Shows, Valid
<1>2. CASE ~ found.valid
  BY <1>2, EndedAnswers DEF Shows
<1>. QED
  BY <1>1, <1>2

LEMMA ConsideredAnswers ==
  ASSUME SearchTypeOK, Answers, NEW r \in Request, NEW q, NEW found, Valid(found), NEW chain,
         NEW first, Considered(r, q, found, chain, first)
  PROVE  Answers'
<1>1. CASE \E card : Ended(r, "card", {}, card)
  BY <1>1, EndedAnswers
<1>2. CASE Shows(r, found)
  BY <1>2, ShowsAnswers
<1>3. CASE /\ request' = [request EXCEPT ![r].state = "asking", ![r].draft = Draft(q, found, chain)]
           /\ UNCHANGED <<catalogue, cards, reply>>
  <2>1. Draft(q, found, chain).found = found
    BY DEF Draft
  <2>2. \A s \in Request : \/ request'[s].draft = request[s].draft
                           \/ request'[s].draft = Draft(q, found, chain)
    BY <1>3 DEF SearchTypeOK
  <2>. QED
    BY <1>3, <2>1, <2>2 DEF Answers, Valid
<1>. QED
  BY <1>1, <1>2, <1>3 DEF Considered

LEMMA AnswersStep ==
  ASSUME Inv, Answers, [Next]_vars
  PROVE  Answers'
<1>1. SearchTypeOK
  BY DEF Inv, TypeOK
<1>2. ASSUME NEW r \in Request, Search(r)
      PROVE  Answers'
  BY <1>1, <1>2, InitialValid, ConsideredAnswers DEF Search
<1>3. ASSUME NEW r \in Request, Resume(r)
      PROVE  Answers'
  <2>1. CASE request[r].card = Nothing
    BY <1>1, <1>3, <2>1, EndedAnswers DEF Resume
  <2>2. CASE request[r].card # Nothing
    BY <1>1, <1>3, <2>2, ChosenValid, ConsideredAnswers DEF Resume
  <2>. QED
    BY <2>1, <2>2
<1>4. ASSUME NEW r \in Request, Propose(r)
      PROVE  Answers'
  <2>1. Valid(request[r].draft.found)
    BY <1>1, <1>4 DEF Propose, SearchTypeOK, Answers
  <2>2. CASE \E card : Ended(r, "card", {}, card)
    BY <1>1, <2>2, EndedAnswers
  <2>3. CASE Shows(r, request[r].draft.found)
    BY <1>1, <2>1, <2>3, ShowsAnswers
  <2>. QED
    BY <1>4, <2>2, <2>3 DEF Propose
<1>5. ASSUME NEW r \in Request, Fail(r)
      PROVE  Answers'
  BY <1>1, <1>5, EndedAnswers DEF Fail
<1>6. ASSUME reply' = reply,
             \A r \in Request : request'[r].draft \in {Nothing, request[r].draft}
      PROVE  Answers'
  BY <1>6 DEF Answers, Valid
<1>7. ASSUME NEW r \in Request, Lose(r) \/ Leave(r) \/ Expire(r)
      PROVE  Answers'
  <2>1. CASE Lose(r)
    BY <1>1, <1>6, <2>1 DEF Lose, SearchTypeOK
  <2>2. CASE Leave(r)
    <3>1. reply' = reply /\ request' = [request EXCEPT ![r].left = TRUE]
      BY <2>2 DEF Leave
    <3>2. request \in [Request -> States]
      BY <1>1 DEF SearchTypeOK
    <3>3. \A s \in Request : request'[s].draft = request[s].draft
      BY <3>1, <3>2 DEF States
    <3>. QED
      BY <1>6, <3>1, <3>3
  <2>3. CASE Expire(r)
    BY <1>6, <2>3 DEF Expire
  <2>. QED
    BY <1>7, <2>1, <2>2, <2>3
<1>8. ASSUME NEW r, NEW card, NEW option, Started(r, card, option)
      PROVE  Answers'
  BY <1>1, <1>6, <1>8 DEF Started, Idle, SearchTypeOK
<1>9. ASSUME NEW r, Ask(r)
      PROVE  Answers'
  BY <1>8, <1>9 DEF Ask
<1>10. ASSUME NEW r, NEW c, NEW option, Pick(r, c, option)
       PROVE  Answers'
  BY <1>8, <1>10 DEF Pick
<1>11. ASSUME UNCHANGED searchVars
       PROVE  Answers'
  BY <1>6, <1>11 DEF searchVars
<1>12. CASE Tab
  BY <1>7, <1>9, <1>10, <1>12 DEF Tab, TabAsks, TabAnswers, TabStops
<1>13. CASE CaseStep
  <2>1. CASE Begin
    BY <1>9, <2>1 DEF Begin
  <2>2. CASE Receive \/ GiveUp
    BY <1>11, <2>2 DEF Receive, GiveUp
  <2>3. CASE Timeout
    <3>1. Leave(Current) /\ Current \in Request
      BY <2>3, CurrentWaited DEF Timeout
    <3>. QED
      BY <1>7, <3>1
  <2>4. CASE Choose
    BY <1>10, <2>4 DEF Choose
  <2>. QED
    BY <1>13, <2>1, <2>2, <2>3, <2>4 DEF CaseStep
<1>14. CASE Server
  BY <1>2, <1>3, <1>4, <1>5, <1>7, <1>14 DEF Server, Fault, ServerStep
<1>15. CASE UNCHANGED vars
  BY <1>11, <1>15 DEF vars, searchVars
<1>. QED
  BY <1>12, <1>13, <1>14, <1>15 DEF Next

\* The server leaves alone what a request has been answered, or its client no longer hears.
LEMMA ServerFixes ==
  ASSUME Inv, Server, NEW r \in Request, reply[r] # Nothing \/ request[r].left
  PROVE  reply'[r] = reply[r] /\ (request[r].left => request'[r].left)
<1>1. SearchTypeOK /\ request \in [Request -> States]
  BY DEF Inv, TypeOK, SearchTypeOK
<1>2. ASSUME NEW s \in Request, Busy(s), NEW type, NEW docs, NEW card, Ended(s, type, docs, card)
      PROVE  reply'[r] = reply[r] /\ (request[r].left => request'[r].left)
  <2>1. reply[s] = Nothing
    BY <1>1, <1>2 DEF SearchTypeOK, Busy
  <2>2. reply'[r] = reply[r]
    BY <1>1, <1>2, <2>1 DEF Ended, SearchTypeOK
  <2>3. request'[r].left = request[r].left
    BY <1>1, <1>2 DEF Ended, States
  <2>. QED
    BY <2>2, <2>3
<1>3. ASSUME NEW s \in Request, reply' = reply, NEW state, NEW draft,
             request' = [request EXCEPT ![s].state = state, ![s].draft = draft]
      PROVE  reply'[r] = reply[r] /\ (request[r].left => request'[r].left)
  BY <1>1, <1>3 DEF States
<1>4. ASSUME NEW s \in Request, Busy(s), NEW found, Shows(s, found)
      PROVE  reply'[r] = reply[r] /\ (request[r].left => request'[r].left)
  BY <1>2, <1>4 DEF Shows
<1>5. ASSUME NEW s \in Request, Busy(s), NEW q, NEW found, NEW chain, NEW first,
             Considered(s, q, found, chain, first)
      PROVE  reply'[r] = reply[r] /\ (request[r].left => request'[r].left)
  <2>1. \/ \E card : Ended(s, "card", {}, card)
        \/ Shows(s, found)
        \/ reply' = reply /\ request' = [request EXCEPT ![s].state = "asking",
                                                        ![s].draft = Draft(q, found, chain)]
    BY <1>5 DEF Considered
  <2>. QED
    BY <1>2, <1>3, <1>4, <1>5, <2>1
<1>6. ASSUME NEW s \in Request, Search(s) \/ Resume(s)
      PROVE  reply'[r] = reply[r] /\ (request[r].left => request'[r].left)
  <2>1. Busy(s)
    BY <1>6 DEF Search, Resume, Busy
  <2>2. CASE Search(s)
    BY <1>5, <2>1, <2>2 DEF Search
  <2>3. CASE Resume(s)
    BY <1>2, <1>5, <2>1, <2>3 DEF Resume
  <2>. QED
    BY <1>6, <2>2, <2>3
<1>7. ASSUME NEW s \in Request, Propose(s)
      PROVE  reply'[r] = reply[r] /\ (request[r].left => request'[r].left)
  <2>1. Busy(s)
    BY <1>7 DEF Propose, Busy
  <2>. QED
    BY <1>2, <1>4, <1>7, <2>1 DEF Propose
<1>8. ASSUME NEW s \in Request, Fail(s)
      PROVE  reply'[r] = reply[r] /\ (request[r].left => request'[r].left)
  BY <1>2, <1>8 DEF Fail, Busy
<1>9. ASSUME NEW s \in Request, Lose(s)
      PROVE  reply'[r] = reply[r] /\ (request[r].left => request'[r].left)
  BY <1>3, <1>9 DEF Lose
<1>10. ASSUME NEW s \in Request, Expire(s)
       PROVE  reply'[r] = reply[r] /\ (request[r].left => request'[r].left)
  BY <1>10 DEF Expire
<1>. QED
  BY <1>6, <1>7, <1>8, <1>9, <1>10 DEF Server, Fault, ServerStep

LEMMA CurrentOn ==
  ASSUME Used' = Used
  PROVE  Current' = Current
BY DEF Current

LEMMA JudgedOn ==
  ASSUME Judged, case' = case, Current' = Current,
         ASSUME Current \in Request, reply[Current] # Nothing \/ request[Current].left
         PROVE  /\ reply'[Current] = reply[Current]
                /\ request[Current].left => request'[Current].left
  PROVE  Judged'
<1>1. case.status = "deciding" \/ HasEnded =>
        /\ Current \in Request
        /\ reply'[Current] = reply[Current]
        /\ request[Current].left => request'[Current].left
  BY DEF Judged, Outcome
<1>2. HasEnded' = HasEnded
  BY DEF HasEnded
<1>3. HasEnded => Outcome'
  BY <1>1 DEF Judged, Outcome
<1>. QED
  BY <1>1, <1>2, <1>3 DEF Judged

LEMMA JudgedStep ==
  ASSUME Inv, Judged, [Next]_vars
  PROVE  Judged'
<1>1. SearchTypeOK /\ Sound
  BY DEF Inv, TypeOK
<1>2. CASE Server
  <2>1. Used' = Used
    BY <1>2, FailKeeps, LoseKeeps, ExpireKeeps, SearchKeeps, ResumeKeeps, ProposeKeeps
       DEF Inv, TypeOK, Server, Fault, ServerStep
  <2>2. case' = case
    BY <1>2 DEF Server
  <2>. QED
    BY <1>2, <2>1, <2>2, CurrentOn, ServerFixes, JudgedOn
<1>3. CASE Tab
  <2>1. case' = case /\ case = Unbegun
    BY <1>3 DEF Tab, Inv, Counted
  <2>. QED
    BY <2>1 DEF Judged, HasEnded, Unbegun, Ends
<1>4. CASE UNCHANGED vars
  <2>1. Used' = Used
    BY <1>4 DEF vars, Used
  <2>. QED
    BY <1>4, <2>1, CurrentOn, JudgedOn DEF vars
<1>5. CASE Begin \/ Choose
  <2>1. ~ HasEnded /\ case'.status = "waiting" /\ case'.gaps = case.gaps
    BY <1>5 DEF Begin, Choose, HasEnded, Ends, Inv, TypeOK
  <2>. QED
    BY <2>1 DEF Judged, HasEnded, Ends
<1>6. CASE Timeout
  <2>1. /\ Current \in Request /\ reply[Current] = Nothing /\ reply' = reply
        /\ request' = [request EXCEPT ![Current].left = TRUE]
    BY <1>6, CurrentWaited DEF Timeout, Leave
  <2>2. Current' = Current
    BY <1>1, <1>6, <2>1, LeaveKeeps, CurrentOn DEF Timeout
  <2>3. case'.status = "error_http" /\ case'.type = "message"
    BY <1>6 DEF Timeout, Stopped, Inv, TypeOK
  <2>4. request'[Current].left
    BY <1>1, <2>1 DEF SearchTypeOK, States
  <2>. QED
    BY <2>1, <2>2, <2>3, <2>4 DEF Judged, Outcome, HasEnded, Ends
<1>7. CASE GiveUp
  <2>1. /\ Current \in Request /\ reply[Current] # Nothing /\ reply[Current].type = "card"
        /\ case.gaps = {}
    BY <1>7 DEF GiveUp, Judged, HasEnded, Ends
  <2>2. reply' = reply /\ Current' = Current
    BY <1>7, CurrentOn DEF GiveUp, searchVars, Used
  <2>3. /\ case'.status \in Ends /\ case'.type \in {"ask_user", "error"}
        /\ case'.type = "error" => case'.gaps = {}
    BY <1>7, <2>1 DEF GiveUp, Stopped, Ends, Inv, TypeOK
  <2>. QED
    BY <2>1, <2>2, <2>3 DEF Judged, Outcome, HasEnded, Ends
<1>8. CASE Receive
  <2>1. /\ Current \in Request /\ reply[Current] # Nothing /\ reply[Current] \in Replies
        /\ case.status = "waiting" /\ case.gaps = {}
    BY <1>1, <1>8, CurrentWaited DEF Receive, SearchTypeOK, Judged, HasEnded, Ends
  <2>2. reply' = reply /\ Current' = Current
    BY <1>8, CurrentOn DEF Receive, searchVars, Used
  <2>3. Turns \in Nat /\ MaxTurns \in Nat
    BY InOrderType, TurnsAssumption, CountAssumption DEF Inv
  <2>. DEFINE type == reply[Current].type
  <2>4. CASE type = "card" /\ Turns < MaxTurns
    <3>1. ~ (Turns >= MaxTurns)
      BY <2>3, <2>4
    <3>2. case'.status = "deciding" /\ case'.gaps = {}
      BY <1>8, <2>1, <2>4, <3>1 DEF Receive, Inv, TypeOK
    <3>. QED
      BY <2>1, <2>2, <2>4, <3>2 DEF Judged, HasEnded, Ends
  <2>5. CASE type = "card" /\ Turns >= MaxTurns
    <3>1. ~ (Turns < MaxTurns)
      BY <2>3, <2>5
    <3>2. case'.status = "max_turns_exceeded" /\ case'.type = "ask_user"
      BY <1>8, <2>1, <2>5, <3>1 DEF Receive, Stopped, Inv, TypeOK
    <3>. QED
      BY <2>1, <2>2, <2>5, <3>2 DEF Judged, Outcome, HasEnded, Ends
  <2>6. CASE type = "http"
    <3>1. case'.status = "error_http" /\ case'.type = "message" /\ case'.http /\ case'.gaps = {}
      BY <1>8, <2>1, <2>6 DEF Receive, Stopped, Inv, TypeOK
    <3>. QED
      BY <2>1, <2>2, <2>6, <3>1 DEF Judged, Outcome, HasEnded, Ends
  <2>7. CASE type \in {"documents", "message", "error"}
    <3>1. case' = Stopped(IF reply[Current].docs # {} THEN "success_documents"
                          ELSE "success_message", type)
      BY <1>8, <2>7 DEF Receive
    <3>2. /\ case'.status \in {"success_documents", "success_message"}
          /\ case'.type = type /\ case'.gaps = {}
      BY <2>1, <3>1 DEF Stopped, Inv, TypeOK
    <3>. QED
      BY <2>1, <2>2, <2>7, <3>2 DEF Judged, Outcome, HasEnded, Ends
  <2>. QED
    BY <2>1, <2>3, <2>4, <2>5, <2>6, <2>7 DEF Replies
<1>9. CASE CaseStep
  BY <1>5, <1>6, <1>7, <1>8, <1>9 DEF CaseStep
<1>. QED
  BY <1>2, <1>3, <1>4, <1>9 DEF Next

-----------------------------------------------------------------------------
(* Theorems.                                                               *)

LEMMA Inductive == Spec => []Inv
<1>1. HarnessInit => Inv
  <2>. SUFFICES ASSUME HarnessInit
                PROVE  Inv
    OBVIOUS
  <2>1. SearchTypeOK
    BY CountAssumption DEF HarnessInit, Init, SearchTypeOK, Idle, States
  <2>2. TypeOK
    <3>1. 0 \in 0 .. MaxTurns
      BY TurnsAssumption, CountAssumption
    <3>. QED
      BY <2>1, <3>1 DEF HarnessInit, TypeOK, Unbegun, Types
  <2>3. Sound
    BY DEF HarnessInit, Init, Sound, Kept, Idle
  <2>4. Used = 1 .. 0
    BY DEF HarnessInit, Init, Used, Idle
  <2>5. Turns = 0 /\ InOrder
    BY <2>4, UsedTurns, CountAssumption DEF InOrder
  <2>6. Counted
    BY <2>5 DEF HarnessInit, Counted, Unbegun
  <2>. QED
    BY <2>2, <2>3, <2>5, <2>6 DEF Inv
<1>2. Inv /\ [Next]_vars => Inv'
  <2>. SUFFICES ASSUME Inv, [Next]_vars
                PROVE  Inv'
    OBVIOUS
  <2>1. CASE Next
    BY <2>1, ServerKeeps, TabKeeps, CaseKeeps DEF Next
  <2>2. CASE UNCHANGED vars
    <3>1. SearchTypeOK' /\ Used' = Used
      BY <2>2 DEF Inv, TypeOK, vars, SearchTypeOK, Used
    <3>2. Sound'
      BY <2>2, KeptOn DEF Inv, vars, Sound
    <3>3. InOrder' /\ Turns' = Turns
      BY <3>1, InOrderOn DEF Inv
    <3>. QED
      BY <2>2, <3>1, <3>2, <3>3 DEF Inv, TypeOK, Counted, vars
  <2>. QED
    BY <2>1, <2>2
<1>. QED
  BY <1>1, <1>2, PTL DEF Spec

\* Requests, replies, cards and the case's result are of their types; a request is answered,
\* and its card saved, only when it is over; a case asks at most max_turns times.
THEOREM TypeCorrect == Spec => []TypeOK
<1>1. Inv => TypeOK
  BY DEF Inv
<1>. QED
  BY <1>1, Inductive, PTL

\* Along any chain of cards, of the rules or of the model, everything that is shown or kept
\* for the next card satisfies all the user has picked: an option's filters and ids,
\* applied to the snapshot of its card, never bring back a document an earlier pick excluded.
THEOREM PicksAlwaysKept == Spec => []PicksAreKept
<1>1. Inv => PicksAreKept
  BY DEF Inv, Sound, Kept, SoundCard, SoundFound, PicksAreKept, Cards
<1>. QED
  BY <1>1, Inductive, PTL

\* The rules never ask twice about a facet the user has settled.
THEOREM FacetAlwaysAskedOnce == Spec => []FacetAskedOnce
<1>1. Inv => FacetAskedOnce
  BY DEF Inv, Sound, Kept, SoundCard, FacetAskedOnce, Cards
<1>. QED
  BY <1>1, Inductive, PTL

\* Every option of a card of the rules or the model finds something in the snapshot.  The
\* options of a rule's card together find all of the first MaxLooked documents that have a value
\* of its facet, or all documents of the snapshot if "other" is among them: what "other" leaves
\* out (the representatives of the explicit options) is matched by one of those.
THEOREM OptionsAlwaysCover == Spec => []OptionsCover
<1>1. HarnessInit => Covers
  BY DEF HarnessInit, Init, Covers, Idle
<1>2. Inv /\ Covers => OptionsCover
  <2>. SUFFICES ASSUME Inv, Covers, NEW card \in Cards, card.source # "preflight"
                PROVE  /\ \A o \in card.options : Chosen(card.docs, o).docs # {}
                       /\ card.source = "rule" =>
                            LET found == UNION {Chosen(card.docs, o).docs : o \in card.options}
                            IN /\ With(First(card.docs, MaxLooked), card.facet) \subseteq found
                               /\ (\E o \in card.options : o.ids # {}) => found = card.docs
    BY DEF OptionsCover
  <2>1. Covering(card)
    BY DEF Covers, Cards
  <2>. DEFINE found == UNION {Chosen(card.docs, o).docs : o \in card.options}
  <2>2. ASSUME NEW d, Covered(card, d)
        PROVE  d \in found
    BY <2>2 DEF Covered
  <2>3. ASSUME NEW d \in found
        PROVE  d \in card.docs
    BY DEF Chosen, Found, Narrowed
  <2>. HIDE DEF found
  <2>4. \A o \in card.options : Chosen(card.docs, o).docs # {}
    BY <2>1 DEF Covering
  <2>5. card.source = "rule" => With(First(card.docs, MaxLooked), card.facet) \subseteq found
    BY <2>1, <2>2 DEF Covering
  <2>6. card.source = "rule" => ((\E o \in card.options : o.ids # {}) => found = card.docs)
    BY <2>1, <2>2, <2>3 DEF Covering
  <2>. QED
    BY <2>4, <2>5, <2>6 DEF found
<1>. QED
  BY <1>1, <1>2, CoversStep, Inductive, PTL DEF Spec

\* The verdict on a case is fair: without failures it has been shown documents that satisfy
\* every answer, after the rounds it required; when the backend answered with an error, or the
\* simulated user failed, that is the only failure, whatever else happened.
THEOREM VerdictAlwaysFair == Spec => []VerdictIsFair
<1>1. HarnessInit => Answers /\ Judged
  <2>. SUFFICES ASSUME HarnessInit
                PROVE  Answers /\ Judged
    OBVIOUS
  <2>1. Answers
    BY DEF HarnessInit, Init, Idle, Answers
  <2>2. case.status = "unbegun" /\ case.gaps = {}
    BY DEF HarnessInit, Unbegun
  <2>3. ~ HasEnded
    BY <2>2 DEF HasEnded, Ends
  <2>. QED
    BY <2>1, <2>2, <2>3 DEF Judged
<1>2. Inv /\ Answers /\ Judged => VerdictIsFair
  <2>. SUFFICES ASSUME Inv, Answers, Judged, HasEnded
                PROVE  /\ BlockingFailures = {} =>
                            /\ reply[Current].type = "documents" /\ reply[Current].docs # {}
                            /\ case.asked >= RequiredRounds
                            /\ request[Current].card # Nothing =>
                                 reply[Current].docs \subseteq
                                   Picked(request[Current].card.chain, request[Current].option).wanted
                       /\ (\/ reply[Current] # Nothing /\ reply[Current].type \in {"error", "http"}
                           \/ case.type = "error") => BlockingFailures = {"HTTP_OR_RUNTIME_ERROR"}
    BY DEF VerdictIsFair
  <2>1. Current \in Request /\ Outcome
    BY DEF Judged
  <2>2. ASSUME BlockingFailures = {}
        PROVE  /\ case.type = "documents" /\ case.gaps = {} /\ ~ case.http
               /\ ~ (case.asked < RequiredRounds)
    BY <2>2 DEF BlockingFailures
  <2>3. ASSUME case.type = "documents"
        PROVE  reply[Current] # Nothing /\ reply[Current].type = "documents"
    BY <2>1, <2>3 DEF Outcome
  <2>4. case.asked \in Nat /\ RequiredRounds \in Nat
    BY TurnsAssumption DEF Inv, TypeOK
  <2>5. ASSUME BlockingFailures = {}
        PROVE  /\ reply[Current].type = "documents" /\ reply[Current].docs # {}
               /\ case.asked >= RequiredRounds
               /\ request[Current].card # Nothing =>
                    reply[Current].docs \subseteq
                      Picked(request[Current].card.chain, request[Current].option).wanted
    BY <2>1, <2>2, <2>3, <2>4, <2>5 DEF Answers, Inv, Sound, Kept
  <2>6. ASSUME \/ reply[Current] # Nothing /\ reply[Current].type \in {"error", "http"}
               \/ case.type = "error"
        PROVE  case.gaps = {} /\ (case.type = "error" \/ case.http)
    BY <2>1, <2>6 DEF Outcome
  <2>7. ASSUME case.gaps = {}, case.type = "error" \/ case.http
        PROVE  BlockingFailures = {"HTTP_OR_RUNTIME_ERROR"}
    BY <2>7 DEF BlockingFailures
  <2>. QED
    BY <2>5, <2>6, <2>7
<1>. QED
  BY <1>1, <1>2, AnswersStep, JudgedStep, Inductive, PTL DEF Spec
=============================================================================
