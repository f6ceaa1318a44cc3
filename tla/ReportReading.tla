---------------------------- MODULE ReportReading ----------------------------
(***************************************************************************)
(* The rule layer that reads a field report (ai/nlp.rs): tokens in clauses *)
(* and sentences, hazards with their denial and resolution, head counts,   *)
(* routes, places, a category and an explained severity.                   *)
(*                                                                         *)
(* A report is a sequence of words and marks that an operator writes one   *)
(* after another.  The word tables keep one or two words of every kind the *)
(* rules tell apart: what matters is where words stand, not how many       *)
(* synonyms a table lists.  Reports are shorter than MAX_TEXT_CHARS and    *)
(* name fewer than MAX_ITEMS of a kind.                                    *)
(***************************************************************************)
EXTENDS Integers, Sequences, FiniteSets, SequencesExt, FiniteSetsExt

CONSTANTS
  Topics,        \* the vocabularies reports are written in
  MaxSymbols,    \* words and marks of a report
  MaxCount       \* the largest number a u32 holds; sums wrap past it

ASSUME ReadingBounds == MaxSymbols \in Nat /\ MaxCount \in Nat /\ \A t \in Topics : IsFiniteSet(t)

VARIABLES
  report,        \* the text so far
  vocabulary,    \* the words it is written in
  facts          \* what the rules make of it

readingVars == <<report, vocabulary, facts>>

-------------------------------------------------------------------------------
(* Words and where they stand.                                             *)

Marks == {".", ","}
ClauseBreaks == {"but"}

\* Words with the clause and sentence they are in: a mark closes both or one,
\* a break word opens its own clause.
Tokens(text) ==
  LET placed == [k \in DOMAIN text |->
        [w |-> text[k],
         clause |-> Cardinality({i \in 1..k : text[i] \in Marks \cup ClauseBreaks}),
         sentence |-> Cardinality({i \in 1..k : text[i] = "."})]]
  IN SelectSeq(placed, LAMBDA x : x.w \notin Marks)

\* The word at k if there is one in the same clause as i.
WordIn(t, i, k) == IF k \in DOMAIN t /\ t[k].clause = t[i].clause THEN t[k].w ELSE ""

Negations == {"no", "zero"}
Resolution == {"contained", "reopened"}
Hedges == {"about"}

Saying(t, clause, words) == \E k \in DOMAIN t : t[k].clause = clause /\ t[k].w \in words

NegatedBefore(t, i) == \E k \in (i - 3)..(i - 1) : WordIn(t, i, k) \in Negations

Hedged(t, i) == \E k \in (i - 3)..(i - 1) : WordIn(t, i, k) \in Hedges

-------------------------------------------------------------------------------
(* Hazards and the category.                                               *)

FireGuard == {"brigade", "exit"}
MedicalGuard == {"supplies"}

\* A cue's words, its hazard and its weight in tenths.
Cue(words, hazard, weight) == [words |-> words, hazard |-> hazard, weight |-> weight]

Cues ==
  {Cue(<<"fire">>, "FIRE", 10), Cue(<<"smoke">>, "FIRE", 10), Cue(<<"blast">>, "EXPLOSION", 10),
   Cue(<<"injured">>, "MEDICAL_EMERGENCY", 10), Cue(<<"medical">>, "MEDICAL_EMERGENCY", 10),
   Cue(<<"ambulance">>, "MEDICAL_EMERGENCY", 8), Cue(<<"stuck">>, "TRAPPED_PERSONS", 8),
   Cue(<<"bridge">>, "STRUCTURAL_DAMAGE", 5), Cue(<<"trapped">>, "TRAPPED_PERSONS", 10),
   Cue(<<"missing">>, "MISSING_PERSONS", 10), Cue(<<"blocked">>, "ROAD_BLOCKAGE", 10),
   Cue(<<"no", "access">>, "ROAD_BLOCKAGE", 10), Cue(<<"flooded">>, "FLOOD", 10),
   Cue(<<"displaced">>, "EVACUATION", 10), Cue(<<"supplies">>, "RESOURCE_SHORTAGE", 6)}

HazardKinds == {c.hazard : c \in Cues}
Categories == {"FIRE", "MEDICAL", "INFRASTRUCTURE", "ROAD_BLOCKAGE", "FLOODING", "EVACUATION",
               "RESOURCE_SHORTAGE"}

\* How much a hazard speaks for a category, in halves.
CategoryWeight(hazard, category) ==
  CASE <<hazard, category>> \in {<<"FIRE", "FIRE">>, <<"FLOOD", "FLOODING">>,
                                 <<"RESOURCE_SHORTAGE", "RESOURCE_SHORTAGE">>} -> 6
    [] <<hazard, category>> \in {<<"MEDICAL_EMERGENCY", "MEDICAL">>,
                                 <<"STRUCTURAL_DAMAGE", "INFRASTRUCTURE">>} -> 5
    [] <<hazard, category>> \in {<<"EXPLOSION", "FIRE">>, <<"ROAD_BLOCKAGE", "ROAD_BLOCKAGE">>,
                                 <<"EVACUATION", "EVACUATION">>} -> 4
    [] <<hazard, category>> = <<"EXPLOSION", "INFRASTRUCTURE">> -> 2
    [] OTHER -> 0


Fits(t, i, cue) == \A k \in DOMAIN cue.words : WordIn(t, i, i + k - 1) = cue.words[k]

\* The word after a cue decides whether it names something else.  It may stand
\* in the next clause.
Guarded(t, i, cue) ==
  LET after == i + Len(cue.words)
      next == IF after \in DOMAIN t THEN t[after].w ELSE ""
  IN \/ cue.hazard = "FIRE" /\ next \in FireGuard
     \/ cue.words = <<"medical">> /\ next \in MedicalGuard

Mention(t, i, cue) ==
  [hazard |-> cue.hazard, at |-> i, weight |-> cue.weight, clause |-> t[i].clause,
   negated |-> NegatedBefore(t, i),
   resolved |-> ~NegatedBefore(t, i) /\ Saying(t, t[i].clause, Resolution),
   headline |-> t[i].sentence = 0]

\* A cue is passed over when its hazard was mentioned at most two words before.
Hazards(t) ==
  LET found[i \in 0..Len(t)] ==
        IF i = 0 THEN {}
        ELSE found[i - 1] \cup
             {Mention(t, i, cue) :
                cue \in {c \in Cues : /\ Fits(t, i, c) /\ ~Guarded(t, i, c)
                                      /\ \A m \in found[i - 1] : m.hazard = c.hazard =>
                                                                   i > m.at + 2}}
  IN found[Len(t)]

ActiveHazards(mentions) == {m.hazard : m \in {x \in mentions : ~x.negated /\ ~x.resolved}}

\* In 1/400: a hazard's strongest active cue, more when a headline names it.
Score(mentions, category) ==
  LET of(h) == {m \in mentions : m.hazard = h /\ ~m.negated /\ ~m.resolved}
  IN MapThenSumSet(LAMBDA h : Max({m.weight : m \in of(h)})
                             * CategoryWeight(h, category)
                             * (IF \E m \in of(h) : m.headline THEN 27 ELSE 20),
                   ActiveHazards(mentions))

\* The best score wins, the hazard mentioned first breaks a tie.
Category(mentions, score) ==
  LET first(c) == Min({m.at : m \in {x \in mentions : /\ ~x.negated /\ ~x.resolved
                                                      /\ CategoryWeight(x.hazard, c) > 0}})
      best == {c \in Categories : score[c] > 0 /\ \A d \in Categories : score[d] <= score[c]}
  IN IF best = {} THEN "OTHER" ELSE CHOOSE c \in best : \A d \in best : first(c) <= first(d)

Scores(mentions) == [c \in Categories |-> Score(mentions, c)]

\* Percent: the winner's share, less when the evidence is thin.
Share(top, total) ==
  LET strength == IF top < 1200 THEN top ELSE 1200
  IN (200 * ((top * strength) \div 1200) + total) \div (2 * total)

Confidence(category, score) ==
  IF category = "OTHER" THEN 0
  ELSE Share(score[category], MapThenSumSet(LAMBDA c : score[c], Categories))

-------------------------------------------------------------------------------
(* Numbers and people.                                                     *)

Unstated == -1     \* people without a number, or no people
Articles == {"a"}
Vague == {"several"}
Numerals == [w \in {"one", "a", "5", "10", "most", "zero"} |->
               CASE w \in {"one", "a"} -> 1 [] w = "5" -> 5 [] w = "10" -> 10
                 [] w = "most" -> MaxCount [] OTHER -> 0]
Ranges == [w \in {"5-6"} |-> 6]
Collectives == [w \in {"couple", "dozen"} |-> IF w = "couple" THEN 2 ELSE 12]
Tens == [w \in {"twenty"} |-> 20]
Units == [w \in {"one", "couple"} |-> IF w = "one" THEN 1 ELSE 2]

Number(value, approximate, len) == [value |-> value, approximate |-> approximate, len |-> len]

WordAt(t, i) == IF i \in DOMAIN t THEN t[i].w ELSE ""

\* The number that begins at i, if one does: an article before a collective and
\* the "of" after one belong to it, a unit in words completes a ten.
NumberFrom(t, i, w, next) ==
  LET of(k) == IF WordAt(t, k) = "of" THEN 1 ELSE 0
  IN CASE w \in Vague -> {Number(Unstated, TRUE, 1)}
       [] w \in DOMAIN Ranges -> {Number(Ranges[w], TRUE, 1)}
       [] w \in Articles /\ next \in DOMAIN Collectives ->
            {Number(Collectives[next], next = "couple", 2 + of(i + 2))}
       [] w \in DOMAIN Tens /\ next \in DOMAIN Units ->
            {Number(Tens[w] + Units[next], FALSE, 2)}
       [] w \in DOMAIN Tens /\ next \notin DOMAIN Units -> {Number(Tens[w], FALSE, 1)}
       [] w \in DOMAIN Collectives -> {Number(Collectives[w], w = "couple", 1 + of(i + 1))}
       [] w \in DOMAIN Numerals /\ ~(w \in Articles /\ next \in DOMAIN Collectives) ->
            {Number(Numerals[w], FALSE, 1)}
       [] OTHER -> {}

NumberAt(t, i) == NumberFrom(t, i, t[i].w, WordAt(t, i + 1))

PersonNouns == {"people", "residents", "child", "injured", "trapped", "dead", "missing"}
PluralNouns == {"residents"}
PersonAdjectives == {"elderly"}

\* Statuses from the worst, and the words that tell them.
Fates == <<"DECEASED", "TRAPPED", "MISSING", "INJURED", "AT_RISK", "DISPLACED", "AFFECTED">>
StatusWords == [f \in Range(Fates) |->
  CASE f = "DECEASED" -> {"dead"} [] f = "TRAPPED" -> {"trapped", "stuck"} [] f = "MISSING" -> {"missing"}
    [] f = "INJURED" -> {"injured", "medical"} [] f = "AT_RISK" -> {"awaiting"}
    [] f = "DISPLACED" -> {"displaced"} [] OTHER -> {"affected"}]

\* The noun a number counts: at most two adjectives may stand before it.
HeadNoun(t, i, n) ==
  LET between(k) == WordIn(t, i, k) \in PersonAdjectives
  IN CASE ~between(i + n) -> i + n
       [] between(i + n) /\ ~between(i + n + 1) -> i + n + 1
       [] OTHER -> i + n + 2

CountsPeople(t, i, n) ==
  WordIn(t, i, HeadNoun(t, i, n))
    \in PersonNouns \ (IF t[i].w \in Articles THEN PluralNouns ELSE {})

\* The worst status the noun or the seven words after it tell.
StatusAt(t, i, head) ==
  LET worst(told) == IF told = {} THEN "AFFECTED" ELSE Fates[Min(told)]
  IN worst({k \in DOMAIN Fates : \E j \in head..(head + 7) :
                                    WordIn(t, i, j) \in StatusWords[Fates[k]]})

HeadcountOf(t, i, number, head) ==
  [count |-> number.value, at |-> i, head |-> head, last |-> head,
   approximate |-> number.approximate \/ Hedged(t, i),
   status |-> StatusAt(t, i, head),
   subset |-> WordAt(t, head + 1) = "of" /\ WordAt(t, head + 2) = "them"]

Headcount(t, i, number) == HeadcountOf(t, i, number, HeadNoun(t, i, number.len))

\* What starts at each word, from the left, and nothing inside what was found before.
FromLeft(t, at) ==
  LET taken(before, new) ==
        IF new = {} THEN before
        ELSE [found |-> before.found \cup new, next |-> (CHOOSE x \in new : TRUE).last + 1]
      upTo[i \in 0..Len(t)] ==
        IF i = 0 THEN [found |-> {}, next |-> 1]
        ELSE IF i < upTo[i - 1].next THEN upTo[i - 1] ELSE taken(upTo[i - 1], at[i])
  IN upTo[Len(t)].found

People(t) ==
  FromLeft(t, [i \in DOMAIN t |->
                 {Headcount(t, i, n) : n \in {x \in NumberAt(t, i) : CountsPeople(t, i, x.len)}}])

\* Mutant of Summary: counts of one status are added up.
AddedUp(people) ==
  LET most(f, counted) ==
        IF {m \in counted : m.status = f /\ m.count # Unstated} = {} THEN Unstated
        ELSE MapThenSumSet(LAMBDA m : IF m.count = Unstated THEN 0 ELSE m.count,
                           {m \in counted : m.status = f})
      risk == {f \in {"TRAPPED", "MISSING", "INJURED", "AT_RISK"} :
                 most(f, {m \in people : ~m.subset}) # Unstated}
  IN [f \in Range(Fates) |-> most(f, people)]
     @@ ("risk" :> (IF risk = {} THEN Unstated
                    ELSE MapThenSumSet(LAMBDA f : most(f, {m \in people : ~m.subset}), risk)
                         % (MaxCount + 1)))
     @@ ("approximate" :> \E m \in people : m.approximate /\ m.count # Unstated)

\* Per status the largest stated count.  Those at risk are a sum over statuses
\* that leaves subsets out, in 32 bits.
Summary(people) ==
  LET most(f, counted) == Max({Unstated} \cup {m.count : m \in {x \in counted : x.status = f}})
      whole == {m \in people : ~m.subset}
      risk == {f \in {"TRAPPED", "MISSING", "INJURED", "AT_RISK"} : most(f, whole) # Unstated}
  IN [f \in Range(Fates) |-> most(f, people)]
     @@ ("risk" :> (IF risk = {} THEN Unstated
                    ELSE MapThenSumSet(LAMBDA f : most(f, whole), risk) % (MaxCount + 1)))
     @@ ("approximate" :> \E m \in people : m.approximate /\ m.count # Unstated)

-------------------------------------------------------------------------------
(* Routes, places and structures, each the span of words that names it.    *)

RoadIds == {"nh48"}
RoadNouns == {"road", "bridge", "access", "exit"}
BareNouns == {"access", "exit"}
RoadModifiers == {"main", "access", "road"}
Directions == {"north"}
Capitals == {"Abu", "Block", "Q"}                \* written with a capital
Identifiers == {"Q", "5", "10", "5-6", "nh48"}   \* short, a digit or one capital
BlockingWords == {"blocked", "flooded"}
OpenWords == {"reopened"}

BlockedIn(t, clause) ==
  /\ \E k \in DOMAIN t : t[k].clause = clause /\ t[k].w \in BlockingWords /\ ~NegatedBefore(t, k)
  /\ ~Saying(t, clause, OpenWords)

Qualifies(t, i, k) ==
  \/ WordIn(t, i, k) \in Directions \cup RoadModifiers \cup RoadIds
  \/ WordIn(t, i, k) \in Capitals /\ k > 1 /\ t[k - 1].sentence = t[i].sentence

\* A road's noun with up to three qualifiers before it, and after it an
\* identifier or where it leads.
RouteSpan(t, i) ==
  LET first == Min({f \in (i - 3)..i : f >= 1 /\ \A k \in f..(i - 1) : Qualifies(t, i, k)})
      to == i + 2 + (IF WordAt(t, i + 2) = "the" THEN 1 ELSE 0)
      last == CASE WordIn(t, i, i + 1) \in Identifiers \cup RoadIds -> i + 1
                [] /\ WordIn(t, i, i + 1) = "from"
                   /\ WordIn(t, i, to) \in Directions \cup Capitals -> to
                [] OTHER -> i
  IN IF t[i].w \in RoadIds THEN <<i, i>> ELSE <<first, last>>

SpanText(t, span) == [k \in 1..(span[2] - span[1] + 1) |-> t[span[1] + k - 1].w]

\* Names of roads; a noun alone may say nothing.
RouteNames(t) ==
  LET name(i, span) == [text |-> SpanText(t, span), clause |-> t[i].clause, last |-> span[2],
                        bare |-> span = <<i, i>> /\ t[i].w \in BareNouns]
      named == [i \in DOMAIN t |-> IF t[i].w \notin RoadNouns \cup RoadIds THEN {}
                                   ELSE {name(i, RouteSpan(t, i))}]
  IN {x \in FromLeft(t, named) : ~x.bare}

\* A route that is named again keeps a blockage it once had.
Routes(t) ==
  LET merged(names) ==
        {[text |-> x.text,
          blocked |-> \E y \in names : y.text = x.text /\ BlockedIn(t, y.clause)] : x \in names}
  IN merged(RouteNames(t))

LocationHeads == {"Block"}
PlaceNouns == {"bank", "Block"}
Prepositions == {"near"}

\* "Block Q", "north bank", and capitalised words after a preposition.
PlaceSpans(t) ==
  LET named(i) == {<<i, i + 1>> : x \in {y \in {1} : /\ t[i].w \in LocationHeads
                                                     /\ WordIn(t, i, i + 1) \in Identifiers}}
      directed(i) == {<<i, i + 1>> : x \in {y \in {1} : /\ t[i].w \in Directions
                                                       /\ WordIn(t, i, i + 1) \in PlaceNouns}}
      first(i) == i + 1 + (IF WordAt(t, i + 1) = "the" THEN 1 ELSE 0)
      joins(i, k) == WordIn(t, i, k) \in Capitals \cup (IF k > first(i) THEN {"of"} \cup Identifiers
                                                      ELSE {})
      run(i) == {l \in first(i)..(first(i) + 3) :
                   /\ \A k \in first(i)..l : joins(i, k)
                   /\ WordAt(t, l) # "of"}
      after(i) == IF t[i].w \notin Prepositions \/ run(i) = {} THEN {}
                  ELSE {s \in {<<first(i), Max(run(i))>>} :
                          t[s[1]].w \in LocationHeads => s[2] > s[1]}
  IN UNION {named(i) \cup directed(i) \cup after(i) : i \in DOMAIN t}

\* The letters of one name are in a longer one: of these words only "5" begins
\* another, so that "Block 5" is in "Block 5-6".
Inside(a, b) ==
  LET begins(v, w) == v = w \/ <<v, w>> = <<"5", "5-6">>
  IN /\ a # b
     /\ \E k \in 0..(Len(b) - Len(a)) :
          \A j \in DOMAIN a : IF j = Len(a) THEN begins(a[j], b[k + j]) ELSE a[j] = b[k + j]

\* Mutant of Locations: a fragment that is found after its longer name stays.
FirstSeen(t) ==
  {SpanText(t, s) : s \in {x \in PlaceSpans(t) : \A y \in PlaceSpans(t) :
     y[1] < x[1] => ~Inside(SpanText(t, x), SpanText(t, y))}}

\* A name whose letters are in a longer one is dropped.
Locations(t) ==
  LET whole(texts) == {a \in texts : \A b \in texts : ~Inside(a, b)}
  IN whole({SpanText(t, s) : s \in PlaceSpans(t)})

StructureNouns == {"houses", "Block"}
\* Inflected words, stopwords, numbers and identifiers do not qualify a noun.
Qualifiers ==
  {"Abu", "main", "road", "north", "fire", "smoke", "supplies", "bank", "bridge", "houses"}

\* A structure's noun with the word that qualifies it; not when an identifier
\* follows, for then it is a place.
Structures(t) ==
  {SpanText(t, <<(IF WordIn(t, i, i - 1) \in Qualifiers THEN i - 1 ELSE i), i>>) :
     i \in {k \in DOMAIN t : /\ t[k].w \in StructureNouns
                             /\ WordIn(t, k, k + 1) \notin Identifiers}}

Organisations == {<<"fire", "brigade">>, <<"ambulance", "service">>}

\* Where a listed name is written, across marks too.
Listed(t, names) ==
  {i \in DOMAIN t : \E name \in names : \A k \in DOMAIN name : WordAt(t, i + k - 1) = name[k]}

QuantityUnits == {"houses"}

\* Numbers with a unit that is not a person.
Quantities(t) ==
  LET counted(i, n) == /\ t[i].w \notin Articles /\ n.value # Unstated
                       /\ WordAt(t, i + n.len) \in QuantityUnits
  IN FromLeft(t, [i \in DOMAIN t |-> {[value |-> n.value, at |-> i, last |-> i + n.len] :
                                         n \in {x \in NumberAt(t, i) : counted(i, x)}}])

-------------------------------------------------------------------------------
(* Severity.                                                               *)

EscalationWords == {"spreading"}
DeescalationWords == {"contained", "reopened"}
CriticalAt == 9
HighAt == 5
MediumAt == 2
Levels == <<"LOW", "MEDIUM", "HIGH", "CRITICAL">>

Urgent(t, words) == {t[k].w : k \in {j \in DOMAIN t : t[j].w \in words /\ ~NegatedBefore(t, j)}}

HazardPoints == [h \in HazardKinds |->
  CASE h = "EXPLOSION" -> 4 [] h = "FIRE" -> 3 [] h \in {"STRUCTURAL_DAMAGE", "FLOOD"} -> 2
    [] h \in {"RESOURCE_SHORTAGE", "EVACUATION"} -> 1 [] OTHER -> 0]


\* Points for one kind of fate: a stated number, people without a number, or a
\* hazard that implies them.
FatePoints(fate, n, vague, active) ==
  CASE fate = "DECEASED" -> (IF n > 0 THEN 6 ELSE IF vague THEN 5 ELSE 0)
    [] fate = "TRAPPED" -> (IF n >= 5 THEN 5
                            ELSE IF n > 0 \/ vague \/ "TRAPPED_PERSONS" \in active THEN 4 ELSE 0)
    [] fate = "MISSING" -> (IF n > 0 \/ "MISSING_PERSONS" \in active THEN 3 ELSE 0)
    [] fate = "INJURED" -> (IF n >= 10 THEN 4 ELSE IF n >= 3 THEN 3 ELSE IF n > 0 THEN 2
                            ELSE IF vague THEN 3 ELSE 0)
    [] OTHER -> 0

SeverityScore(mentions, people, summary, blocked, up, down) ==
  LET active == ActiveHazards(mentions)
      points(f) == FatePoints(f, summary[f], \E m \in people : m.status = f /\ m.count = Unstated,
                              active)
      stake == \E f \in Range(Fates) : points(f) > 0
      affected == Max({0, summary["AFFECTED"], summary["DISPLACED"]})
      most(n, set) == IF Cardinality(set) < n THEN Cardinality(set) ELSE n
  IN MapThenSumSet(points, Range(Fates))
     + (IF points("INJURED") = 0 /\ "MEDICAL_EMERGENCY" \in active THEN 1 ELSE 0)
     + (IF affected >= 100 THEN 3 ELSE IF affected >= 20 THEN 2 ELSE IF affected >= 1 THEN 1 ELSE 0)
     + MapThenSumSet(LAMBDA h : HazardPoints[h], active)
     + (IF ~blocked THEN 0 ELSE IF stake THEN 2 ELSE 1)
     + most(2, up) - most(3, down)
     - (IF ~stake /\ \E m \in mentions : m.hazard = "MEDICAL_EMERGENCY" /\ m.negated
        THEN 1 ELSE 0)

Level(score) ==
  IF score >= CriticalAt THEN 4 ELSE IF score >= HighAt THEN 3 ELSE IF score >= MediumAt THEN 2 ELSE 1

-------------------------------------------------------------------------------
(* The whole reading, and the operator who writes.                         *)

Blocked(mentions, routes) ==
  (\E r \in routes : r.blocked) \/ "ROAD_BLOCKAGE" \in ActiveHazards(mentions)

Record(t, mentions, score, people, routes, blocked, points) ==
  [hazards |-> mentions, people |-> people, routes |-> routes, blocked |-> blocked,
   locations |-> Locations(t), structures |-> Structures(t), quantities |-> Quantities(t),
   category |-> Category(mentions, score), confidence |-> Confidence(Category(mentions, score), score),
   score |-> points, level |-> Level(points)]

\* What is found in the tokens goes into the severity and the record of the reading.
Reading(t, mentions, people, summary, routes, blocked) ==
  Record(t, mentions, Scores(mentions), summary, routes, blocked,
         SeverityScore(mentions, people, summary, blocked,
                       Urgent(t, EscalationWords), Urgent(t, DeescalationWords)))

Found(t, mentions, people, routes) ==
  Reading(t, mentions, people, Summary(people), routes, Blocked(mentions, routes))

ReadTokens(t) == Found(t, Hazards(t), People(t), Routes(t))

Extract(text) == ReadTokens(Tokens(text))

ReportInit == report = <<>> /\ vocabulary \in Topics /\ facts = Extract(<<>>)

Write(symbol) ==
  /\ Len(report) < MaxSymbols
  /\ report' = Append(report, symbol)
  /\ facts' = Extract(report')
  /\ UNCHANGED vocabulary

ReportNext == \E symbol \in vocabulary : Write(symbol)

ReportSpec == ReportInit /\ [][ReportNext]_readingVars

-------------------------------------------------------------------------------
(* Correctness.                                                            *)

\* The words of one clause, as a report of their own.
Alone(t, clause) ==
  LET said == SelectSeq(t, LAMBDA x : x.clause = clause)
  IN [k \in DOMAIN said |-> said[k].w]

\* What is wrong in a report is wrong in one of its clauses: no two clauses together
\* make an active hazard or a blocked route that none of them tells by itself
\* (BlockedIn and the denials look at a clause, matching does not cross one).
ClausesStandAlone ==
  LET standsAlone(t, whole) ==
        LET clauses == {ReadTokens(Tokens(Alone(t, t[k].clause))) : k \in DOMAIN t}
        IN /\ \A h \in ActiveHazards(whole.hazards) :
                \E c \in clauses : h \in ActiveHazards(c.hazards)
           /\ whole.blocked => \E c \in clauses : c.blocked
  IN standsAlone(Tokens(report), facts)

\* A report that says everything twice counts nobody twice and loses nothing: the same
\* people (summarise_people takes the largest count of a status, not the sum), the same
\* routes with the same blockages, and what was active still is.  A hazard that was
\* denied may become active: detect_hazards passes over a cue two words after another.
RepetitionCountsOnce ==
  LET same(once, twice) ==
        /\ twice.people = once.people
        /\ twice.routes = once.routes
        /\ ActiveHazards(once.hazards) \subseteq ActiveHazards(twice.hazards)
  IN report # <<>> => same(facts, Extract(report \o <<".">> \o report))

\* Counted people who were trapped and not injured, or who died and were not trapped,
\* never make the score smaller if the report tells that fate of nobody else: the points
\* of every fate and number are in order, as the comment on assess_severity promises, for
\* everything else a report says.  (Two groups with one fate score as one.)
WorseFateWorseScore ==
  \A fate \in {<<"injured", "trapped">>, <<"trapped", "dead">>} :
    LET counted == \E m \in People(Tokens(report)) :
                     m.count # 0 /\ WordAt(Tokens(report), m.head) = fate[1]
        others == CHOOSE words \in Range(StatusWords) : fate[2] \in words
        worse == [i \in DOMAIN report |-> IF report[i] = fate[1] THEN fate[2] ELSE report[i]]
    IN (fate[1] \in Range(report) /\ Range(report) \cap others = {} /\ counted)
         => Extract(worse).score >= facts.score

\* A place is named once: no name among the locations is in another ("Abu" beside "Abu
\* Block Q"), and a place that was read is there or its letters are in one that is.  The
\* name of an organisation ("fire brigade") is not heard as a hazard where its word has a
\* guard; "ambulance" has none.
PlacesAreWhole ==
  LET whole(t, e) ==
        /\ \A a, b \in e.locations : ~Inside(a, b)
        /\ \A s \in PlaceSpans(t) : \E a \in e.locations :
             a = SpanText(t, s) \/ Inside(SpanText(t, s), a)
        /\ \A i \in Listed(t, Organisations), m \in e.hazards :
             m.at = i => t[i].w = "ambulance"
  IN whole(Tokens(report), facts)


=============================================================================
