------------------------------ MODULE InsightPool ------------------------------
(***************************************************************************)
(* What a node derives from the incidents it holds (ai/insight.rs):        *)
(* related reports, the category and severity shown with an incident, and  *)
(* the situation brief with its groups of reports of one event.            *)
(*                                                                         *)
(* Incidents arrive one by one and get their vectors later; candidates()   *)
(* reads those of the model in use.  Scores are in thousandths.  A vector  *)
(* is a point, and Cosine what the vectors of two points score.            *)
(***************************************************************************)
EXTENDS ReportReading, WordOverlap

CONSTANTS
  Filings,       \* incidents that may arrive: [text, at, operator]
  PointOf,       \* the point a text is embedded at
  Cosine,        \* similarity of two points, in thousandths
  Prototypes,    \* the point of each category's description
  MaxPool,       \* incidents held
  MaxRelated,    \* MAX_RELATED
  MaxPriorities, \* MAX_PRIORITIES
  MaxRoutes      \* MAX_ROUTES

ASSUME PoolBounds == {MaxPool, MaxRelated, MaxPriorities, MaxRoutes} \subseteq Nat

VARIABLES
  pool,          \* the incidents this node holds, newest first
  indexed        \* positions in it of those that have a vector

poolVars == <<pool, indexed>>

-------------------------------------------------------------------------------
(* Similarity of two reports.                                              *)

DuplicateMin == [semantic |-> 930, lexical |-> 750]
PossibleMin == [semantic |-> 860, lexical |-> 550]
RelatedMin == [semantic |-> 760, lexical |-> 300]

\* Share of two sets that is common to both, as a pair <<part, whole>>.
Jaccard(a, b) ==
  IF a \cup b = {} THEN <<0, 1>> ELSE <<Cardinality(a \cap b), Cardinality(a \cup b)>>

LexicalScore(words, shared, hazards) ==
  IF hazards = {} THEN (1000 * words[1]) \div words[2]
  ELSE (700 * words[1] * shared[2] + 300 * shared[1] * words[2]) \div (words[2] * shared[2])

LexicalSimilarity(a, b) ==
  LET active(c) == ActiveHazards(c.reading.hazards)
  IN LexicalScore(Jaccard(ContentStems(a.text), ContentStems(b.text)),
                  Jaccard(active(a), active(b)), active(a) \cup active(b))

\* The bands of a score.  "" is no relation.
RelationFor(score, method) ==
  CASE score >= DuplicateMin[method] -> "DUPLICATE"
    [] /\ score < DuplicateMin[method]
       /\ score >= PossibleMin[method] -> "POSSIBLE_DUPLICATE"
    [] /\ score < PossibleMin[method]
       /\ score >= RelatedMin[method] -> "RELATED"
    [] OTHER -> ""

Strength == [r \in {"DUPLICATE", "POSSIBLE_DUPLICATE", "RELATED"} |->
               CASE r = "DUPLICATE" -> 1 [] r = "POSSIBLE_DUPLICATE" -> 2 [] OTHER -> 3]

\* Semantic when both have a vector, lexical otherwise.
Similarity(held, vs, i, j) ==
  IF {i, j} \subseteq vs
  THEN [score |-> Cosine[PointOf[held[i].text], PointOf[held[j].text]], method |-> "semantic"]
  ELSE [score |-> LexicalSimilarity(held[i], held[j]), method |-> "lexical"]

Named(s) == [relation |-> RelationFor(s.score, s.method), score |-> s.score]

\* How every two reports relate.
Relations(held, vs) == [i, j \in DOMAIN held |-> Named(Similarity(held, vs, i, j))]

-------------------------------------------------------------------------------
(* One incident.                                                           *)

SemanticMin == 550
SemanticMargin == 20
LexicalConfidenceMin == 25

\* The closest category, if it is close enough and clearly ahead; a set of one.
SemanticCategory(point) ==
  {c \in DOMAIN Prototypes :
     /\ Cosine[point, Prototypes[c]] >= SemanticMin
     /\ \A d \in DOMAIN Prototypes \ {c} :
          Cosine[point, Prototypes[c]] - Cosine[point, Prototypes[d]] >= SemanticMargin}

\* Rules when they are confident, else the semantic category, else the rules.
ChooseCategory(reading, semantic) ==
  LET lexical == reading.category # "OTHER"
  IN CASE lexical /\ reading.confidence >= LexicalConfidenceMin -> reading.category
       [] /\ ~(lexical /\ reading.confidence >= LexicalConfidenceMin)
          /\ semantic # {} -> CHOOSE c \in semantic : TRUE
       [] OTHER -> reading.category

\* The others that relate to i, the strongest first and no more than are shown.
RelatedIncidents(held, rel, i) ==
  LET related == {j \in DOMAIN held \ {i} : rel[i, j].relation # ""}
      rank(j) == Strength[rel[i, j].relation]
      before(j, k) == \/ rank(j) < rank(k)
                      \/ rank(j) = rank(k) /\ rel[i, j].score > rel[i, k].score
                      \/ rank(j) = rank(k) /\ rel[i, j].score = rel[i, k].score /\ j < k
  IN {j \in related : Cardinality({k \in related : before(k, j)}) < MaxRelated}

Apart(a, b) == IF a > b THEN a - b ELSE b - a

\* Mutant of Corroborating: reports of the same event corroborate each other.
AllOfADay(held, rel, i) ==
  {j \in RelatedIncidents(held, rel, i) : Apart(held[i].at, held[j].at) <= 24}

Corroborating(held, rel, i) ==
  {j \in RelatedIncidents(held, rel, i) :
     rel[i, j].relation = "RELATED" /\ Apart(held[i].at, held[j].at) <= 24}

\* Two or more related reports of one day raise the derived severity by a point.
DerivedScore(held, rel, i) ==
  held[i].reading.score + (IF Cardinality(Corroborating(held, rel, i)) >= 2 THEN 1 ELSE 0)

Insight(held, vs, rel, i) ==
  LET shown(score) ==
        [category |-> ChooseCategory(held[i].reading,
                                     IF i \in vs THEN SemanticCategory(PointOf[held[i].text])
                                     ELSE {}),
         related |-> RelatedIncidents(held, rel, i),
         score |-> score,
         level |-> Level(score),
         differs |-> Level(score) # held[i].operator]
  IN shown(DerivedScore(held, rel, i))

-------------------------------------------------------------------------------
(* The situation brief.                                                    *)

\* The root of i under parent, which links are halved on the way to.
Root(parent, i) ==
  LET up[k \in 0..Len(parent)] == IF k = 0 THEN i ELSE parent[up[k - 1]] IN up[Len(parent)]

\* Mutant of Joined: only the second report is moved to the group of the first.
JoinedOne(parent, i, j) == [parent EXCEPT ![j] = Root(parent, i)]

Joined(parent, i, j) == [parent EXCEPT ![Root(parent, j)] = Root(parent, i)]

\* Every pair i < j in turn: duplicates get one root.
Parents(rel, n) ==
  LET after[k \in 0..(n * n)] ==
        IF k = 0 THEN [i \in 1..n |-> i]
        ELSE LET i == ((k - 1) \div n) + 1
                 j == ((k - 1) % n) + 1
             IN IF i < j /\ rel[i, j].relation = "DUPLICATE"
                THEN Joined(after[k - 1], i, j) ELSE after[k - 1]
  IN after[n * n]

GroupsUnder(parent) ==
  LET group(r) == {i \in DOMAIN parent : Root(parent, i) = r}
  IN {g \in {group(r) : r \in DOMAIN parent} : Cardinality(g) > 1}

DuplicateGroups(rel, n) == GroupsUnder(Parents(rel, n))

\* Sums stop at the largest 32-bit number.
Saturated(sum) == IF sum > MaxCount THEN MaxCount ELSE sum

BriefFates == {"DECEASED", "TRAPPED", "MISSING", "INJURED", "risk"}

\* Mutant of PeopleTotals: a report without people clears what was approximate.
TotalsOfTheLast(held) ==
  LET told(i) == {f \in BriefFates : held[i].reading.people[f] # Unstated}
      sum(f) == Saturated(MapThenSumSet(LAMBDA i : held[i].reading.people[f],
                                        {i \in DOMAIN held : f \in told(i)}))
      last == Max({0} \cup {i \in DOMAIN held : told(i) # {}})
  IN [f \in BriefFates |-> sum(f)]
     @@ ("reports" :> Cardinality({i \in DOMAIN held : told(i) # {}}))
     @@ ("approximate" :> (last # 0 /\ held[last].reading.people["approximate"]))

PeopleTotals(held) ==
  LET told(i) == {f \in BriefFates : held[i].reading.people[f] # Unstated}
      sum(f) == Saturated(MapThenSumSet(LAMBDA i : held[i].reading.people[f],
                                        {i \in DOMAIN held : f \in told(i)}))
  IN [f \in BriefFates |-> sum(f)]
     @@ ("reports" :> Cardinality({i \in DOMAIN held : told(i) # {}}))
     @@ ("approximate" :> \E i \in DOMAIN held :
                            told(i) # {} /\ held[i].reading.people["approximate"])

BlockedRoutes(held, i) == {r.text : r \in {x \in held[i].reading.routes : x.blocked}}

\* Routes from the newest report on while the list has room.
ListedRoutes(held) ==
  LET upTo[i \in 0..Len(held)] ==
        IF i = 0 THEN {}
        ELSE LET room == MaxRoutes - Cardinality(upTo[i - 1])
                 new == BlockedRoutes(held, i) \ upTo[i - 1]
             IN IF Cardinality(new) <= room THEN upTo[i - 1] \cup new
                ELSE upTo[i - 1] \cup (CHOOSE s \in SUBSET new : Cardinality(s) = room)
  IN upTo[Len(held)]

\* The worst reports: by score, then what the operator said, then the newest.
Priorities(held) ==
  LET score == [i \in DOMAIN held |-> held[i].reading.score]
      before(j, k) ==
        \/ score[j] > score[k]
        \/ score[j] = score[k] /\ held[j].operator > held[k].operator
        \/ /\ score[j] = score[k] /\ held[j].operator = held[k].operator
           /\ (held[j].at > held[k].at \/ (held[j].at = held[k].at /\ j < k))
  IN {i \in DOMAIN held : Cardinality({k \in DOMAIN held : before(k, i)}) < MaxPriorities}

Brief(held, vs) ==
  [considered |-> Len(held),
   categories |-> [c \in {held[i].reading.category : i \in DOMAIN held} |->
                     Cardinality({i \in DOMAIN held : held[i].reading.category = c})],
   levels |-> [l \in 1..4 |-> Cardinality({i \in DOMAIN held : held[i].reading.level = l})],
   people |-> PeopleTotals(held),
   routes |-> ListedRoutes(held),
   priorities |-> Priorities(held),
   groups |-> DuplicateGroups(Relations(held, vs), Len(held)),
   semantic |-> vs # {}]

-------------------------------------------------------------------------------
(* Incidents arrive, and the indexer gets to them.                         *)

PoolInit == pool = <<>> /\ indexed = {}

\* The newest incident goes first, so what is indexed moves on by one.
Arrive(filing) ==
  /\ Len(pool) < MaxPool
  /\ \A i \in DOMAIN pool : pool[i].at <= filing.at
  /\ pool' = <<filing @@ [reading |-> Extract(filing.text)]>> \o pool
  /\ indexed' = {i + 1 : i \in indexed}

Vectorise(i) ==
  /\ i \notin indexed
  /\ indexed' = indexed \cup {i}
  /\ UNCHANGED pool

PoolNext ==
  \/ \E filing \in Filings : Arrive(filing)
  \/ \E i \in DOMAIN pool : Vectorise(i)

-------------------------------------------------------------------------------
(* Correctness.                                                            *)

\* The groups are the connected groups of the duplicate relation, none missing and none
\* joined by less: a set is a group if it is closed under duplicates and no part of it is.
GroupsAreComponents ==
  LET components(rel) ==
        LET closed(g) == \A i, j \in DOMAIN pool :
                           (i \in g /\ j \notin g) => rel[i, j].relation # "DUPLICATE"
        IN {g \in SUBSET DOMAIN pool :
              Cardinality(g) > 1 /\ closed(g) /\ \A h \in (SUBSET g) \ {{}, g} : ~closed(h)}
      correct(rel) == DuplicateGroups(rel, Len(pool)) = components(rel)
  IN correct(Relations(pool, indexed))

Without(held, j) == SelectSeq([i \in DOMAIN held |-> [held[i] EXCEPT !.text = IF i = j THEN <<>> ELSE @]],
                              LAMBDA f : f.text # <<>>)

WithoutIn(vs, j) == {i \in vs : i < j} \cup {i - 1 : i \in {k \in vs : k > j}}

\* A report that restates an incident, or may, never raises the severity derived for it.
RestatedNeverRaises ==
  LET scoreWithout(held, vs, i) == DerivedScore(held, Relations(held, vs), i)
      kept(rel) ==
        \A i, j \in DOMAIN pool :
          (i # j /\ rel[i, j].relation \in {"DUPLICATE", "POSSIBLE_DUPLICATE"}) =>
            DerivedScore(pool, rel, i)
              <= scoreWithout(Without(pool, j), WithoutIn(indexed, j), IF j < i THEN i - 1 ELSE i)
  IN kept(Relations(pool, indexed))

\* Reports of one event are one event: they are grouped with all that restate them, through
\* others too (duplicate_groups), and count as no corroboration of each other (build_insight).
DuplicatesAreOneEvent == GroupsAreComponents /\ RestatedNeverRaises

\* The figures of the brief are the same in whichever order the reports lie: no report hides
\* or overwrites what another told.
BriefIgnoresOrder ==
  LET turned(i) == Len(pool) + 1 - i
      agree(there, here) ==
        /\ there.people = here.people
        /\ there.categories = here.categories
        /\ there.levels = here.levels
        /\ there.groups = {{turned(i) : i \in g} : g \in here.groups}
        /\ Cardinality(there.routes) = Cardinality(here.routes)
        /\ {pool[turned(i)].reading.score : i \in there.priorities}
             = {pool[i].reading.score : i \in here.priorities}
  IN agree(Brief([i \in DOMAIN pool |-> pool[turned(i)]], {turned(i) : i \in indexed}),
           Brief(pool, indexed))
=============================================================================
