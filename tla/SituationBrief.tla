---------------------------- MODULE SituationBrief ----------------------------
(***************************************************************************)
(* The situation brief an operator asks for (situation_brief in            *)
(* ai/service.rs): its figures come from the rules, and a model may be     *)
(* asked for a summary of those figures, which is shown only if the words  *)
(* in it are found in them.  Incidents arrive and get their vectors while  *)
(* the model writes.                                                       *)
(***************************************************************************)
EXTENDS InsightPool

CONSTANTS
  News,          \* incidents that arrive while briefs are asked for
  Summaries,     \* what a model may reply: a sequence of words, or NoSummary
  NoSummary,     \* a reply that is no summary
  MaxFacts       \* bound: lines of facts a model is given; the code cuts at 3000 characters

ASSUME BriefBounds == MaxFacts \in Nat /\ News \subseteq Filings

VARIABLES
  briefing,      \* the brief a model is summarising, a set of one at most
  briefed          \* the brief given last, a set of one at most

briefVars == <<briefing, briefed>>

-------------------------------------------------------------------------------
(* The facts a model is given.  Only words of four letters and more count, *)
(* so numbers do not.                                                      *)

CategoryWords ==
  [FIRE |-> {"fire"}, MEDICAL |-> {"medical"}, INFRASTRUCTURE |-> {"infrastructure"},
   ROAD_BLOCKAGE |-> {"road", "blockage"}, FLOODING |-> {"flooding"}, EVACUATION |-> {"evacuation"},
   POWER |-> {"power"}, COMMUNICATIONS |-> {"communications"},
   RESOURCE_SHORTAGE |-> {"resource", "shortage"}, EARTHQUAKE |-> {"earthquake"},
   SEVERE_WEATHER |-> {"severe", "weather"}]
  @@ ("OTHER" :> {"other"})

PeopleLine(people) ==
  {"people", "across", "reports", "dead", "trapped", "missing", "injured"}
  \cup (IF people["approximate"] THEN {"some", "figures", "approximate"} ELSE {})

LevelWord == <<"low", "medium", "high", "critical">>

\* What a report of the priorities adds; the reason for its level restates what it says.
PriorityLine(filing) == {"priority", LevelWord[filing.reading.level]} \cup Range(filing.text)

\* The lines in the order they are written: the words of each.  A part with nothing in it has
\* no line.
Lines(held, brief) ==
  LET routes == UNION {Range(r) : r \in brief.routes}
      ranked == SelectSeq([i \in DOMAIN held |-> i], LAMBDA i : i \in brief.priorities)
  IN << {"incidents", "held"} >>
     \o (IF DOMAIN brief.categories = {} THEN <<>>
         ELSE << {"type"} \cup UNION {CategoryWords[c] : c \in DOMAIN brief.categories} >>)
     \o (IF brief.people["reports"] = 0 THEN <<>> ELSE << PeopleLine(brief.people) >>)
     \o (IF routes = {} THEN <<>> ELSE << {"blocked", "routes"} \cup routes >>)
     \o (IF brief.groups = {} THEN <<>>
         ELSE << {"reports", "that", "appear", "describe", "same", "event", "group"} >>)
     \o [k \in DOMAIN ranked |-> PriorityLine(held[ranked[k]])]

FactWords(held, brief) ==
  LET lines == Lines(held, brief)
  IN UNION {lines[k] : k \in {j \in DOMAIN lines : j <= MaxFacts}}

-------------------------------------------------------------------------------
(* A summary, and what becomes of it.                                      *)

MinSummarySupport == 50

\* The support of a summary in percent, rounded: half a percent more than it has may be kept.
FactSupport(words, context) ==
  LET support == SupportScore(words, context)
  IN (200 * support[1] + support[2]) \div (2 * support[2])

Unsummarised(held, figures, note) ==
  [held |-> held, figures |-> figures, summary |-> <<>>, support |-> 0, note |-> note]

\* Mutant of Judged: the support is shown beside a summary and decides nothing.
JudgedLightly(asked, words) ==
  [asked EXCEPT !.summary = words,
                !.support = FactSupport(words, FactWords(asked.held, asked.figures))]

\* A summary is kept only with enough support; the support is told in either case.
Judged(asked, words) ==
  LET support == FactSupport(words, FactWords(asked.held, asked.figures))
  IN IF support >= MinSummarySupport
     THEN [asked EXCEPT !.summary = words, !.support = support]
     ELSE [asked EXCEPT !.support = support, !.note = "withheld"]

BriefInit == briefing = {} /\ briefed = {}

\* The figures alone; or, with nothing to summarise, a note that says so.
ShowFigures(note) ==
  /\ briefing = {} /\ briefed = {}
  /\ (note = "nothing held") => pool = <<>>
  /\ briefed' = {Unsummarised(pool, Brief(pool, indexed), note)}
  /\ UNCHANGED <<briefing, poolVars>>

\* The figures are computed, and then wait for the gate and the model.
AskSummary ==
  /\ briefing = {} /\ briefed = {} /\ pool # <<>>
  /\ briefing' = {Unsummarised(pool, Brief(pool, indexed), "")}
  /\ UNCHANGED <<briefed, poolVars>>

\* Mutant of Summarise: the summary is held against what the node knows by now.
SummariseAnew(reply) ==
  \E asked \in briefing :
    /\ reply # NoSummary /\ reply # <<>>
    /\ LET now == Unsummarised(pool, Brief(pool, indexed), "")
       IN briefed' = {[Judged(now, reply) EXCEPT !.figures = asked.figures]}
    /\ briefing' = {}
    /\ UNCHANGED poolVars

\* The model answers; a reply that is no summary, or an empty one, leaves a note.
Summarise(reply) ==
  \E asked \in briefing :
    /\ briefed' = {IF reply = NoSummary \/ reply = <<>> THEN [asked EXCEPT !.note = "failed"]
                 ELSE Judged(asked, reply)}
    /\ briefing' = {}
    /\ UNCHANGED poolVars

\* No model, no turn at the gate, or an error of the model.
SummaryFails ==
  /\ \E asked \in briefing : briefed' = {[asked EXCEPT !.note = "failed"]}
  /\ briefing' = {}
  /\ UNCHANGED poolVars

\* A brief is read when it is given, and the pool moves on.
Moves ==
  /\ briefed' = {} /\ UNCHANGED briefing
  /\ \/ \E filing \in News : Arrive(filing)
     \/ \E i \in DOMAIN pool : Vectorise(i)

BriefNext ==
  \/ \E note \in {"", "nothing held"} : ShowFigures(note)
  \/ AskSummary
  \/ \E reply \in Summaries : Summarise(reply)
  \/ SummaryFails
  \/ Moves

-------------------------------------------------------------------------------
(* Correctness.                                                            *)

\* A brief is of one moment, however long the model took: its figures are those of incidents
\* that were all held then, and its summary says in half its words or more, to a percent, what those
\* figures say.  A summary is shown, or its absence explained, never both.
BriefIsOfOneMoment ==
  \A b \in briefed :
    LET then == SubSeq(pool, Len(pool) - b.figures.considered + 1, Len(pool))
        told == UNION {Range(then[i].text) : i \in DOMAIN then}
                  \cup UNION {{LevelWord[then[i].reading.level]} : i \in DOMAIN then}
                  \cup UNION {CategoryWords[then[i].reading.category] : i \in DOMAIN then}
                  \cup (IF b.figures.people["reports"] = 0 THEN {}
                        ELSE PeopleLine(b.figures.people))
                  \cup {"incidents", "held", "type", "blocked", "routes", "priority", "reports",
                        "that", "appear", "describe", "same", "event", "group"}
        long == SelectSeq(b.summary, LAMBDA w : w \notin ShortWords)
        known == SelectSeq(long, LAMBDA w : IsFoundIn(w, told))
    IN /\ b.figures.people = PeopleTotals(then)
       /\ b.figures.routes = ListedRoutes(then)
       /\ b.figures.priorities = Priorities(then)
       /\ b.summary # <<>> => b.note = "" /\ 200 * Len(known) >= 99 * Len(long)

\* The pool is one picture of what happened, whichever report came first or twice, and a brief
\* is a picture of it at one moment.
PoolIsOnePicture == DuplicatesAreOneEvent /\ BriefIgnoresOrder /\ BriefIsOfOneMoment
=============================================================================
