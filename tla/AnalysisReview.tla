---------------------------- MODULE AnalysisReview ----------------------------
(***************************************************************************)
(* One incident and its analysis by a language model: what the model says  *)
(* is untrusted until it is validated (domain/intelligence.rs), replaces   *)
(* the analysis stored before (storage/intelligence.rs) and is shown with  *)
(* what the rules make of it (ai/consistency.rs, ai/service.rs).           *)
(***************************************************************************)
EXTENDS ReportReading, WordOverlap

CONSTANTS
  Filed,         \* reports of incidents that are analysed
  Answers,       \* what a model may answer: raw analyses, or Garbage
  Garbage,       \* output that is no analysis
  MaxEntities    \* MAX_ENTITIES

ASSUME ReviewBounds == MaxEntities \in Nat /\ Filed \subseteq Seq(STRING)

VARIABLES
  subject,       \* the text of the incident
  stored,        \* its row in incident_analyses, or None
  latest,        \* the last answer that was valid (for the properties)
  shown          \* the outcome an operator last saw, or None

reviewVars == <<subject, stored, latest, shown>>

None == [none |-> TRUE]

-------------------------------------------------------------------------------
(* What the model said becomes an analysis, or is refused.                 *)

\* Case and separators are forgiven, anything else is OTHER.
ParseCategory(name) ==
  CASE name \in Categories -> name
    [] name \in {"fire", "Fire"} -> "FIRE"
    [] name \in {"road blockage", "ROAD"} -> "ROAD_BLOCKAGE"
    [] OTHER -> "OTHER"

ParseAccess(name) ==
  CASE name \in {"OPEN", "RESTRICTED", "BLOCKED"} -> name
    [] name = "closed" -> "BLOCKED"
    [] OTHER -> "UNKNOWN"

\* Ranks of severities; one that is not known is refused.
ParseSeverity(name) ==
  {k \in DOMAIN Levels : name = Levels[k]} \cup {k \in {1} : name = "low"}

NotBlank(name) == name # ""

\* Blank items are dropped before the list is cut.
BoundedList(items) ==
  LET kept == SelectSeq(items, NotBlank)
  IN SubSeq(kept, 1, IF Len(kept) < MaxEntities THEN Len(kept) ELSE MaxEntities)

Valid(raw) == raw # Garbage /\ raw.summary # <<>> /\ ParseSeverity(raw.severity) # {}

Validate(raw) ==
  [category |-> ParseCategory(raw.category),
   severity |-> CHOOSE k \in ParseSeverity(raw.severity) : TRUE,
   access |-> ParseAccess(raw.access),
   entities |-> BoundedList(raw.entities),
   summary |-> raw.summary]

-------------------------------------------------------------------------------
(* What the rules make of it.                                              *)

CategoryConfidenceMin == 25
SummarySupportMin == 50

\* Mutant of SeverityDiffers: a severity one level too low passes.
WildlyDiffers(severity, level) == severity - level >= 2 \/ level - severity >= 2

\* Any severity that is too low; one that is too high by two levels.
SeverityDiffers(severity, level) == level > severity \/ severity - level >= 2

\* In 32 bits; those displaced or at risk are not counted.
CountedPeople(reading) ==
  LET told == {f \in {"DECEASED", "TRAPPED", "MISSING", "INJURED", "AFFECTED"} :
                 reading.people[f] # Unstated}
  IN MapThenSumSet(LAMBDA f : reading.people[f], told) % (MaxCount + 1)

\* Mutant of AccessDiffers: a blockage that names no route passes where another route is named.
RouteDiffers(access, reading) ==
  /\ access = "OPEN"
  /\ \/ \E r \in reading.routes : r.blocked
     \/ reading.routes = {} /\ ActiveHazards(reading.hazards) # {}

\* OPEN where a route or any way is blocked, or where a hazard is active and no route named.
AccessDiffers(access, reading) ==
  /\ access = "OPEN"
  /\ \/ Blocked(reading.hazards, reading.routes)
     \/ reading.routes = {} /\ ActiveHazards(reading.hazards) # {}

\* A field in which an analysis and the rules disagree.
Differs(field, analysis, reading, text) ==
  \/ /\ field = "category" /\ reading.category # "OTHER"
     /\ reading.confidence >= CategoryConfidenceMin
     /\ analysis.category # reading.category
  \/ field = "severity" /\ SeverityDiffers(analysis.severity, reading.level)
  \/ field = "access" /\ AccessDiffers(analysis.access, reading)
  \/ field = "entities" /\ CountedPeople(reading) > 0 /\ analysis.entities = <<>>
  \/ /\ field = "summary"
     /\ LET support == SupportScore(analysis.summary, Range(text))
        IN 100 * support[1] < SummarySupportMin * support[2]

CheckAgainst(analysis, reading, text) ==
  {field \in {"category", "severity", "access", "entities", "summary"} :
     Differs(field, analysis, reading, text)}

Outcome(analysis, text) ==
  [analysis |-> analysis, disagreements |-> CheckAgainst(analysis, Extract(text), text)]

-------------------------------------------------------------------------------
(* Analysing, storing and showing.                                         *)

\* Mutant of Row: the list of entities is kept from the analysis before.
RowKeepingEntities(old, analysis) ==
  IF old = None THEN analysis ELSE [analysis EXCEPT !.entities = old.entities]

\* Every column is replaced.
Row(old, analysis) == [column \in DOMAIN analysis |-> analysis[column]]

\* The names that were stored are parsed as a model's are.
GetAnalysis(row) ==
  [row EXCEPT !.category = ParseCategory(@), !.access = ParseAccess(@)]

ReviewInit ==
  /\ subject \in Filed
  /\ stored = None /\ latest = None /\ shown = None

AnalyseIncident(raw) ==
  /\ Valid(raw)
  /\ stored' = Row(stored, Validate(raw))
  /\ latest' = Validate(raw)
  /\ shown' = Outcome(Validate(raw), subject)
  /\ UNCHANGED subject

\* Output that is no valid analysis, or none at all: an error, and nothing stored.
RefuseAnswer(raw) ==
  /\ ~Valid(raw)
  /\ shown' = None
  /\ UNCHANGED <<subject, stored, latest>>

AnalysisFor ==
  /\ stored # None
  /\ shown' = Outcome(GetAnalysis(stored), subject)
  /\ UNCHANGED <<subject, stored, latest>>

ReviewNext ==
  \/ \E raw \in Answers : AnalyseIncident(raw) \/ RefuseAnswer(raw)
  \/ AnalysisFor

ReviewSpec == ReviewInit /\ [][ReviewNext]_reviewVars

-------------------------------------------------------------------------------
(* Correctness.                                                            *)

\* "Recomputing it returns exactly what was produced when the model ran": an operator only
\* ever sees the last valid answer, all of it from one answer, with the verdict on that answer.
ReviewIsRepeatable == shown # None => shown = Outcome(latest, subject)

\* The rules' own reading as a model would say it.
Echo(reading) ==
  [category |-> reading.category, severity |-> reading.level,
   access |-> IF reading.blocked THEN "BLOCKED" ELSE "UNKNOWN",
   entities |-> IF CountedPeople(reading) > 0 THEN <<"people">> ELSE <<>>,
   summary |-> subject]

\* The check flags what hides danger and not what is careful: the rules' own reading passes; a
\* severity raised to at most one level above theirs, an access no longer said to be open, or
\* people named adds no disagreement; an answer that passes is nowhere below their level; and one
\* that calls open what the text says is blocked, by a route's name or without, is flagged.
ReviewIsAsymmetric ==
  LET verdict(a, reading) == CheckAgainst(a, reading, subject)
      saysBlocked(reading) == \/ \E r \in reading.routes : r.blocked
                              \/ "ROAD_BLOCKAGE" \in ActiveHazards(reading.hazards)
      cautious(reading, a, was) ==
        /\ \A s \in a.severity..4 : s <= reading.level + 1 =>
             verdict([a EXCEPT !.severity = s], reading) \subseteq was
        /\ \A c \in {"RESTRICTED", "BLOCKED", "UNKNOWN"} :
             verdict([a EXCEPT !.access = c], reading) \subseteq was
        /\ verdict([a EXCEPT !.entities = <<"people">>], reading) \subseteq was
        /\ was = {} => a.severity >= reading.level
        /\ a.access = "OPEN" /\ saysBlocked(reading) => "access" \in was
      reviewed(reading) ==
        /\ Range(subject) \ ShortWords # {} => verdict(Echo(reading), reading) = {}
        /\ \A raw \in {x \in Answers : Valid(x)} :
             cautious(reading, Validate(raw), verdict(Validate(raw), reading))
  IN shown # None => reviewed(Extract(subject))

\* Shown with the right verdict, and the verdict on the side of caution.
ReviewHolds == ReviewIsRepeatable /\ ReviewIsAsymmetric
=============================================================================
