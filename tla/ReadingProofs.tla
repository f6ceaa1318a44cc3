---------------------------- MODULE ReadingProofs -----------------------------
(***************************************************************************)
(* Theorems about what a node retrieves, answers and shows, for any texts, *)
(* packs, questions and replies: an analysis is shown with the verdict on  *)
(* it, what was put in is found again, and an answer rests on what is held.*)
(***************************************************************************)
EXTENDS AnalysisReview, GroundedAnswer, FiniteSetTheorems, SequenceTheorems,
  WellFoundedInduction, TLAPS

-----------------------------------------------------------------------------
(* Functions by recursion *)

\* What holds of zero, and of the next number whenever it holds of one, holds of all.
LEMMA Upwards ==
  ASSUME NEW n \in Nat, NEW M \in SUBSET (0..n), 0 \in M,
         \A m \in 1..n : m - 1 \in M => m \in M
  PROVE  M = 0..n
<1>1. SUFFICES ASSUME (0..n) \ M # {} PROVE FALSE
  OBVIOUS
<1>2. IsWellFoundedOn(OpToRel(<, Nat), Nat)
  BY NatLessThanWellFounded
<1>3. (0..n) \ M \in SUBSET Nat /\ (0..n) \ M # {}
  BY <1>1
<1>4. PICK m \in (0..n) \ M : \A y \in (0..n) \ M : ~ (<<y, m>> \in OpToRel(<, Nat))
  BY <1>2, <1>3, WFMin
<1>5. m \in 0..n /\ m # 0 /\ m \notin M
  OBVIOUS
<1>6. m \in 1..n /\ m - 1 \in 0..n /\ m - 1 \in Nat /\ m \in Nat /\ m - 1 < m
  BY <1>5
<1>7. m - 1 \notin M
  BY <1>5, <1>6
<1>8. <<m - 1, m>> \in OpToRel(<, Nat)
  BY <1>6 DEF OpToRel
<1> QED
  BY <1>4, <1>6, <1>7, <1>8

\* What makes the next value of each, n times
MakesNext(next, n, D) == next \in [1..n -> [D -> D]]

\* The values from a first one on
Goes(f, n, D, first, next) ==
  f \in [0..n -> D] /\ f[0] = first /\ \A k \in 1..n : f[k] = next[k][f[k - 1]]

\* A first value and what makes the next one of each give a function.
LEMMA Recursion ==
  ASSUME NEW n \in Nat, NEW D, NEW first \in D, NEW next, MakesNext(next, n, D)
  PROVE  \E f : Goes(f, n, D, first, next)
<1> DEFINE Good(f, m) == f[0] = first /\ \A k \in 1..n : k <= m => f[k] = next[k][f[k - 1]]
           M == {m \in 0..n : \E f \in [0..n -> D] : Good(f, m)}
<1> USE DEF MakesNext
<1>1. 0 \in M
  <2>1. [k \in 0..n |-> first] \in [0..n -> D] /\ Good([k \in 0..n |-> first], 0)
    OBVIOUS
  <2> QED
    BY <2>1
<1>2. ASSUME NEW m \in 1..n, m - 1 \in M PROVE m \in M
  <2>1. PICK f \in [0..n -> D] : Good(f, m - 1)
    BY <1>2
  <2>2. m - 1 \in 0..n /\ m \in 0..n /\ m # 0
    OBVIOUS
  <2>3. PICK v \in D : v = next[m][f[m - 1]]
    BY <2>2
  <2>4. PICK g : g = [k \in 0..n |-> IF k = m THEN v ELSE f[k]]
    OBVIOUS
  <2>5. g \in [0..n -> D]
    BY <2>4
  <2>6. g[0] = first
    BY <2>1, <2>2, <2>4
  <2>7. ASSUME NEW k \in 1..n, k <= m PROVE g[k] = next[k][g[k - 1]]
    <3>1. k - 1 \in 0..n /\ k - 1 # m /\ k \in 0..n
      BY <2>7
    <3>2. g[k - 1] = f[k - 1]
      BY <2>4, <3>1
    <3>3. CASE k = m
      BY <2>2, <2>3, <2>4, <3>2, <3>3
    <3>4. CASE k # m
      <4>1. k <= m - 1
        BY <2>7, <3>4
      <4>2. g[k] = f[k]
        BY <2>4, <3>1, <3>4
      <4> QED
        BY <2>1, <3>2, <4>1, <4>2
    <3> QED
      BY <3>3, <3>4
  <2> QED
    BY <2>2, <2>5, <2>6, <2>7
<1>3. M = 0..n
  <2> HIDE DEF M
  <2>1. M \in SUBSET (0..n)
    BY DEF M
  <2> QED
    BY <1>1, <1>2, <2>1, Upwards
<1>4. PICK f \in [0..n -> D] : Good(f, n)
  <2>1. n \in 0..n
    OBVIOUS
  <2> QED
    BY <1>3, <2>1
<1>5. f[0] = first /\ \A k \in 1..n : f[k] = next[k][f[k - 1]]
  <2>1. \A k \in 1..n : k <= n
    OBVIOUS
  <2> HIDE DEF M
  <2> QED
    BY <1>4, <2>1
<1> QED
  BY <1>5, Zenon DEF Goes

-----------------------------------------------------------------------------
(* The review of an analysis *)

\* A severity that was accepted is one of the four.
LEMMA SeverityKnown ==
  ASSUME NEW raw, Valid(raw)
  PROVE  Validate(raw).severity \in 1..4
<1>1. ParseSeverity(raw.severity) # {}
  BY DEF Valid
<1>2. \A k \in ParseSeverity(raw.severity) : k \in 1..4
  BY DEF ParseSeverity, Levels
<1>3. Validate(raw).severity = CHOOSE k \in ParseSeverity(raw.severity) : TRUE
  BY DEF Validate
<1> QED
  BY <1>1, <1>2, <1>3

\* What parsing gives is parsed as itself.
LEMMA ParsedAgain ==
  /\ \A name : ParseCategory(ParseCategory(name)) = ParseCategory(name)
  /\ \A name : ParseAccess(ParseAccess(name)) = ParseAccess(name)
<1>1. ASSUME NEW name PROVE ParseCategory(ParseCategory(name)) = ParseCategory(name)
  <2>1. "FIRE" \in Categories /\ "ROAD_BLOCKAGE" \in Categories /\ "OTHER" \notin Categories
    BY DEF Categories
  <2>2. ParseCategory(name) \in Categories \cup {"OTHER"}
    BY <2>1 DEF ParseCategory
  <2> QED
    BY <2>1, <2>2 DEF ParseCategory
<1>2. ASSUME NEW name PROVE ParseAccess(ParseAccess(name)) = ParseAccess(name)
  <2>1. ParseAccess(name) \in {"OPEN", "RESTRICTED", "BLOCKED", "UNKNOWN"}
    BY DEF ParseAccess
  <2> QED
    BY <2>1 DEF ParseAccess
<1> QED
  BY <1>1, <1>2

\* What a row gives back is the analysis that was stored in it.
LEMMA RowKeeps ==
  ASSUME NEW raw, NEW old
  PROVE  /\ Row(old, Validate(raw)) = Validate(raw)
         /\ GetAnalysis(Validate(raw)) = Validate(raw)
         /\ Validate(raw) # None
<1>1. PICK a, b, c, d, e :
        /\ Validate(raw) = [category |-> a, severity |-> b, access |-> c, entities |-> d,
                            summary |-> e]
        /\ a = ParseCategory(raw.category) /\ c = ParseAccess(raw.access)
  BY DEF Validate
<1>2. ParseCategory(a) = a /\ ParseAccess(c) = c
  BY <1>1, ParsedAgain
<1>3. PICK v : v = [category |-> a, severity |-> b, access |-> c, entities |-> d, summary |-> e]
  OBVIOUS
<1>4. Row(old, v) = v
  BY <1>3 DEF Row
<1>5. GetAnalysis(v) = v
  <2>1. ParseCategory(v.category) = a /\ ParseAccess(v.access) = c
    BY <1>2, <1>3
  <2>2. GetAnalysis(v) = [v EXCEPT !.category = a, !.access = c]
    BY <2>1 DEF GetAnalysis
  <2> QED
    BY <1>3, <2>2
<1>6. v # None
  BY <1>3 DEF None
<1> QED
  BY <1>1, <1>3, <1>4, <1>5, <1>6

\* What is stored is the last valid answer, and what is shown is its outcome.
ReviewInv ==
  /\ subject \in Filed
  /\ stored # None => stored = latest /\ \E raw : Valid(raw) /\ latest = Validate(raw)
  /\ ReviewIsRepeatable

\* Nothing is stored or shown at first.
LEMMA ReviewStart ==
  ReviewInit => ReviewInv
BY DEF ReviewInit, ReviewInv, ReviewIsRepeatable

\* Every step keeps it.
LEMMA ReviewStep ==
  ReviewInv /\ [ReviewNext]_reviewVars => ReviewInv'
<1> SUFFICES ASSUME ReviewInv, [ReviewNext]_reviewVars PROVE ReviewInv'
  OBVIOUS
<1> USE DEF ReviewInv, ReviewIsRepeatable
<1>1. CASE UNCHANGED reviewVars
  BY <1>1 DEF reviewVars
<1>2. ASSUME NEW raw \in Answers, AnalyseIncident(raw) PROVE ReviewInv'
  <2>1. stored' = Validate(raw) /\ latest' = Validate(raw)
    BY <1>2, RowKeeps DEF AnalyseIncident
  <2>2. Valid(raw) /\ shown' = Outcome(latest', subject') /\ subject' = subject
    BY <1>2 DEF AnalyseIncident
  <2> QED
    BY <2>1, <2>2
<1>3. ASSUME NEW raw \in Answers, RefuseAnswer(raw) PROVE ReviewInv'
  BY <1>3 DEF RefuseAnswer
<1>4. CASE AnalysisFor
  <2>1. PICK raw : Valid(raw) /\ latest = Validate(raw) /\ stored = latest
    BY <1>4 DEF AnalysisFor
  <2>2. GetAnalysis(stored) = latest
    BY <2>1, RowKeeps
  <2> QED
    BY <1>4, <2>1, <2>2 DEF AnalysisFor
<1> QED
  BY <1>1, <1>2, <1>3, <1>4 DEF ReviewNext

-----------------------------------------------------------------------------
(* The verdict on an analysis *)

\* The rules' level is one of the four.
LEMMA LevelKnown ==
  ASSUME NEW text
  PROVE  Extract(text).level \in 1..4
<1>1. \A points : Level(points) \in 1..4
  BY DEF Level
<1> QED
  BY <1>1 DEF Extract, ReadTokens, Found, Reading, Record

\* A text supports itself, if it has anything to support.
LEMMA SupportsItself ==
  ASSUME NEW text \in Seq(STRING), Range(text) \ ShortWords # {}
  PROVE  /\ SupportScore(text, Range(text))[1] = SupportScore(text, Range(text))[2]
         /\ SupportScore(text, Range(text))[1] \in Nat
<1>1. PICK places : places = CountedPlaces(text)
  OBVIOUS
<1>2. FoundPlaces(text, Range(text)) = places
  BY <1>1 DEF FoundPlaces, CountedPlaces, IsFoundIn, Range
<1>3. places # {}
  BY <1>1 DEF CountedPlaces, Range
<1>4. Cardinality(places) \in Nat
  <2>1. IsFiniteSet(1..Len(text))
    BY FS_Interval
  <2>2. places \in SUBSET (1..Len(text))
    BY <1>1 DEF CountedPlaces
  <2> QED
    BY <2>1, <2>2, FS_Subset, FS_CardinalityType
<1>5. SupportScore(text, Range(text)) = <<Cardinality(places), Cardinality(places)>>
  BY <1>1, <1>2, <1>3 DEF SupportScore
<1> QED
  BY <1>4, <1>5

\* The rules agree with their own reading.
LEMMA EchoAgrees ==
  ASSUME subject \in Seq(STRING), Range(subject) \ ShortWords # {},
         NEW r, r.level \in 1..4
  PROVE  CheckAgainst(Echo(r), r, subject) = {}
<1>1. PICK e : e = Echo(r)
  OBVIOUS
<1>2. /\ e.category = r.category /\ e.severity = r.level /\ e.access # "OPEN"
      /\ CountedPeople(r) > 0 => e.entities # <<>>
      /\ e.summary = subject
  BY <1>1 DEF Echo
<1>3. ~SeverityDiffers(r.level, r.level)
  BY DEF SeverityDiffers
<1>4. ~AccessDiffers(e.access, r)
  BY <1>2 DEF AccessDiffers
<1>5. PICK support : support = SupportScore(subject, Range(subject))
  OBVIOUS
<1>6. ~(100 * support[1] < SummarySupportMin * support[2])
  BY <1>5, SupportsItself DEF SummarySupportMin
<1>7. \A field : ~Differs(field, e, r, subject)
  BY <1>2, <1>3, <1>4, <1>5, <1>6, Zenon DEF Differs
<1> QED
  BY <1>1, <1>7 DEF CheckAgainst

\* What an analysis with the fields of another is found to differ in.
LEMMA DiffersLike ==
  ASSUME NEW a, NEW b, NEW r, NEW text,
         \A field \in {"category", "severity", "access", "entities", "summary"} :
           Differs(field, b, r, text) => Differs(field, a, r, text)
  PROVE  CheckAgainst(b, r, text) \subseteq CheckAgainst(a, r, text)
BY DEF CheckAgainst

\* A more careful analysis is found to differ in nothing more.
LEMMA CarefulDiffersLess ==
  ASSUME NEW a, NEW r, r.level \in 1..4, NEW text, a.severity \in 1..4,
         NEW cat, NEW acc, NEW ent, NEW sum,
         a = [category |-> cat, severity |-> a.severity, access |-> acc, entities |-> ent,
              summary |-> sum]
  PROVE  /\ \A s \in a.severity..4 : s <= r.level + 1 =>
              CheckAgainst([a EXCEPT !.severity = s], r, text) \subseteq CheckAgainst(a, r, text)
         /\ \A c \in {"RESTRICTED", "BLOCKED", "UNKNOWN"} :
              CheckAgainst([a EXCEPT !.access = c], r, text) \subseteq CheckAgainst(a, r, text)
         /\ CheckAgainst([a EXCEPT !.entities = <<"people">>], r, text)
              \subseteq CheckAgainst(a, r, text)
         /\ CheckAgainst(a, r, text) = {} => a.severity >= r.level
         /\ a.access = "OPEN" /\ Blocked(r.hazards, r.routes) =>
              "access" \in CheckAgainst(a, r, text)
<1> DEFINE Less(b) == CheckAgainst(b, r, text) \subseteq CheckAgainst(a, r, text)
<1>1. ASSUME NEW s \in a.severity..4, s <= r.level + 1 PROVE Less([a EXCEPT !.severity = s])
  <2>1. PICK b : b = [a EXCEPT !.severity = s]
    OBVIOUS
  <2>2. /\ b.category = a.category /\ b.severity = s /\ b.access = a.access
        /\ b.entities = a.entities /\ b.summary = a.summary
    BY <2>1
  <2>3. SeverityDiffers(s, r.level) => SeverityDiffers(a.severity, r.level)
    BY <1>1 DEF SeverityDiffers
  <2>4. \A field : Differs(field, b, r, text) => Differs(field, a, r, text)
    BY <2>2, <2>3, Zenon DEF Differs
  <2> QED
    BY <2>1, <2>4, DiffersLike
<1>2. ASSUME NEW c \in {"RESTRICTED", "BLOCKED", "UNKNOWN"} PROVE Less([a EXCEPT !.access = c])
  <2>1. PICK b : b = [a EXCEPT !.access = c]
    OBVIOUS
  <2>2. /\ b.category = a.category /\ b.severity = a.severity /\ b.access = c
        /\ b.entities = a.entities /\ b.summary = a.summary
    BY <2>1
  <2>3. ~AccessDiffers(c, r)
    BY <1>2 DEF AccessDiffers
  <2>4. \A field : Differs(field, b, r, text) => Differs(field, a, r, text)
    BY <2>2, <2>3, Zenon DEF Differs
  <2> QED
    BY <2>1, <2>4, DiffersLike
<1>3. Less([a EXCEPT !.entities = <<"people">>])
  <2>1. PICK b : b = [a EXCEPT !.entities = <<"people">>]
    OBVIOUS
  <2>2. /\ b.category = a.category /\ b.severity = a.severity /\ b.access = a.access
        /\ b.entities # <<>> /\ b.summary = a.summary
    BY <2>1
  <2>3. \A field : Differs(field, b, r, text) => Differs(field, a, r, text)
    BY <2>2, Zenon DEF Differs
  <2> QED
    BY <2>1, <2>3, DiffersLike
<1>4. CheckAgainst(a, r, text) = {} => a.severity >= r.level
  <2>1. Differs("severity", a, r, text) => "severity" \in CheckAgainst(a, r, text)
    BY DEF CheckAgainst
  <2>2. SeverityDiffers(a.severity, r.level) => Differs("severity", a, r, text)
    BY Zenon DEF Differs
  <2>3. ~SeverityDiffers(a.severity, r.level) => a.severity >= r.level
    BY DEF SeverityDiffers
  <2> QED
    BY <2>1, <2>2, <2>3
<1>5. a.access = "OPEN" /\ Blocked(r.hazards, r.routes) => "access" \in CheckAgainst(a, r, text)
  <2>1. a.access = "OPEN" /\ Blocked(r.hazards, r.routes) => AccessDiffers(a.access, r)
    BY Zenon DEF AccessDiffers
  <2>2. AccessDiffers(a.access, r) => Differs("access", a, r, text)
    BY Zenon DEF Differs
  <2> QED
    BY <2>1, <2>2 DEF CheckAgainst
<1> QED
  BY <1>1, <1>2, <1>3, <1>4, <1>5

\* The check is on the side of caution, whatever the text and the answers.
LEMMA CheckIsAsymmetric ==
  ASSUME subject \in Filed
  PROVE  ReviewIsAsymmetric
<1>1. subject \in Seq(STRING)
  BY ReviewBounds
<1>2. PICK r : r = Extract(subject)
  OBVIOUS
<1>3. r.level \in 1..4
  BY <1>2, LevelKnown
<1>4. Range(subject) \ ShortWords # {} => CheckAgainst(Echo(r), r, subject) = {}
  BY <1>1, <1>3, EchoAgrees
<1>5. ASSUME NEW raw \in {x \in Answers : Valid(x)}
      PROVE  LET a == Validate(raw) IN
             /\ \A s \in a.severity..4 : s <= r.level + 1 =>
                  CheckAgainst([a EXCEPT !.severity = s], r, subject)
                    \subseteq CheckAgainst(a, r, subject)
             /\ \A c \in {"RESTRICTED", "BLOCKED", "UNKNOWN"} :
                  CheckAgainst([a EXCEPT !.access = c], r, subject)
                    \subseteq CheckAgainst(a, r, subject)
             /\ CheckAgainst([a EXCEPT !.entities = <<"people">>], r, subject)
                  \subseteq CheckAgainst(a, r, subject)
             /\ CheckAgainst(a, r, subject) = {} => a.severity >= r.level
             /\ /\ a.access = "OPEN"
                /\ \/ \E x \in r.routes : x.blocked
                   \/ "ROAD_BLOCKAGE" \in ActiveHazards(r.hazards)
                => "access" \in CheckAgainst(a, r, subject)
  <2>1. PICK a : a = Validate(raw)
    OBVIOUS
  <2>2. a.severity \in 1..4
    BY <2>1, SeverityKnown
  <2>3. PICK cat, acc, ent, sum :
          a = [category |-> cat, severity |-> a.severity, access |-> acc, entities |-> ent,
               summary |-> sum]
    BY <2>1 DEF Validate
  <2>4. \/ \E x \in r.routes : x.blocked
        \/ "ROAD_BLOCKAGE" \in ActiveHazards(r.hazards)
        => Blocked(r.hazards, r.routes)
    BY Zenon DEF Blocked
  <2> QED
    BY <1>3, <2>1, <2>2, <2>3, <2>4, CarefulDiffersLess
<1> QED
  BY <1>2, <1>4, <1>5, Zenon DEF ReviewIsAsymmetric

\* What an operator is shown of an incident is its last valid analysis with the verdict on it,
\* and the verdict is on the side of caution.
THEOREM ReviewsHold == ReviewSpec => []ReviewHolds
<1>1. ReviewInv => ReviewHolds
  BY CheckIsAsymmetric DEF ReviewInv, ReviewHolds
<1> QED
  BY <1>1, ReviewStart, ReviewStep, PTL DEF ReviewSpec

-----------------------------------------------------------------------------
(* Chunks *)

\* Two sentences stand side by side in a chunk
Beside(chunk, a, b) == \E j \in 1..(Len(chunk) - 1) : chunk[j] = a /\ chunk[j + 1] = b

\* What is added comes last.
LEMMA LastAppended ==
  ASSUME NEW S, NEW s \in Seq(S), NEW e \in S
  PROVE  Append(s, e) # <<>> /\ Append(s, e)[Len(Append(s, e))] = e
<1>1. Len(s) \in Nat
  OBVIOUS
<1>2. Append(s, e) # <<>> /\ Len(Append(s, e)) = Len(s) + 1 /\ Append(s, e)[Len(s) + 1] = e
  BY AppendProperties
<1> QED
  BY <1>1, <1>2

\* What is in a chunk stays in it when a sentence is added, beside the last one.
LEMMA BesideAppended ==
  ASSUME NEW chunk \in Seq(Sentence), NEW e \in Sentence
  PROVE  /\ \A a, b : Beside(chunk, a, b) => Beside(Append(chunk, e), a, b)
         /\ chunk # <<>> => Beside(Append(chunk, e), chunk[Len(chunk)], e)
<1>1. PICK m \in Nat : m = Len(chunk)
  OBVIOUS
<1>2. PICK more \in Seq(Sentence) : more = Append(chunk, e)
  BY AppendProperties
<1>3. Len(more) = m + 1 /\ more[m + 1] = e /\ \A i \in 1..m : more[i] = chunk[i]
  BY <1>1, <1>2, AppendProperties
<1>4. ASSUME NEW a, NEW b, Beside(chunk, a, b) PROVE Beside(more, a, b)
  <2>1. PICK j \in 1..(m - 1) : chunk[j] = a /\ chunk[j + 1] = b
    BY <1>1, <1>4 DEF Beside
  <2>2. j \in 1..m /\ j + 1 \in 1..m /\ j \in 1..((m + 1) - 1)
    BY <1>1, <2>1
  <2>3. more[j] = a /\ more[j + 1] = b
    BY <1>3, <2>1, <2>2
  <2> QED
    BY <1>3, <2>2, <2>3 DEF Beside
<1>5. ASSUME chunk # <<>> PROVE Beside(more, chunk[m], e)
  <2>1. m \in 1..m /\ m \in 1..((m + 1) - 1)
    BY <1>1, <1>5, EmptySeq
  <2>2. more[m] = chunk[m]
    BY <1>3, <2>1
  <2> QED
    BY <1>3, <2>1, <2>2 DEF Beside
<1> QED
  BY <1>1, <1>2, <1>4, <1>5

\* A chunk is taken up where the one before it ended.
LEMMA OverlapIs ==
  ASSUME NEW chunk \in Seq(Sentence), chunk # <<>>
  PROVE  /\ Overlap(chunk) \in Seq(Sentence) /\ Overlap(chunk) # <<>>
         /\ Overlap(chunk)[Len(Overlap(chunk))] = chunk[Len(chunk)]
<1>1. PICK m \in Nat \ {0} : m = Len(chunk)
  BY EmptySeq
<1>2. PICK keep \in 0..(m - 1) :
        keep = IF Len(chunk) > ChunkOverlap THEN Len(chunk) - ChunkOverlap ELSE 0
  <2>1. PICK n \in Nat \ {0} : n = ChunkOverlap
    BY KnowledgeBounds
  <2>2. IF m > n THEN m - n \in 0..(m - 1) ELSE 0 \in 0..(m - 1)
    BY <1>1, <2>1
  <2> QED
    BY <1>1, <2>1, <2>2
<1>3. PICK o : o = SubSeq(chunk, keep + 1, m)
  OBVIOUS
<1>4. Overlap(chunk) = o
  BY <1>1, <1>2, <1>3 DEF Overlap
<1>5. keep + 1 \in Int /\ m \in Int /\ keep + 1 <= m /\ m - (keep + 1) + 1 = m - keep
      /\ m - keep \in Nat \ {0} /\ (keep + 1) + (m - keep) - 1 = m
  BY <1>1, <1>2
<1>6. \A i \in (keep + 1)..m : chunk[i] \in Sentence
  <2>1. \A i \in (keep + 1)..m : i \in 1..m
    BY <1>1, <1>2
  <2> QED
    BY <1>1, <2>1, ElementOfSeq
<1>7. /\ o \in Seq(Sentence) /\ Len(o) = m - keep
      /\ \A i \in 1..(m - (keep + 1) + 1) : o[i] = chunk[(keep + 1) + i - 1]
  BY <1>3, <1>5, <1>6, SubSeqProperties
<1>8. o[m - keep] = chunk[m]
  <2>1. m - keep \in 1..(m - (keep + 1) + 1)
    BY <1>5
  <2> QED
    BY <1>5, <1>7, <2>1
<1>9. o # <<>>
  BY <1>5, <1>7, EmptySeq
<1> QED
  BY <1>1, <1>4, <1>7, <1>8, <1>9

\* A text that is being cut
Parts == [closed : Seq(Seq(Sentence)), current : Seq(Sentence)]

\* The first k sentences of a text are in its parts, neighbours side by side
Told(c, text, k) ==
  /\ k > 0 => c.current # <<>> /\ c.current[Len(c.current)] = text[k]
  /\ \A i \in 1..Len(c.closed) : c.closed[i] # <<>>
  /\ \A i \in 1..(k - 1) : \/ Beside(c.current, text[i], text[i + 1])
                           \/ \E j \in 1..Len(c.closed) : Beside(c.closed[j], text[i], text[i + 1])

\* The next sentence is added beside the last, in the same chunk or the next.
LEMMA CutTells ==
  ASSUME NEW text \in Seq(Sentence), NEW k \in 1..Len(text), NEW c \in Parts,
         Told(c, text, k - 1)
  PROVE  Cut(c, text[k]) \in Parts /\ Told(Cut(c, text[k]), text, k)
<1>1. PICK e \in Sentence : e = text[k]
  BY ElementOfSeq
<1>2. k \in Nat \ {0} /\ k - 1 \in Nat
  OBVIOUS
<1>3. PICK closed \in Seq(Seq(Sentence)), current \in Seq(Sentence) :
        c.closed = closed /\ c.current = current /\ c = [closed |-> closed, current |-> current]
  BY DEF Parts
<1>4. /\ k - 1 > 0 => current # <<>> /\ current[Len(current)] = text[k - 1]
      /\ \A i \in 1..Len(closed) : closed[i] # <<>>
      /\ \A i \in 1..(k - 2) :
           \/ Beside(current, text[i], text[i + 1])
           \/ \E j \in 1..Len(closed) : Beside(closed[j], text[i], text[i + 1])
  <2>1. (k - 1) - 1 = k - 2
    BY <1>2
  <2> QED
    BY <1>3, <2>1, Zenon DEF Told
<1>5. \A i \in 1..(k - 1) : i \in 1..(k - 2) \/ (i = k - 1 /\ k - 1 > 0)
  BY <1>2
<1>6. CASE ~(current # <<>> /\ Chars(current) + SentenceLen[e] > ChunkChars)
  <2>1. PICK more \in Seq(Sentence) : more = Append(current, e)
    BY AppendProperties
  <2>2. Cut(c, e) = [closed |-> closed, current |-> more]
    BY <1>3, <1>6, <2>1 DEF Cut
  <2>3. more # <<>> /\ more[Len(more)] = e
    BY <2>1, LastAppended
  <2>4. \A a, b : Beside(current, a, b) => Beside(more, a, b)
    BY <2>1, BesideAppended
  <2>5. k - 1 > 0 => Beside(more, text[k - 1], e)
    BY <1>4, <2>1, BesideAppended
  <2>6. (k - 1) + 1 = k
    BY <1>2
  <2>7. Told([closed |-> closed, current |-> more], text, k)
    <3>1. \A i \in 1..(k - 1) :
            \/ Beside(more, text[i], text[i + 1])
            \/ \E j \in 1..Len(closed) : Beside(closed[j], text[i], text[i + 1])
      BY <1>1, <1>4, <1>5, <2>4, <2>5, <2>6
    <3> QED
      BY <1>1, <1>4, <2>3, <3>1 DEF Told
  <2> QED
    BY <1>1, <2>2, <2>7 DEF Parts
<1>7. CASE current # <<>> /\ Chars(current) + SentenceLen[e] > ChunkChars
  <2>1. PICK kept \in Seq(Sentence) : kept = Overlap(current)
    BY <1>7, OverlapIs
  <2>2. kept # <<>> /\ kept[Len(kept)] = current[Len(current)]
    BY <1>7, <2>1, OverlapIs
  <2>3. PICK more \in Seq(Sentence) : more = Append(kept, e)
    BY AppendProperties
  <2>4. PICK all \in Seq(Seq(Sentence)) : all = Append(closed, current)
    BY AppendProperties
  <2>5. Cut(c, e) = [closed |-> all, current |-> more]
    BY <1>3, <1>7, <2>1, <2>3, <2>4 DEF Cut
  <2>6. more # <<>> /\ more[Len(more)] = e
    BY <2>3, LastAppended
  <2>7. k - 1 > 0 => Beside(more, text[k - 1], e)
    BY <1>4, <2>2, <2>3, BesideAppended
  <2>8. PICK m \in Nat : m = Len(closed)
    OBVIOUS
  <2>9. Len(all) = m + 1 /\ all[m + 1] = current /\ \A i \in 1..m : all[i] = closed[i]
    BY <2>4, <2>8, AppendProperties
  <2>10. \A i \in 1..(m + 1) : i \in 1..m \/ i = m + 1
    BY <2>8
  <2>11. \A i \in 1..m : i \in 1..(m + 1)
    BY <2>8
  <2>12. m + 1 \in 1..(m + 1) /\ (k - 1) + 1 = k
    BY <1>2, <2>8
  <2>13. \A i \in 1..Len(all) : all[i] # <<>>
    BY <1>4, <1>7, <2>8, <2>9, <2>10
  <2>14. ASSUME NEW i \in 1..(k - 1)
         PROVE  \/ Beside(more, text[i], text[i + 1])
                \/ \E j \in 1..Len(all) : Beside(all[j], text[i], text[i + 1])
    <3>1. CASE i = k - 1 /\ k - 1 > 0
      BY <1>1, <2>7, <2>12, <3>1
    <3>2. CASE i \in 1..(k - 2)
      <4>1. CASE Beside(current, text[i], text[i + 1])
        BY <2>9, <2>12, <4>1
      <4>2. CASE \E j \in 1..Len(closed) : Beside(closed[j], text[i], text[i + 1])
        BY <2>8, <2>9, <2>11, <4>2
      <4> QED
        BY <1>4, <3>2, <4>1, <4>2
    <3> QED
      BY <1>5, <3>1, <3>2
  <2>15. Told([closed |-> all, current |-> more], text, k)
    BY <1>1, <2>6, <2>13, <2>14 DEF Told
  <2> QED
    BY <1>1, <2>5, <2>15 DEF Parts
<1> QED
  BY <1>6, <1>7

\* Cutting a text goes sentence by sentence.
LEMMA CutsAre ==
  ASSUME NEW text \in Seq(Sentence)
  PROVE  /\ Cuts(text) \in [0..Len(text) -> Parts]
         /\ Cuts(text)[0] = [closed |-> <<>>, current |-> <<>>]
         /\ \A k \in 1..Len(text) : Cuts(text)[k] = Cut(Cuts(text)[k - 1], text[k])
<1>1. PICK n \in Nat : n = Len(text)
  OBVIOUS
<1>2. PICK first \in Parts : first = [closed |-> <<>>, current |-> <<>>]
  BY EmptySeq DEF Parts
<1> DEFINE IsCut(f) == f = [k \in 0..n |-> IF k = 0 THEN [closed |-> <<>>, current |-> <<>>]
                                           ELSE Cut(f[k - 1], text[k])]
<1>3. Cuts(text) = CHOOSE f : IsCut(f)
  BY <1>1 DEF Cuts
<1>4. \A k \in 1..n, c \in Parts : Cut(c, text[k]) \in Parts
  <2>1. ASSUME NEW k \in 1..n, NEW c \in Parts PROVE Cut(c, text[k]) \in Parts
    <3>1. PICK e \in Sentence : e = text[k]
      BY <1>1, ElementOfSeq
    <3>2. PICK closed \in Seq(Seq(Sentence)), current \in Seq(Sentence) :
            c.closed = closed /\ c.current = current
      BY DEF Parts
    <3>3. /\ Append(current, e) \in Seq(Sentence)
          /\ Append(closed, current) \in Seq(Seq(Sentence))
      BY AppendProperties
    <3>4. current # <<>> => Append(Overlap(current), e) \in Seq(Sentence)
      BY OverlapIs, AppendProperties
    <3> QED
      BY <3>1, <3>2, <3>3, <3>4 DEF Cut, Parts
  <2> QED
    BY <2>1
<1>5. PICK next : next = [k \in 1..n |-> [c \in Parts |-> Cut(c, text[k])]]
  OBVIOUS
<1>6. next \in [1..n -> [Parts -> Parts]]
  BY <1>4, <1>5
<1>7. PICK f \in [0..n -> Parts] : f[0] = first /\ \A k \in 1..n : f[k] = next[k][f[k - 1]]
  <2>1. MakesNext(next, n, Parts)
    BY <1>6 DEF MakesNext
  <2>2. PICK f : Goes(f, n, Parts, first, next)
    BY <2>1, Recursion
  <2> QED
    BY <2>2 DEF Goes
<1>8. ASSUME NEW k \in 1..n PROVE f[k] = Cut(f[k - 1], text[k])
  <2>1. k - 1 \in 0..n
    BY <1>1
  <2>2. f[k - 1] \in Parts
    BY <2>1
  <2> QED
    BY <1>5, <1>7, <2>2
<1>9. IsCut(f)
  <2>1. f = [k \in 0..n |-> f[k]]
    OBVIOUS
  <2>2. \A k \in 0..n : k = 0 \/ k \in 1..n
    BY <1>1
  <2>3. \A k \in 0..n : f[k] = IF k = 0 THEN [closed |-> <<>>, current |-> <<>>]
                               ELSE Cut(f[k - 1], text[k])
    BY <1>2, <1>7, <1>8, <2>2
  <2> QED
    BY <2>1, <2>3
<1> HIDE DEF IsCut
<1>10. PICK g : g = Cuts(text) /\ IsCut(g)
  BY <1>3, <1>9
<1>11. /\ DOMAIN g = 0..n /\ g = [k \in 0..n |-> g[k]] /\ g[0] = first
       /\ \A k \in 1..n : g[k] = Cut(g[k - 1], text[k])
  <2>1. 0 \in 0..n /\ \A k \in 1..n : k \in 0..n /\ k # 0
    BY <1>1
  <2> QED
    BY <1>2, <1>10, <2>1 DEF IsCut
<1>12. \A k \in 0..n : g[k] \in Parts
  <2> DEFINE M == {k \in 0..n : g[k] \in Parts}
  <2>1. 0 \in M
    BY <1>1, <1>11
  <2>2. ASSUME NEW k \in 1..n, k - 1 \in M PROVE k \in M
    <3>1. g[k - 1] \in Parts /\ k \in 0..n
      BY <1>1, <2>2
    <3> QED
      BY <1>4, <1>11, <3>1
  <2>3. M \in SUBSET (0..n)
    OBVIOUS
  <2> HIDE DEF M
  <2>4. M = 0..n
    BY <2>1, <2>2, <2>3, Upwards
  <2> QED
    BY <2>4 DEF M
<1>13. g \in [0..n -> Parts]
  BY <1>11, <1>12
<1> QED
  BY <1>1, <1>2, <1>10, <1>11, <1>13

\* The chunks of a text: none is empty, and neighbours stay together
IsChunking(chunks, text) ==
  /\ chunks \in Seq(Seq(Sentence))
  /\ \A i \in 1..Len(chunks) : chunks[i] # <<>>
  /\ \A k \in 1..(Len(text) - 1) :
       \E i \in 1..Len(chunks) : Beside(chunks[i], text[k], text[k + 1])

\* Any text is chunked so.
LEMMA TextIsChunked ==
  ASSUME NEW text \in Seq(Sentence)
  PROVE  IsChunking(ChunkText(text), text)
<1>1. PICK n \in Nat : n = Len(text)
  OBVIOUS
<1>2. PICK cuts : cuts = Cuts(text)
  OBVIOUS
<1>3. /\ cuts \in [0..n -> Parts] /\ cuts[0] = [closed |-> <<>>, current |-> <<>>]
      /\ \A k \in 1..n : cuts[k] = Cut(cuts[k - 1], text[k])
  BY <1>1, <1>2, CutsAre
<1>4. Told(cuts[n], text, n)
  <2> DEFINE M == {k \in 0..n : Told(cuts[k], text, k)}
  <2>1. 0 \in M
    <3>1. cuts[0].closed = <<>> /\ Len(<<>>) = 0 /\ \A i \in 1..0 : FALSE
      BY <1>3
    <3>2. 1..(0 - 1) = {}
      OBVIOUS
    <3>3. Told(cuts[0], text, 0)
      BY <3>1, <3>2 DEF Told
    <3> QED
      BY <1>1, <3>3
  <2>2. ASSUME NEW k \in 1..n, k - 1 \in M PROVE k \in M
    <3>1. k - 1 \in 0..n /\ k \in 0..n
      BY <1>1
    <3>2. cuts[k - 1] \in Parts /\ Told(cuts[k - 1], text, k - 1)
      BY <1>3, <2>2, <3>1
    <3>3. k \in 1..Len(text)
      BY <1>1
    <3>4. Told(Cut(cuts[k - 1], text[k]), text, k)
      BY <3>2, <3>3, CutTells
    <3> QED
      BY <1>3, <3>1, <3>4
  <2>3. M \in SUBSET (0..n)
    OBVIOUS
  <2> HIDE DEF M
  <2>4. M = 0..n
    BY <2>1, <2>2, <2>3, Upwards
  <2>5. n \in 0..n
    BY <1>1
  <2> QED
    BY <2>4, <2>5 DEF M
<1>5. PICK closed \in Seq(Seq(Sentence)), current \in Seq(Sentence) :
        cuts[n] = [closed |-> closed, current |-> current]
  <2>1. n \in 0..n
    BY <1>1
  <2> QED
    BY <1>3, <2>1 DEF Parts
<1>6. /\ \A i \in 1..Len(closed) : closed[i] # <<>>
      /\ \A i \in 1..(n - 1) : \/ Beside(current, text[i], text[i + 1])
                               \/ \E j \in 1..Len(closed) : Beside(closed[j], text[i], text[i + 1])
  BY <1>4, <1>5 DEF Told
<1>7. ChunkText(text) = IF current = <<>> THEN closed ELSE Append(closed, current)
  BY <1>1, <1>2, <1>5 DEF ChunkText
<1>8. CASE current = <<>>
  <2>1. \A a, b : ~Beside(current, a, b)
    <3>1. Len(<<>>) = 0 /\ 1..(0 - 1) = {}
      OBVIOUS
    <3> QED
      BY <1>8, <3>1 DEF Beside
  <2> QED
    BY <1>1, <1>6, <1>7, <1>8, <2>1 DEF IsChunking
<1>9. CASE current # <<>>
  <2>1. PICK all \in Seq(Seq(Sentence)) : all = Append(closed, current)
    BY AppendProperties
  <2>2. PICK m \in Nat : m = Len(closed)
    OBVIOUS
  <2>3. Len(all) = m + 1 /\ all[m + 1] = current /\ \A i \in 1..m : all[i] = closed[i]
    BY <2>1, <2>2, AppendProperties
  <2>4. /\ \A i \in 1..(m + 1) : i \in 1..m \/ i = m + 1
        /\ \A i \in 1..m : i \in 1..(m + 1)
        /\ m + 1 \in 1..(m + 1)
    BY <2>2
  <2>5. \A i \in 1..Len(all) : all[i] # <<>>
    BY <1>6, <1>9, <2>2, <2>3, <2>4
  <2>6. \A k \in 1..(n - 1) : \E i \in 1..Len(all) : Beside(all[i], text[k], text[k + 1])
    BY <1>6, <2>2, <2>3, <2>4
  <2> QED
    BY <1>1, <1>7, <1>9, <2>1, <2>5, <2>6 DEF IsChunking
<1> QED
  BY <1>8, <1>9

-----------------------------------------------------------------------------
(* The best passages *)

\* Passages with scores that can be compared
AreScored(S) == IsFiniteSet(S) /\ \A x \in S : x.score \in -100..100

\* Numbers within bounds have a highest one.
LEMMA Highest ==
  ASSUME NEW T \in SUBSET (-100..100), T # {}
  PROVE  Max(T) \in T /\ \A y \in T : y <= Max(T)
<1> DEFINE Low == {100 - y : y \in T}
<1>1. Low \in SUBSET Nat /\ Low # {}
  <2>1. \A z \in Low : z \in Nat
    OBVIOUS
  <2>2. Low # {}
    OBVIOUS
  <2> QED
    BY <2>1, <2>2
<1>2. PICK m \in Low : \A z \in Low : ~ (<<z, m>> \in OpToRel(<, Nat))
  <2> HIDE DEF Low
  <2> QED
    BY <1>1, NatLessThanWellFounded, WFMin
<1>3. \A z \in Low : ~ (z < m)
  BY <1>1, <1>2 DEF OpToRel
<1>4. PICK x \in T : m = 100 - x
  BY <1>2
<1>5. ASSUME NEW y \in T PROVE y <= x
  <2>1. ~ (100 - y < 100 - x)
    BY <1>3, <1>4
  <2>2. x \in Int /\ y \in Int
    OBVIOUS
  <2> HIDE DEF Low
  <2> QED
    BY <2>1, <2>2
<1>6. x \in T /\ \A y \in T : x >= y
  <2>1. \A y \in T : y \in Int
    OBVIOUS
  <2> HIDE DEF Low
  <2> QED
    BY <1>5, <2>1
<1>7. Max(T) \in T /\ \A y \in T : Max(T) >= y
  BY <1>6 DEF Max
<1> QED
  <2>1. \A y \in T : y \in Int
    OBVIOUS
  <2> HIDE DEF Low
  <2> QED
    BY <1>7, <2>1

\* There is a best passage.
LEMMA BestIs ==
  ASSUME NEW S, S # {}, \A x \in S : x.score \in -100..100
  PROVE  Best(S) \in S /\ \A x \in S : x.score <= Best(S).score
<1> DEFINE T == {x.score : x \in S}
<1>1. T \in SUBSET (-100..100) /\ T # {}
  OBVIOUS
<1>2. PICK m \in T : \A y \in T : y <= m
  BY <1>1, Highest
<1>3. PICK p \in S : m = p.score
  BY <1>2
<1>4. \A x \in S : x.score <= p.score
  BY <1>2, <1>3
<1> QED
  BY <1>4 DEF Best

\* As many members as places, where no place repeats another.
LEMMA PlacesCount ==
  ASSUME NEW S, NEW s \in Seq(S), \A i, j \in 1..Len(s) : s[i] = s[j] => i = j
  PROVE  IsFiniteSet(Range(s)) /\ Cardinality(Range(s)) = Len(s)
<1>1. PICK n \in Nat : n = Len(s)
  OBVIOUS
<1>2. DOMAIN s = 1..n /\ s = [i \in 1..n |-> s[i]]
  BY <1>1
<1>3. s \in [1..n -> Range(s)]
  BY <1>2 DEF Range
<1>4. s \in Injection(1..n, Range(s)) /\ s \in Surjection(1..n, Range(s))
  <2>1. \A t \in Range(s) : \E i \in 1..n : s[i] = t
    BY <1>2 DEF Range
  <2>2. IsInjective(s)
    BY <1>1, <1>2 DEF IsInjective
  <2> QED
    BY <1>3, <2>1, <2>2 DEF Injection, Surjection
<1>5. ExistsBijection(1..n, Range(s))
  BY <1>4 DEF ExistsBijection, Bijection
<1> QED
  BY <1>1, <1>5, FS_NatBijection, FS_CountingElements

\* The k best of a set, the best first
IsRanking(s, S, k) ==
  /\ s \in Seq(S) /\ Len(s) = k
  /\ \A i, j \in 1..k : s[i] = s[j] => i = j
  /\ \A x \in S \ Range(s) : \A i \in 1..k : x.score <= s[i].score

\* The next best.
LEMMA NextBest ==
  ASSUME NEW S, AreScored(S), NEW k \in Nat \ {0}, k <= Cardinality(S),
         NEW s, IsRanking(s, S, k - 1)
  PROVE  IsRanking(Append(s, Best(S \ Range(s))), S, k)
<1>1. PICK m \in Nat : m = k - 1 /\ k = m + 1 /\ m < k
  OBVIOUS
<1>2. /\ s \in Seq(S) /\ Len(s) = m
      /\ \A i, j \in 1..m : s[i] = s[j] => i = j
      /\ \A x \in S \ Range(s) : \A i \in 1..m : x.score <= s[i].score
  BY <1>1 DEF IsRanking
<1>3. PICK left : left = S \ Range(s)
  OBVIOUS
<1>4. left # {}
  <2>1. IsFiniteSet(Range(s)) /\ Cardinality(Range(s)) = m
    BY <1>2, PlacesCount
  <2>2. S # Range(s)
    BY <1>1, <2>1
  <2>3. Range(s) \subseteq S
    BY <1>2 DEF Range
  <2> QED
    BY <1>3, <2>2, <2>3
<1>5. PICK p \in S : p = Best(left) /\ p \in left /\ \A x \in left : x.score <= p.score
  <2>1. \A x \in left : x.score \in -100..100
    BY <1>3 DEF AreScored
  <2>2. left \subseteq S
    BY <1>3
  <2> QED
    BY <1>4, <2>1, <2>2, BestIs
<1>6. PICK t : t = Append(s, p)
  OBVIOUS
<1>7. t \in Seq(S) /\ Len(t) = m + 1 /\ t[m + 1] = p /\ \A i \in 1..m : t[i] = s[i]
  BY <1>2, <1>6, AppendProperties
<1>8. \A i \in 1..(m + 1) : i \in 1..m \/ i = m + 1
  BY <1>1
<1>9. \A i \in 1..m : s[i] \in Range(s) /\ s[i] # p
  <2>1. \A i \in 1..m : s[i] \in Range(s)
    BY <1>2 DEF Range
  <2> QED
    BY <1>3, <1>5, <2>1
<1>10. \A i, j \in 1..(m + 1) : t[i] = t[j] => i = j
  BY <1>2, <1>7, <1>8, <1>9
<1>11. Range(s) \subseteq Range(t) /\ p \in Range(t)
  <2>1. DOMAIN t = 1..(m + 1) /\ DOMAIN s = 1..m
    BY <1>1, <1>2, <1>7
  <2>2. \A i \in 1..m : i \in 1..(m + 1)
    BY <1>1
  <2>3. m + 1 \in 1..(m + 1)
    BY <1>1
  <2> QED
    BY <1>7, <2>1, <2>2, <2>3 DEF Range
<1>12. \A x \in S \ Range(t) : x \in left
  BY <1>3, <1>11
<1>13. \A x \in S \ Range(t) : \A i \in 1..(m + 1) : x.score <= t[i].score
  BY <1>2, <1>3, <1>5, <1>7, <1>8, <1>12
<1>14. IsRanking(t, S, m + 1)
  BY <1>7, <1>10, <1>13 DEF IsRanking
<1> QED
  BY <1>1, <1>3, <1>5, <1>6, <1>14

\* Taking the best, one after the other, ranks them.
LEMMA RankedRanks ==
  ASSUME NEW S, AreScored(S), NEW n \in Nat, n <= Cardinality(S)
  PROVE  IsRanking(Ranked(S, n)[n], S, n)
<1> DEFINE Next1(s) == Append(s, Best(S \ Range(s)))
           IsIt(f) == f = [k \in 0..n |-> IF k = 0 THEN <<>> ELSE Next1(f[k - 1])]
           Kept(s) == IF Next1(s) \in Seq(S) THEN Next1(s) ELSE s
<1>1. Ranked(S, n) = CHOOSE f : IsIt(f)
  BY DEF Ranked
<1>2. IsRanking(<<>>, S, 0) /\ <<>> \in Seq(S)
  <2>1. <<>> \in Seq(S) /\ Len(<<>>) = 0 /\ \A i \in 1..0 : FALSE
    BY EmptySeq
  <2> QED
    BY <2>1 DEF IsRanking
<1>3. Cardinality(S) \in Nat
  BY FS_CardinalityType DEF AreScored
<1>4. ASSUME NEW k \in 1..n, NEW s, IsRanking(s, S, k - 1) PROVE IsRanking(Next1(s), S, k)
  <2>1. k \in Nat \ {0} /\ k <= Cardinality(S)
    BY <1>3
  <2> QED
    BY <1>4, <2>1, NextBest
<1>5. PICK next : next = [k \in 1..n |-> [s \in Seq(S) |-> Kept(s)]]
  OBVIOUS
<1>6. MakesNext(next, n, Seq(S))
  BY <1>5 DEF MakesNext
<1>7. PICK f : Goes(f, n, Seq(S), <<>>, next)
  BY <1>2, <1>6, Recursion
<1>8. \A k \in 1..n : k - 1 \in 0..n /\ k \in 0..n /\ k # 0
  OBVIOUS
<1>9. ASSUME NEW k \in 1..n PROVE f[k] = Kept(f[k - 1])
  BY <1>5, <1>7, <1>8 DEF Goes
<1>10. \A k \in 0..n : IsRanking(f[k], S, k)
  <2> DEFINE M == {k \in 0..n : IsRanking(f[k], S, k)}
  <2> HIDE DEF Next1
  <2>1. 0 \in M
    BY <1>2, <1>7 DEF Goes
  <2>2. ASSUME NEW k \in 1..n, k - 1 \in M PROVE k \in M
    <3>1. IsRanking(Next1(f[k - 1]), S, k)
      BY <1>4, <2>2
    <3>2. f[k] = Next1(f[k - 1])
      BY <1>9, <3>1 DEF IsRanking
    <3> QED
      BY <1>8, <3>1, <3>2
  <2>3. M \in SUBSET (0..n)
    OBVIOUS
  <2> HIDE DEF M
  <2>4. M = 0..n
    BY <2>1, <2>2, <2>3, Upwards
  <2> QED
    BY <2>4 DEF M
<1>11. IsIt(f)
  <2> HIDE DEF Next1
  <2>1. ASSUME NEW k \in 1..n PROVE f[k] = Next1(f[k - 1])
    <3>1. IsRanking(Next1(f[k - 1]), S, k)
      BY <1>4, <1>8, <1>10
    <3> QED
      BY <1>9, <3>1 DEF IsRanking
  <2>2. f[0] = <<>> /\ f = [k \in 0..n |-> f[k]]
    BY <1>7 DEF Goes
  <2>3. \A k \in 0..n : k = 0 \/ k \in 1..n
    OBVIOUS
  <2>4. \A k \in 0..n : f[k] = IF k = 0 THEN <<>> ELSE Next1(f[k - 1])
    BY <2>1, <2>2, <2>3
  <2> QED
    BY <2>2, <2>4
<1> HIDE DEF IsIt
<1>12. PICK g : g = Ranked(S, n) /\ IsIt(g)
  BY <1>1, <1>11
<1>13. g[0] = <<>> /\ \A k \in 1..n : g[k] = Next1(g[k - 1])
  <2> HIDE DEF Next1
  <2>1. 0 \in 0..n
    OBVIOUS
  <2> QED
    BY <1>8, <1>12, <2>1 DEF IsIt
<1>14. \A k \in 0..n : IsRanking(g[k], S, k)
  <2> DEFINE M == {k \in 0..n : IsRanking(g[k], S, k)}
  <2> HIDE DEF Next1
  <2>1. 0 \in M
    BY <1>2, <1>13
  <2>2. ASSUME NEW k \in 1..n, k - 1 \in M PROVE k \in M
    BY <1>4, <1>8, <1>13, <2>2
  <2>3. M \in SUBSET (0..n)
    OBVIOUS
  <2> HIDE DEF M
  <2>4. M = 0..n
    BY <2>1, <2>2, <2>3, Upwards
  <2> QED
    BY <2>4 DEF M
<1>15. n \in 0..n
  OBVIOUS
<1> QED
  BY <1>12, <1>14, <1>15

\* The best of them: all there are, or as many as are asked for and none better left out.
LEMMA BestOfIs ==
  ASSUME NEW S, AreScored(S)
  PROVE  /\ BestOf(S) \in Seq(S)
         /\ \A x \in S : \/ \E k \in 1..Len(BestOf(S)) : BestOf(S)[k] = x
                         \/ /\ Len(BestOf(S)) = TopK
                            /\ \A k \in 1..Len(BestOf(S)) : x.score <= BestOf(S)[k].score
<1>1. PICK c \in Nat : c = Cardinality(S)
  BY FS_CardinalityType DEF AreScored
<1>2. PICK top \in Nat : top = TopK
  BY KnowledgeBounds
<1>3. PICK n \in Nat : n = (IF c < top THEN c ELSE top) /\ n <= c
  BY <1>1, <1>2
<1>4. PICK s : s = Ranked(S, n)[n]
  OBVIOUS
<1>5. s = BestOf(S)
  BY <1>1, <1>2, <1>3, <1>4 DEF BestOf
<1>6. IsRanking(s, S, n)
  BY <1>1, <1>3, <1>4, RankedRanks
<1>7. ASSUME NEW x \in S
      PROVE  \/ \E k \in 1..Len(s) : s[k] = x
             \/ Len(s) = TopK /\ \A k \in 1..Len(s) : x.score <= s[k].score
  <2>1. CASE x \in Range(s)
    BY <1>6, <2>1 DEF IsRanking, Range
  <2>2. CASE x \notin Range(s)
    <3>1. Cardinality(Range(s)) = n /\ IsFiniteSet(Range(s)) /\ Range(s) \subseteq S
      <4>1. s \in Seq(S) /\ Len(s) = n /\ \A i, j \in 1..Len(s) : s[i] = s[j] => i = j
        BY <1>6 DEF IsRanking
      <4>2. IsFiniteSet(Range(s)) /\ Cardinality(Range(s)) = Len(s)
        BY <4>1, PlacesCount
      <4>3. Range(s) \subseteq S
        BY <4>1 DEF Range
      <4> QED
        BY <4>1, <4>2, <4>3
    <3>2. n # c
      <4>1. SUFFICES ASSUME n = c PROVE FALSE
        OBVIOUS
      <4>2. Range(s) \in SUBSET S /\ Cardinality(S) = Cardinality(Range(s))
        BY <1>1, <3>1, <4>1
      <4>3. S = Range(s)
        BY <4>2, FS_Subset DEF AreScored
      <4> QED
        BY <2>2, <4>3
    <3>3. n = TopK
      BY <1>2, <1>3, <3>2
    <3> QED
      BY <1>6, <2>2, <3>3 DEF IsRanking
  <2> QED
    BY <2>1, <2>2
<1> QED
  BY <1>5, <1>6, <1>7 DEF IsRanking

-----------------------------------------------------------------------------
(* What is held can be found *)

\* The image of a finite set is finite.
LEMMA ImageIsFinite ==
  ASSUME NEW S, IsFiniteSet(S), NEW f, DOMAIN f = S
  PROVE  IsFiniteSet({f[x] : x \in S})
<1> DEFINE T == {f[x] : x \in S}
           g == [x \in S |-> f[x]]
<1>1. g \in Surjection(S, T)
  BY DEF Surjection
<1> HIDE DEF T, g
<1>2. IsFiniteSet(T)
  BY <1>1, FS_Surjection
<1> QED
  BY <1>2 DEF T

\* The documents a node holds: each with the chunks of its text, and guidance out of a pack
DocumentsSound ==
  /\ IsFiniteSet(DOMAIN documents) /\ DOMAIN documents \subseteq Seq(Sentence)
  /\ \A text \in DOMAIN documents :
       /\ documents[text].chunks = ChunkText(text)
       /\ documents[text].source = SourceType => \E b \in DOMAIN Pack : text \in Range(Pack[b])

\* An installation that is under way has left what it went through.
InstallSound ==
  /\ build \in DOMAIN Pack
  /\ \/ installing = Idle
     \/ /\ installing \in Nat /\ installing < Len(Pack[build])
        /\ \A i \in 1..installing : Pack[build][i] \in DOMAIN documents

\* What holds of a node's records, whatever was imported, installed, indexed or restarted
KnowledgeInv ==
  /\ DocumentsSound /\ InstallSound /\ ReportedPackIsHeld
  /\ incidents \subseteq Reports /\ IsFiniteSet(Subjects) /\ IsFiniteSet(vectors)

\* Importing keeps the documents sound, and every subject with its content.
LEMMA ImportKeeps ==
  ASSUME KnowledgeInv, NEW text \in Seq(Sentence), NEW source,
         source = SourceType => \E b \in DOMAIN Pack : text \in Range(Pack[b]),
         documents' = Imported(text, source), incidents' = incidents
  PROVE  /\ DocumentsSound' /\ IsFiniteSet(Subjects')
         /\ DOMAIN documents' = DOMAIN documents \cup {text}
         /\ \A t \in DOMAIN documents : documents'[t] = documents[t]
<1>1. /\ DOMAIN documents' = DOMAIN documents \cup {text}
      /\ \A t \in DOMAIN documents : documents'[t] = documents[t]
      /\ text \notin DOMAIN documents =>
           documents'[text] = [source |-> source, chunks |-> ChunkText(text)]
  <2>1. CASE text \in DOMAIN documents
    BY <2>1 DEF Imported
  <2>2. CASE text \notin DOMAIN documents
    BY <2>2 DEF Imported
  <2> QED
    BY <2>1, <2>2
<1>2. DocumentsSound'
  <2>1. /\ IsFiniteSet(DOMAIN documents) /\ DOMAIN documents \subseteq Seq(Sentence)
        /\ \A t \in DOMAIN documents :
             /\ documents[t].chunks = ChunkText(t)
             /\ documents[t].source = SourceType => \E b \in DOMAIN Pack : t \in Range(Pack[b])
    BY DEF KnowledgeInv, DocumentsSound
  <2>2. IsFiniteSet(DOMAIN documents')
    BY <1>1, <2>1, FS_AddElement
  <2>3. ASSUME NEW t \in DOMAIN documents'
        PROVE  /\ documents'[t].chunks = ChunkText(t)
               /\ documents'[t].source = SourceType => \E b \in DOMAIN Pack : t \in Range(Pack[b])
    <3>1. CASE t \in DOMAIN documents
      BY <1>1, <2>1, <3>1
    <3>2. CASE t \notin DOMAIN documents
      <4>1. t = text /\ documents'[t] = [source |-> source, chunks |-> ChunkText(t)]
        BY <1>1, <3>2
      <4> QED
        BY <4>1
    <3> QED
      BY <3>1, <3>2
  <2> QED
    BY <1>1, <2>1, <2>2, <2>3 DEF DocumentsSound
<1>3. PICK fresh : fresh = {Chunk(text, k) : k \in DOMAIN documents'[text].chunks}
  OBVIOUS
<1>4. IsFiniteSet(fresh)
  <2>1. PICK chunks \in Seq(Seq(Sentence)) : chunks = documents'[text].chunks
    <3>1. documents'[text].chunks = ChunkText(text)
      BY <1>1, <1>2 DEF DocumentsSound
    <3>2. ChunkText(text) \in Seq(Seq(Sentence))
      BY TextIsChunked DEF IsChunking
    <3> QED
      BY <3>1, <3>2
  <2>2. PICK n \in Nat : n = Len(chunks) /\ DOMAIN chunks = 1..n
    OBVIOUS
  <2>3. PICK f : f = [k \in 1..n |-> Chunk(text, k)]
    OBVIOUS
  <2>4. DOMAIN f = 1..n /\ \A k \in 1..n : f[k] = Chunk(text, k)
    BY <2>3
  <2>5. IsFiniteSet(1..n)
    BY <2>2, FS_Interval
  <2>6. IsFiniteSet({f[k] : k \in 1..n})
    BY <2>4, <2>5, ImageIsFinite
  <2>7. fresh = {f[k] : k \in 1..n}
    BY <1>3, <2>1, <2>2, <2>4
  <2> QED
    BY <2>6, <2>7
<1>5. Subjects' \subseteq Subjects \cup fresh
  <2>1. ASSUME NEW s \in Subjects' PROVE s \in Subjects \cup fresh
    <3>1. CASE \E r \in incidents : s = Incident(r)
      BY <3>1 DEF Subjects
    <3>2. CASE \E t \in DOMAIN documents' : \E k \in DOMAIN documents'[t].chunks : s = Chunk(t, k)
      <4>1. PICK t \in DOMAIN documents' : \E k \in DOMAIN documents'[t].chunks : s = Chunk(t, k)
        BY <3>2
      <4>2. CASE t \in DOMAIN documents
        BY <1>1, <4>1, <4>2 DEF Subjects
      <4>3. CASE t = text
        BY <1>3, <4>1, <4>3
      <4> QED
        BY <1>1, <4>2, <4>3
    <3> QED
      BY <3>1, <3>2 DEF Subjects
  <2> QED
    BY <2>1
<1>6. IsFiniteSet(Subjects')
  BY <1>4, <1>5, FS_Union, FS_Subset DEF KnowledgeInv
<1> QED
  BY <1>1, <1>2, <1>6

\* The first records
LEMMA KnowledgeStart ==
  KnowledgeInit => KnowledgeInv
<1> SUFFICES ASSUME KnowledgeInit PROVE KnowledgeInv
  OBVIOUS
<1>1. documents = <<>> /\ incidents = {} /\ vectors = {} /\ build = 1 /\ installing = Idle
      /\ reported = {}
  BY DEF KnowledgeInit
<1>2. DOMAIN documents = {}
  BY <1>1
<1>3. DocumentsSound
  BY <1>2, FS_EmptySet DEF DocumentsSound
<1>4. InstallSound
  BY <1>1, PackAssumption DEF InstallSound
<1>5. IsFiniteSet(Subjects)
  <2>1. Subjects = {}
    BY <1>1, <1>2 DEF Subjects
  <2> QED
    BY <2>1, FS_EmptySet
<1> QED
  BY <1>1, <1>3, <1>4, <1>5, FS_EmptySet DEF KnowledgeInv, ReportedPackIsHeld

\* Documents that stay held leave what was reported and installed.
LEMMA HeldStays ==
  ASSUME KnowledgeInv, DOMAIN documents \subseteq DOMAIN documents'
  PROVE  /\ reported' = reported => ReportedPackIsHeld'
         /\ UNCHANGED <<build, installing>> => InstallSound'
  BY DEF KnowledgeInv, ReportedPackIsHeld, InstallSound

\* A document of the pack is installed.
LEMMA InstallKeeps ==
  ASSUME KnowledgeInv, InstallStep
  PROVE  KnowledgeInv'
<1>1. PICK pack \in Seq(Seq(Sentence)), b \in DOMAIN Pack :
        b = build /\ pack = Pack[b] /\ build \in DOMAIN Pack
  BY PackAssumption DEF KnowledgeInv, InstallSound
<1>2. PICK k \in Nat, n \in Nat :
        k = installing /\ n = Len(pack) /\ k < n /\ \A i \in 1..k : pack[i] \in DOMAIN documents
  BY <1>1 DEF KnowledgeInv, InstallSound, InstallStep
<1>3. k + 1 \in 1..n /\ DOMAIN pack = 1..n
  BY <1>2
<1>4. PICK text \in Seq(Sentence) : text = pack[k + 1]
  BY <1>2, <1>3, ElementOfSeq
<1>5. /\ documents' = Imported(text, SourceType)
      /\ installing' = IF k + 1 = n THEN Idle ELSE k + 1
      /\ reported' = IF k + 1 = n THEN reported \cup {b} ELSE reported
      /\ incidents' = incidents /\ vectors' = vectors /\ build' = b
  BY <1>1, <1>2, <1>4 DEF InstallStep
<1>6. /\ DocumentsSound' /\ IsFiniteSet(Subjects')
      /\ DOMAIN documents' = DOMAIN documents \cup {text}
  <2>1. text \in Range(Pack[b])
    BY <1>1, <1>3, <1>4 DEF Range
  <2>2. SourceType = SourceType => \E c \in DOMAIN Pack : text \in Range(Pack[c])
    BY <2>1
  <2> QED
    BY <1>5, <2>2, ImportKeeps
<1>7. \A i \in 1..(k + 1) : pack[i] \in DOMAIN documents'
  <2>1. \A i \in 1..(k + 1) : i \in 1..k \/ i = k + 1
    BY <1>2
  <2> QED
    BY <1>2, <1>4, <1>6, <2>1
<1>8. InstallSound'
  <2>1. k + 1 # n => k + 1 \in Nat /\ k + 1 < n
    BY <1>2
  <2> QED
    BY <1>1, <1>2, <1>5, <1>7, <2>1 DEF InstallSound
<1>9. ReportedPackIsHeld'
  <2>1. \A c \in reported : Range(Pack[c]) \subseteq DOMAIN documents
    BY DEF KnowledgeInv, ReportedPackIsHeld
  <2>2. k + 1 = n => Range(Pack[b]) \subseteq DOMAIN documents'
    BY <1>1, <1>3, <1>7 DEF Range
  <2> QED
    BY <1>5, <1>6, <2>1, <2>2 DEF ReportedPackIsHeld
<1> QED
  BY <1>5, <1>6, <1>8, <1>9 DEF KnowledgeInv

\* What waits is embedded.
LEMMA IndexKeeps ==
  ASSUME KnowledgeInv, NEW missed, IndexPending(missed)
  PROVE  KnowledgeInv'
<1>1. /\ vectors' = vectors \cup {<<s, model>> : s \in Awaiting \ missed}
      /\ UNCHANGED <<documents, incidents, build, installing, reported>>
  BY DEF IndexPending
<1>2. PICK more : more = Awaiting \ missed
  OBVIOUS
<1>3. IsFiniteSet(more)
  <2>1. more \in SUBSET Subjects
    BY <1>2 DEF Awaiting
  <2> QED
    BY <2>1, FS_Subset DEF KnowledgeInv
<1>4. IsFiniteSet(vectors')
  <2>1. PICK f : f = [s \in more |-> <<s, model>>]
    OBVIOUS
  <2>2. DOMAIN f = more /\ \A s \in more : f[s] = <<s, model>>
    BY <2>1
  <2>3. IsFiniteSet({f[s] : s \in more})
    BY <1>3, <2>2, ImageIsFinite
  <2>4. vectors' = vectors \cup {f[s] : s \in more}
    BY <1>1, <1>2, <2>2
  <2> QED
    BY <2>3, <2>4, FS_Union DEF KnowledgeInv
<1>5. Subjects' = Subjects
  BY <1>1 DEF Subjects
<1> QED
  BY <1>1, <1>4, <1>5
  DEF KnowledgeInv, DocumentsSound, InstallSound, ReportedPackIsHeld

\* Every step keeps it.
LEMMA KnowledgeKeeps ==
  ASSUME KnowledgeInv, [KnowledgeNext]_knowledgeVars
  PROVE  KnowledgeInv'
<1>1. CASE UNCHANGED knowledgeVars
  <2>1. UNCHANGED <<documents, incidents, vectors, build, installing, reported>>
    BY <1>1 DEF knowledgeVars
  <2>2. Subjects' = Subjects
    BY <2>1 DEF Subjects
  <2> QED
    BY <2>1, <2>2 DEF KnowledgeInv, DocumentsSound, InstallSound, ReportedPackIsHeld
<1>2. ASSUME NEW text \in Texts, IngestDocument(text) PROVE KnowledgeInv'
  <2>1. /\ documents' = Imported(text, "IMPORTED")
        /\ UNCHANGED <<incidents, vectors, build, installing, reported>>
    BY <1>2 DEF IngestDocument
  <2>2. text \in Seq(Sentence) /\ "IMPORTED" # SourceType
    BY TextAssumption DEF SourceType
  <2>3. /\ DocumentsSound' /\ IsFiniteSet(Subjects')
        /\ DOMAIN documents' = DOMAIN documents \cup {text}
    BY <2>1, <2>2, ImportKeeps
  <2>4. ReportedPackIsHeld' /\ InstallSound'
    BY <2>1, <2>3, HeldStays
  <2> QED
    BY <2>1, <2>3, <2>4 DEF KnowledgeInv
<1>3. ASSUME NEW text \in Reports, HoldIncident(text) PROVE KnowledgeInv'
  <2>1. /\ incidents' = incidents \cup {text}
        /\ UNCHANGED <<documents, vectors, build, installing, reported>>
    BY <1>3 DEF HoldIncident
  <2>2. Subjects' = Subjects \cup {Incident(text)}
    BY <2>1 DEF Subjects
  <2>3. IsFiniteSet(Subjects')
    BY <2>2, FS_AddElement DEF KnowledgeInv
  <2>4. incidents' \subseteq Reports
    BY <2>1 DEF KnowledgeInv
  <2> QED
    BY <2>1, <2>3, <2>4
    DEF KnowledgeInv, DocumentsSound, InstallSound, ReportedPackIsHeld
<1>4. CASE StartInstall
  <2>1. installing' = 0 /\ UNCHANGED <<documents, incidents, vectors, build, reported>>
    BY <1>4 DEF StartInstall
  <2>2. Subjects' = Subjects
    BY <2>1 DEF Subjects
  <2>3. InstallSound'
    <3>1. build \in DOMAIN Pack
      BY DEF KnowledgeInv, InstallSound
    <3>2. PICK pack \in Seq(Seq(Sentence)) : pack = Pack[build] /\ pack # <<>>
      BY <3>1, PackAssumption
    <3>3. PICK n \in Nat : n = Len(pack)
      OBVIOUS
    <3>4. 0 < n
      BY <3>2, <3>3, EmptySeq
    <3>5. \A i \in 1..0 : FALSE
      OBVIOUS
    <3> QED
      BY <2>1, <3>1, <3>2, <3>3, <3>4, <3>5 DEF InstallSound
  <2> QED
    BY <2>1, <2>2, <2>3 DEF KnowledgeInv, DocumentsSound, ReportedPackIsHeld
<1>5. CASE InstallStep
  BY <1>5, InstallKeeps
<1>6. ASSUME NEW missed, IndexPending(missed) PROVE KnowledgeInv'
  BY <1>6, IndexKeeps
<1>7. ASSUME NEW m \in EmbeddingModels, NEW b \in DOMAIN Pack, Restart(m, b) PROVE KnowledgeInv'
  <2>1. /\ build' = b /\ installing' = Idle
        /\ UNCHANGED <<documents, incidents, vectors, reported>>
    BY <1>7 DEF Restart
  <2>2. Subjects' = Subjects
    BY <2>1 DEF Subjects
  <2> QED
    BY <2>1, <2>2 DEF KnowledgeInv, DocumentsSound, InstallSound, ReportedPackIsHeld
<1> QED
  BY <1>1, <1>2, <1>3, <1>4, <1>5, <1>6, <1>7 DEF KnowledgeNext, Learn

\* What a subject says is a text with something in it.
LEMMA ContentIs ==
  ASSUME KnowledgeInv, NEW s \in Subjects
  PROVE  Content(s) \in Seq(Sentence) /\ Content(s) # <<>>
<1>1. CASE \E r \in incidents : s = Incident(r)
  <2>1. PICK r \in incidents : s = Incident(r)
    BY <1>1
  <2>2. r \in Sentence
    BY TextAssumption DEF KnowledgeInv
  <2>3. Content(s) = <<r>>
    BY <2>1 DEF Content, Incident
  <2> QED
    BY <2>2, <2>3
<1>2. CASE \E t \in DOMAIN documents : \E k \in DOMAIN documents[t].chunks : s = Chunk(t, k)
  <2>1. PICK t \in DOMAIN documents : \E k \in DOMAIN documents[t].chunks : s = Chunk(t, k)
    BY <1>2
  <2>2. PICK chunks : chunks = documents[t].chunks
    OBVIOUS
  <2>3. IsChunking(chunks, t)
    BY <2>2, TextIsChunked DEF KnowledgeInv, DocumentsSound
  <2>4. PICK k \in DOMAIN chunks : s = Chunk(t, k)
    BY <2>1, <2>2
  <2>5. Content(s) = chunks[k]
    BY <2>2, <2>4 DEF Content, Chunk
  <2>6. chunks \in Seq(Seq(Sentence)) /\ \A i \in 1..Len(chunks) : chunks[i] # <<>>
    BY <2>3 DEF IsChunking
  <2>7. k \in 1..Len(chunks)
    BY <2>6
  <2> QED
    BY <2>5, <2>6, <2>7, ElementOfSeq
<1> QED
  BY <1>1, <1>2 DEF Subjects

\* How well it matches can be compared.
LEMMA MatchIs ==
  ASSUME KnowledgeInv, NEW q \in DOMAIN Relevance, NEW s \in Subjects
  PROVE  Match(q, s) \in -100..100
<1>1. PICK content \in Seq(Sentence) : content = Content(s) /\ content # <<>>
  BY ContentIs
<1>2. PICK n \in Nat : n = Len(content) /\ n # 0 /\ DOMAIN content = 1..n
  BY <1>1, EmptySeq
<1>3. content[1] \in Range(content) /\ Range(content) \subseteq Sentence
  <2>1. 1 \in 1..n
    BY <1>2
  <2>2. \A i \in 1..n : content[i] \in Sentence
    BY <1>2, ElementOfSeq
  <2> QED
    BY <1>2, <2>1, <2>2 DEF Range
<1>4. PICK T : T = {Relevance[q][x] : x \in Range(content)}
  OBVIOUS
<1>5. T \in SUBSET (-100..100) /\ T # {}
  <2>1. \A y \in T : y \in -100..100
    BY <1>3, <1>4, TextAssumption
  <2>2. Relevance[q][content[1]] \in T
    BY <1>3, <1>4
  <2> QED
    BY <2>1, <2>2
<1>6. Max(T) \in -100..100
  BY <1>5, Highest
<1> QED
  BY <1>1, <1>4, <1>6 DEF Match

\* What a search chooses from
Relevant(q) == {p \in {Passage(q, s) : s \in Indexed} : p.score >= MinRelevance}

\* A search chooses among passages that can be compared, each of a subject with a vector.
LEMMA RelevantIs ==
  ASSUME KnowledgeInv, NEW q \in DOMAIN Relevance
  PROVE  /\ AreScored(Relevant(q)) /\ Search(q) = BestOf(Relevant(q))
         /\ \A p \in Relevant(q) :
              \E s \in Indexed : p = Passage(q, s) /\ Match(q, s) >= MinRelevance
         /\ \A s \in Indexed : Match(q, s) >= MinRelevance => Passage(q, s) \in Relevant(q)
<1>1. \A s : Passage(q, s).score = Match(q, s)
  BY DEF Passage
<1>2. Indexed \in SUBSET Subjects
  BY DEF Indexed
<1>3. PICK of : of = [s \in Indexed |-> Passage(q, s)]
  OBVIOUS
<1>4. DOMAIN of = Indexed /\ \A s \in Indexed : of[s] = Passage(q, s)
  BY <1>3
<1>5. IsFiniteSet(Indexed)
  BY <1>2, FS_Subset DEF KnowledgeInv
<1>6. IsFiniteSet({of[s] : s \in Indexed})
  BY <1>4, <1>5, ImageIsFinite
<1>7. Relevant(q) \in SUBSET {of[s] : s \in Indexed}
  BY <1>4 DEF Relevant
<1>8. IsFiniteSet(Relevant(q))
  BY <1>6, <1>7, FS_Subset
<1>9. \A p \in Relevant(q) : \E s \in Indexed : p = Passage(q, s) /\ Match(q, s) >= MinRelevance
  BY <1>1 DEF Relevant
<1>10. \A p \in Relevant(q) : p.score \in -100..100
  BY <1>1, <1>2, <1>9, MatchIs
<1>11. \A s \in Indexed : Match(q, s) >= MinRelevance => Passage(q, s) \in Relevant(q)
  BY <1>1 DEF Relevant
<1>12. Search(q) = BestOf(Relevant(q))
  BY DEF Search, Relevant
<1> QED
  BY <1>8, <1>9, <1>10, <1>11, <1>12 DEF AreScored

\* What is held waits, or is found.
LEMMA HeldIsFound ==
  ASSUME KnowledgeInv
  PROVE  AwaitingOrFound
<1>1. ASSUME NEW q \in DOMAIN Relevance, NEW s \in Subjects \ Awaiting, Match(q, s) >= MinRelevance
      PROVE  \/ \E k \in DOMAIN Search(q) : Search(q)[k].subject = s
             \/ /\ Len(Search(q)) = TopK
                /\ \A k \in DOMAIN Search(q) : Search(q)[k].score >= Match(q, s)
  <2>1. AreScored(Relevant(q)) /\ Search(q) = BestOf(Relevant(q))
    BY RelevantIs
  <2>2. s \in Indexed
    BY DEF Indexed, Awaiting
  <2>3. PICK p \in Relevant(q) : p = Passage(q, s)
    BY <1>1, <2>2, RelevantIs
  <2>4. p.subject = s /\ p.score = Match(q, s) /\ p.score \in Int
    <3>1. p.subject = s /\ p.score = Match(q, s)
      BY <2>3 DEF Passage
    <3>2. p.score \in Int
      BY <2>1 DEF AreScored
    <3> QED
      BY <3>1, <3>2
  <2>5. PICK found \in Seq(Relevant(q)) :
          /\ found = Search(q)
          /\ \/ \E k \in 1..Len(found) : found[k] = p
             \/ Len(found) = TopK /\ \A k \in 1..Len(found) : p.score <= found[k].score
    <3>1. /\ BestOf(Relevant(q)) \in Seq(Relevant(q))
          /\ \/ \E k \in 1..Len(BestOf(Relevant(q))) : BestOf(Relevant(q))[k] = p
             \/ /\ Len(BestOf(Relevant(q))) = TopK
                /\ \A k \in 1..Len(BestOf(Relevant(q))) : p.score <= BestOf(Relevant(q))[k].score
      BY <2>1, BestOfIs
    <3> QED
      BY <2>1, <3>1
  <2>6. DOMAIN found = 1..Len(found) /\ \A k \in DOMAIN found : found[k].score \in Int
    <3>1. DOMAIN found = 1..Len(found)
      OBVIOUS
    <3>2. \A k \in DOMAIN found : found[k] \in Relevant(q)
      BY <3>1, ElementOfSeq
    <3>3. ASSUME NEW x \in Relevant(q) PROVE x.score \in Int
      <4>1. x.score \in -100..100
        BY <2>1 DEF AreScored
      <4>2. \A n \in -100..100 : n \in Int
        OBVIOUS
      <4> QED
        BY <4>1, <4>2, Zenon
    <3> QED
      BY <3>1, <3>2, <3>3
  <2>7. CASE \E k \in 1..Len(found) : found[k] = p
    BY <2>4, <2>5, <2>6, <2>7
  <2>8. CASE Len(found) = TopK /\ \A k \in 1..Len(found) : p.score <= found[k].score
    BY <2>4, <2>5, <2>6, <2>8
  <2> QED
    BY <2>5, <2>7, <2>8
<1> QED
  BY <1>1 DEF AwaitingOrFound

\* Neighbours are retrieved together.
LEMMA NeighboursStay ==
  ASSUME KnowledgeInv
  PROVE  NeighboursStayTogether
<1>1. ASSUME NEW text \in DOMAIN documents, NEW k \in 1..(Len(text) - 1)
      PROVE  \E c \in Range(documents[text].chunks) : \E j \in 1..(Len(c) - 1) :
               c[j] = text[k] /\ c[j + 1] = text[k + 1]
  <2>1. text \in Seq(Sentence) /\ documents[text].chunks = ChunkText(text)
    BY DEF KnowledgeInv, DocumentsSound
  <2>2. PICK chunks \in Seq(Seq(Sentence)) :
          chunks = documents[text].chunks /\ IsChunking(chunks, text)
    BY <2>1, TextIsChunked DEF IsChunking
  <2>3. PICK i \in 1..Len(chunks) : Beside(chunks[i], text[k], text[k + 1])
    BY <2>2 DEF IsChunking
  <2>4. chunks[i] \in Range(chunks)
    BY DEF Range
  <2> QED
    BY <2>2, <2>3, <2>4 DEF Beside
<1> QED
  BY <1>1 DEF NeighboursStayTogether

\* The panel counts no less than there is.
LEMMA PanelShowsIt ==
  ASSUME KnowledgeInv
  PROVE  PanelIsNoLess
<1>1. LiveIncidentsIndexed >= Cardinality({s \in Subjects \ Awaiting : s.kind = "INCIDENT"})
  <2>1. PICK S : S = {s \in Subjects \ Awaiting : s.kind = "INCIDENT"}
    OBVIOUS
  <2>2. PICK T : T = {v \in vectors : v[1].kind = "INCIDENT"}
    OBVIOUS
  <2>3. PICK f : f = [s \in S |-> <<s, model>>]
    OBVIOUS
  <2>4. f \in [S -> T]
    <3>1. \A s \in S : <<s, model>> \in vectors /\ <<s, model>>[1] = s /\ s.kind = "INCIDENT"
      BY <2>1 DEF Awaiting
    <3>2. \A s \in S : <<s, model>> \in T
      BY <2>2, <3>1
    <3> QED
      BY <2>3, <3>2
  <2>5. f \in Injection(S, T)
    <3>1. \A a \in S : f[a] = <<a, model>> /\ f[a][1] = a
      BY <2>3
    <3>2. DOMAIN f = S
      BY <2>3
    <3>3. \A a, b \in S : f[a] = f[b] => a = b
      BY <3>1, Zenon
    <3>4. IsInjective(f)
      BY <3>2, <3>3 DEF IsInjective
    <3> QED
      BY <2>4, <3>4 DEF Injection
  <2>6. IsFiniteSet(T)
    <3>1. T \in SUBSET vectors
      BY <2>2
    <3> QED
      BY <3>1, FS_Subset DEF KnowledgeInv
  <2>7. PICK a \in Nat, b \in Nat : a = Cardinality(S) /\ b = Cardinality(T) /\ a <= b
    BY <2>5, <2>6, FS_Injection, FS_CardinalityType
  <2>8. LiveIncidentsIndexed = b
    BY <2>2, <2>7 DEF LiveIncidentsIndexed
  <2>9. Cardinality({s \in Subjects \ Awaiting : s.kind = "INCIDENT"}) = a
    BY <2>1, <2>7
  <2> QED
    BY <2>7, <2>8, <2>9
<1>2. ASSUME \A text \in Range(Pack[build]) :
               text \in DOMAIN documents /\ documents[text].source = SourceType
      PROVE  PackInstalled
  <2>1. PICK pack \in Seq(Seq(Sentence)) :
          pack = Pack[build] /\ \A i, j \in DOMAIN pack : pack[i] = pack[j] => i = j
    BY PackAssumption DEF KnowledgeInv, InstallSound
  <2>2. IsFiniteSet(Range(pack)) /\ Cardinality(Range(pack)) = Len(pack)
    <3>1. \A i, j \in 1..Len(pack) : pack[i] = pack[j] => i = j
      BY <2>1
    <3> QED
      BY <3>1, PlacesCount
  <2>3. PICK T : T = {t \in DOMAIN documents : documents[t].source = SourceType}
    OBVIOUS
  <2>4. IsFiniteSet(T) /\ Range(pack) \in SUBSET T
    <3>1. T \in SUBSET DOMAIN documents
      BY <2>3
    <3>2. IsFiniteSet(DOMAIN documents)
      BY DEF KnowledgeInv, DocumentsSound
    <3> QED
      BY <1>2, <2>1, <2>3, <3>1, <3>2, FS_Subset
  <2>5. PICK a \in Nat, b \in Nat : a = Cardinality(Range(pack)) /\ b = Cardinality(T) /\ a <= b
    BY <2>2, <2>4, FS_Subset, FS_CardinalityType
  <2>6. Len(Pack[build]) = a /\ b >= a
    BY <2>1, <2>2, <2>5
  <2> QED
    BY <2>3, <2>5, <2>6 DEF PackInstalled
<1> QED
  BY <1>1, <1>2 DEF PanelIsNoLess

\* What was put into a node's records can be found again.
LEMMA FindableFollows ==
  ASSUME KnowledgeInv
  PROVE  KnowledgeIsFindable
  BY HeldIsFound, NeighboursStay, PanelShowsIt DEF KnowledgeIsFindable, KnowledgeInv

\* Whatever texts, packs, models and builds there are, and wherever indexing failed or an
\* installation was broken off: what is held waits for the model in use or is found by every
\* question it is relevant to, unless the list is full of better passages; a pack reported as
\* installed is held; neighbours in a text stay together in a chunk; and the panel shows no less
\* than there is (storage/intelligence.rs, ai/knowledge_pack.rs, ai/rag.rs).
THEOREM KnowledgeFindable == KnowledgeSpec => []KnowledgeIsFindable
<1>1. KnowledgeInit => KnowledgeInv
  BY KnowledgeStart
<1>2. KnowledgeInv /\ [KnowledgeNext]_knowledgeVars => KnowledgeInv'
  BY KnowledgeKeeps
<1>3. KnowledgeInv => KnowledgeIsFindable
  BY FindableFollows
<1> QED
  BY <1>1, <1>2, <1>3, PTL DEF KnowledgeSpec

-----------------------------------------------------------------------------
(* An answer rests on what is held *)

\* A passage that was found: content held here, relevant to the question, and guidance only if
\* it came out of a pack
IsFound(q, p) ==
  /\ p.subject \in Subjects /\ p.content = Content(p.subject)
  /\ Match(q, p.subject) >= MinRelevance
  /\ p.source = SourceType => \E b \in DOMAIN Pack : p.subject.text \in Range(Pack[b])

\* What a model is given for a question
IsGiven(q, given) ==
  /\ Len(given) \in Nat \ {0} /\ DOMAIN given = 1..Len(given)
  /\ \A k \in DOMAIN given : IsFound(q, given[k])

\* An answer that is grounded in what is held
IsGrounded(a) ==
  /\ a.refused => ~a.grounded /\ a.sources = <<>>
  /\ a.grounded => Backed(a) /\ \E k \in DOMAIN a.sources : a.sources[k].cited
  /\ ~a.refused => a.words # <<>> /\ a.sources # <<>>
  /\ \A k \in DOMAIN a.sources : IsFound(a.question, a.sources[k])

\* What is asked about was found, and what is shown is grounded.
AnswerInv ==
  /\ KnowledgeInv
  /\ asked # NoQuestion => asked \in DOMAIN Relevance /\ IsGiven(asked, passages)
  /\ answer # NoAnswer => IsGrounded(answer)

\* A search that finds something gives it.
LEMMA SearchGives ==
  ASSUME KnowledgeInv, NEW q \in DOMAIN Relevance, Search(q) # <<>>
  PROVE  IsGiven(q, Search(q))
<1>1. PICK found \in Seq(Relevant(q)) : found = Search(q)
  BY RelevantIs, BestOfIs
<1>2. PICK n \in Nat : n = Len(found) /\ DOMAIN found = 1..n
  OBVIOUS
<1>3. n # 0
  BY <1>1, <1>2, EmptySeq
<1>4. ASSUME NEW k \in 1..n PROVE IsFound(q, found[k])
  <2>1. found[k] \in Relevant(q)
    BY <1>2, ElementOfSeq
  <2>2. PICK s \in Indexed : found[k] = Passage(q, s) /\ Match(q, s) >= MinRelevance
    BY <2>1, RelevantIs
  <2>3. s \in Subjects
    BY DEF Indexed
  <2>4. PICK p : p = found[k]
    OBVIOUS
  <2>5. p.subject = s /\ p.content = Content(s) /\ p.source = Classify(s)
    BY <2>2, <2>4 DEF Passage
  <2>6. Classify(s) = SourceType => \E b \in DOMAIN Pack : s.text \in Range(Pack[b])
    <3>1. CASE \E r \in incidents : s = Incident(r)
      BY <3>1 DEF Classify, Incident, SourceType
    <3>2. CASE \E t \in DOMAIN documents : \E i \in DOMAIN documents[t].chunks : s = Chunk(t, i)
      <4>1. PICK t \in DOMAIN documents : s.kind = "KNOWLEDGE_CHUNK" /\ s.text = t
        BY <3>2 DEF Chunk
      <4>2. Classify(s) = SourceType => documents[t].source = SourceType
        BY <4>1 DEF Classify, SourceType
      <4> QED
        BY <4>1, <4>2 DEF KnowledgeInv, DocumentsSound
    <3> QED
      BY <2>3, <3>1, <3>2 DEF Subjects
  <2> QED
    BY <2>2, <2>3, <2>4, <2>5, <2>6 DEF IsFound
<1> QED
  BY <1>1, <1>2, <1>3, <1>4 DEF IsGiven

\* What was found stays found while the node learns more.
LEMMA LearningKeeps ==
  ASSUME KnowledgeInv, Learn, NEW q, NEW given, IsGiven(q, given)
  PROVE  IsGiven(q, given)'
<1>1. /\ incidents \subseteq incidents' /\ DOMAIN documents \subseteq DOMAIN documents'
      /\ \A t \in DOMAIN documents : documents'[t] = documents[t]
  <2>1. \A text, source : documents' = Imported(text, source) =>
          /\ DOMAIN documents \subseteq DOMAIN documents'
          /\ \A t \in DOMAIN documents : documents'[t] = documents[t]
    <3>1. ASSUME NEW text, NEW source, documents' = Imported(text, source)
          PROVE  /\ DOMAIN documents \subseteq DOMAIN documents'
                 /\ \A t \in DOMAIN documents : documents'[t] = documents[t]
      <4>1. CASE text \in DOMAIN documents
        BY <3>1, <4>1 DEF Imported
      <4>2. CASE text \notin DOMAIN documents
        BY <3>1, <4>2 DEF Imported
      <4> QED
        BY <4>1, <4>2
    <3> QED
      BY <3>1
  <2>2. CASE \E text \in Texts : IngestDocument(text)
    BY <2>1, <2>2 DEF IngestDocument
  <2>3. CASE \E text \in Reports : HoldIncident(text)
    BY <2>3 DEF HoldIncident
  <2>4. CASE StartInstall
    BY <2>4 DEF StartInstall
  <2>5. CASE InstallStep
    BY <2>1, <2>5 DEF InstallStep
  <2>6. CASE \E missed : IndexPending(missed)
    BY <2>6 DEF IndexPending
  <2> QED
    BY <2>2, <2>3, <2>4, <2>5, <2>6 DEF Learn
<1>2. ASSUME NEW s \in Subjects PROVE s \in Subjects' /\ Content(s)' = Content(s)
  <2>1. CASE \E r \in incidents : s = Incident(r)
    BY <1>1, <2>1 DEF Subjects, Content, Incident
  <2>2. CASE \E t \in DOMAIN documents : \E k \in DOMAIN documents[t].chunks : s = Chunk(t, k)
    <3>1. PICK t \in DOMAIN documents : \E k \in DOMAIN documents[t].chunks : s = Chunk(t, k)
      BY <2>2
    <3>2. s.kind # "INCIDENT" /\ s.text = t
      BY <3>1 DEF Chunk
    <3>3. documents'[t] = documents[t] /\ t \in DOMAIN documents'
      BY <1>1
    <3> QED
      BY <3>1, <3>2, <3>3 DEF Subjects, Content
  <2> QED
    BY <2>1, <2>2 DEF Subjects
<1>3. ASSUME NEW p, IsFound(q, p) PROVE IsFound(q, p)'
  <2>1. p.subject \in Subjects' /\ Content(p.subject)' = Content(p.subject)
    BY <1>2, <1>3 DEF IsFound
  <2>2. Match(q, p.subject)' = Match(q, p.subject)
    BY <2>1 DEF Match
  <2> QED
    BY <1>3, <2>1, <2>2 DEF IsFound
<1> QED
  BY <1>3 DEF IsGiven

\* Words enough are found in what was given, where the share of them is high enough.
LEMMA SupportBacks ==
  ASSUME NEW words \in Seq(STRING), NEW given, ~(AnswerSupport(words, given) < MinAnswerSupport)
  PROVE  100 * Cardinality(Supported(words, given))
           >= MinAnswerSupport * Cardinality(ContentPlaces(words))
<1>1. IsFiniteSet(ContentPlaces(words))
  <2>1. IsFiniteSet(1..Len(words))
    BY FS_Interval
  <2>2. ContentPlaces(words) \in SUBSET (1..Len(words))
    <3>1. DOMAIN words = 1..Len(words)
      OBVIOUS
    <3> QED
      BY <3>1 DEF ContentPlaces
  <2> QED
    BY <2>1, <2>2, FS_Subset
<1>2. Supported(words, given) \in SUBSET ContentPlaces(words)
  BY DEF Supported
<1>3. PICK c \in Nat, x \in Nat :
        c = Cardinality(ContentPlaces(words)) /\ x = Cardinality(Supported(words, given))
  BY <1>1, <1>2, FS_Subset, FS_CardinalityType
<1>4. ContentPlaces(words) # {}
  BY DEF AnswerSupport, MinAnswerSupport
<1>5. c # 0
  BY <1>1, <1>3, <1>4, FS_EmptySet
<1>6. ~ ((100 * x) \div c < 40)
  BY <1>3, <1>4 DEF AnswerSupport, MinAnswerSupport
<1>7. 100 * x >= 40 * c
  <2>1. PICK y \in Nat : y = 100 * x
    OBVIOUS
  <2>2. PICK d \in Nat : d = y \div c /\ d * c <= y /\ d >= 40
    <3>1. \A a \in Nat, b \in Nat \ {0} : a \div b \in Nat /\ (a \div b) * b <= a
      OBVIOUS
    <3> QED
      BY <1>5, <1>6, <2>1, <3>1
  <2>3. 40 * c <= d * c
    BY <2>2
  <2>4. d * c \in Int /\ 40 * c \in Int
    OBVIOUS
  <2> QED
    BY <2>1, <2>2, <2>3, <2>4
<1> QED
  BY <1>3, <1>7 DEF MinAnswerSupport

\* What a reply to a question becomes is grounded in what was given.
LEMMA JudgeIs ==
  ASSUME NEW q \in DOMAIN Relevance, NEW given, IsGiven(q, given), NEW reply \in Replies,
         NEW a, a = Judge(q, given, reply)
  PROVE  IsGrounded(a)
<1> DEFINE cited == Cited(reply, given)
           support == AnswerSupport(reply.words, given)
           dropped == Cardinality(reply.sources \ Existing(reply.sources, given))
<1>1. CASE reply = Malformed \/ ~reply.sufficient \/ reply.words = <<>>
  <2>1. a = Refusal(q)
    BY <1>1 DEF Judge
  <2>2. a.refused /\ ~a.grounded /\ a.sources = <<>>
    BY <2>1 DEF Refusal
  <2> QED
    BY <2>2 DEF IsGrounded
<1>2. CASE ~(reply = Malformed \/ ~reply.sufficient \/ reply.words = <<>>)
  <2>1. CASE cited # {} /\ support < MinAnswerSupport
    <3>1. a = [Refusal(q) EXCEPT !.support = support, !.dropped = dropped]
      BY <1>2, <2>1 DEF Judge
    <3> HIDE DEF cited, support, dropped
    <3>2. a.refused /\ ~a.grounded /\ a.sources = <<>>
      BY <3>1 DEF Refusal
    <3> QED
      BY <3>2 DEF IsGrounded
  <2>2. CASE ~(cited # {} /\ support < MinAnswerSupport)
    <3>1. a = [question |-> q, words |-> reply.words, sources |-> BuildSources(given, cited),
               grounded |-> cited # {}, refused |-> FALSE, dropped |-> dropped,
               support |-> support]
      BY <1>2, <2>2 DEF Judge
    <3>2. PICK shows : shows = BuildSources(given, cited)
      OBVIOUS
    <3>3. /\ a.question = q /\ a.words = reply.words /\ a.sources = shows
          /\ ~a.refused
      <4> HIDE DEF cited, support, dropped
      <4> QED
        BY <3>1, <3>2
    <3>4. a.grounded => cited # {}
      <4> HIDE DEF cited, support, dropped
      <4>1. PICK some \in BOOLEAN : some = (cited # {})
        OBVIOUS
      <4>2. a = [question |-> q, words |-> reply.words, sources |-> BuildSources(given, cited),
                 grounded |-> some, refused |-> FALSE, dropped |-> dropped, support |-> support]
        BY <3>1, <4>1, Zenon
      <4>3. a.grounded => some
        BY <4>2
      <4> QED
        BY <4>1, <4>3
    <3>5. PICK n \in Nat \ {0} : n = Len(given) /\ DOMAIN given = 1..n
      BY DEF IsGiven
    <3>6. /\ DOMAIN shows = 1..n
          /\ \A k \in 1..n : /\ shows[k].subject = given[k].subject
                             /\ shows[k].content = given[k].content
                             /\ shows[k].source = given[k].source
      BY <3>2, <3>5 DEF BuildSources
    <3>7. \A k \in 1..n : k \in cited => shows[k].cited
      BY <3>2, <3>5 DEF BuildSources
    <3>8. shows # <<>> /\ a.words # <<>>
      BY <1>2, <3>3, <3>5, <3>6
    <3>9. \A k \in 1..n : IsFound(q, given[k])
      BY <3>5 DEF IsGiven
    <3>10. cited # {} => Backed(a)
      <4>1. ASSUME cited # {} PROVE Backed(a)
        <5>1. PICK words \in Seq(STRING) : words = reply.words /\ a.words = words
          BY <1>2, <3>3, ReplyAssumption
        <5>2. 100 * Cardinality(Supported(words, given))
                >= MinAnswerSupport * Cardinality(ContentPlaces(words))
          BY <2>2, <4>1, <5>1, SupportBacks
        <5>3. \A w : (\E k \in DOMAIN a.sources : IsWithin(w, a.sources[k].content))
                      <=> \E k \in DOMAIN given : IsWithin(w, given[k].content)
          BY <3>3, <3>5, <3>6
        <5>4. {i \in ContentPlaces(words) :
                 \E k \in DOMAIN a.sources : IsWithin(words[i], a.sources[k].content)}
                = Supported(words, given)
          BY <5>3 DEF Supported
        <5>5. ContentPlaces(words) = {i \in DOMAIN a.words : a.words[i] # ""}
          BY <5>1 DEF ContentPlaces
        <5>6. {i \in ContentPlaces(words) :
                 \E k \in DOMAIN a.sources : IsWithin(a.words[i], a.sources[k].content)}
                = Supported(words, given)
          BY <5>1, <5>4
        <5> QED
          BY <5>2, <5>5, <5>6, Zenon DEF Backed
      <4> QED
        BY <4>1
    <3>11. cited # {} => \E k \in 1..n : shows[k].cited
      <4>1. cited \subseteq 1..n
        BY <3>5 DEF Cited, Existing
      <4> HIDE DEF cited
      <4> QED
        BY <3>7, <4>1
    <3> HIDE DEF cited, support, dropped
    <3>12. \A k \in DOMAIN a.sources : IsFound(a.question, a.sources[k])
      BY <3>3, <3>6, <3>9 DEF IsFound
    <3> QED
      BY <3>3, <3>4, <3>6, <3>8, <3>10, <3>11, <3>12 DEF IsGrounded
  <2> QED
    BY <2>1, <2>2
<1> QED
  BY <1>1, <1>2

\* Every step keeps it.
LEMMA AnswerKeeps ==
  ASSUME AnswerInv, [AnswerNext]_<<knowledgeVars, answerVars>>
  PROVE  AnswerInv'
<1>1. /\ KnowledgeInv
      /\ answer # NoAnswer => IsGrounded(answer)
      /\ asked # NoQuestion => asked \in DOMAIN Relevance /\ IsGiven(asked, passages)
  BY DEF AnswerInv
<1>2. [KnowledgeNext]_knowledgeVars
  BY DEF AnswerNext, Ask, AnswerQuestion, ModelFails, KnowledgeNext
<1>3. KnowledgeInv'
  BY <1>1, <1>2, KnowledgeKeeps
<1>4. PICK a, q, given : a = answer /\ q = asked /\ given = passages
  OBVIOUS
<1>5. UNCHANGED knowledgeVars => \A r, p : IsFound(r, p) => IsFound(r, p)'
  <2>1. SUFFICES ASSUME UNCHANGED <<documents, incidents>>
                 PROVE  \A r, p : IsFound(r, p) => IsFound(r, p)'
    BY DEF knowledgeVars
  <2>2. Subjects' = Subjects /\ \A s : Content(s)' = Content(s)
    BY <2>1 DEF Subjects, Content
  <2>3. \A r, s : Match(r, s)' = Match(r, s)
    BY <2>2 DEF Match
  <2> QED
    BY <2>2, <2>3 DEF IsFound
<1>6. UNCHANGED knowledgeVars => \A r, g : IsGiven(r, g) => IsGiven(r, g)'
  BY <1>5 DEF IsGiven
<1>7. UNCHANGED knowledgeVars => \A x : IsGrounded(x) => IsGrounded(x)'
  <2>1. \A x : Backed(x)' = Backed(x)
    BY DEF Backed
  <2> QED
    BY <1>5, <2>1 DEF IsGrounded
<1>8. \A x : answer' = x /\ IsGrounded(x)' => IsGrounded(answer)'
  BY DEF IsGrounded, IsFound, Backed
<1>9. \A r, g : asked' = r /\ passages' = g /\ IsGiven(r, g)' => IsGiven(asked, passages)'
  BY DEF IsGiven, IsFound
<1>10. CASE UNCHANGED <<knowledgeVars, answerVars>>
  <2>1. UNCHANGED knowledgeVars /\ asked' = q /\ passages' = given /\ answer' = a
    BY <1>4, <1>10 DEF answerVars
  <2> QED
    BY <1>1, <1>3, <1>4, <1>6, <1>7, <1>8, <1>9, <2>1 DEF AnswerInv
<1>11. ASSUME NEW r \in DOMAIN Relevance, Ask(r) PROVE AnswerInv'
  <2>1. UNCHANGED knowledgeVars
    BY <1>11 DEF Ask
  <2>2. PICK found : found = Search(r)
    OBVIOUS
  <2>3. CASE found = <<>>
    <3>1. PICK x : x = Refusal(r)
      OBVIOUS
    <3>2. answer' = x /\ UNCHANGED <<asked, passages>> /\ asked = NoQuestion
      BY <1>11, <2>2, <2>3, <3>1 DEF Ask
    <3>3. x.refused /\ ~x.grounded /\ x.sources = <<>>
      BY <3>1 DEF Refusal
    <3>4. IsGrounded(x)
      BY <3>3 DEF IsGrounded
    <3> QED
      BY <1>3, <1>7, <1>8, <2>1, <3>2, <3>4 DEF AnswerInv
  <2>4. CASE found # <<>>
    <3>1. asked' = r /\ passages' = found /\ answer' = NoAnswer
      BY <1>11, <2>2, <2>4 DEF Ask
    <3>2. IsGiven(r, found)
      BY <1>1, <2>2, <2>4, SearchGives
    <3> QED
      BY <1>3, <1>6, <1>9, <2>1, <3>1, <3>2 DEF AnswerInv
  <2> QED
    BY <2>3, <2>4
<1>12. ASSUME NEW reply \in Replies, AnswerQuestion(reply) PROVE AnswerInv'
  <2>1. PICK x : x = Judge(asked, passages, reply)
    OBVIOUS
  <2>2. UNCHANGED knowledgeVars /\ asked # NoQuestion /\ asked' = NoQuestion /\ answer' = x
    BY <1>12, <2>1 DEF AnswerQuestion
  <2>3. IsGrounded(x)
    BY <1>1, <2>1, <2>2, JudgeIs
  <2> QED
    BY <1>3, <1>7, <1>8, <2>2, <2>3 DEF AnswerInv
<1>13. CASE ModelFails
  <2>1. UNCHANGED knowledgeVars /\ asked' = NoQuestion /\ answer' = a
    BY <1>4, <1>13 DEF ModelFails
  <2> QED
    BY <1>1, <1>3, <1>4, <1>7, <1>8, <2>1 DEF AnswerInv
<1>14. CASE Learn /\ answer' = NoAnswer /\ UNCHANGED <<asked, passages>>
  <2>1. IsGiven(q, given) => IsGiven(q, given)'
    BY <1>1, <1>14, LearningKeeps
  <2>2. asked' = q /\ passages' = given
    BY <1>4, <1>14
  <2> QED
    BY <1>1, <1>3, <1>4, <1>9, <1>14, <2>1, <2>2 DEF AnswerInv
<1>15. CASE asked' = NoQuestion /\ answer' = NoAnswer
  BY <1>3, <1>15 DEF AnswerInv
<1> QED
  BY <1>10, <1>11, <1>12, <1>13, <1>14, <1>15 DEF AnswerNext

\* Whatever was imported, installed and indexed while a model wrote, and whatever it replied: an
\* answer that is shown as grounded cites a passage that was shown, every passage listed is content
\* held here and relevant to the question, and two words in five are found in them; a refusal
\* lists nothing; and guidance came out of a pack (ai/rag.rs, ask in ai/service.rs).
THEOREM AnswersGrounded == AnswerSpec => []AnswersAreGrounded
<1>1. KnowledgeInit /\ AnswerInit => AnswerInv
  BY KnowledgeStart DEF AnswerInit, AnswerInv
<1>2. AnswerInv /\ [AnswerNext]_<<knowledgeVars, answerVars>> => AnswerInv'
  BY AnswerKeeps
<1>3. AnswerInv => AnswersAreGrounded
  BY DEF AnswerInv, AnswersAreGrounded, IsGrounded, IsFound
<1> QED
  BY <1>1, <1>2, <1>3, PTL DEF AnswerSpec

\* The same while questions are asked: what was put into a node's records can be found again.
THEOREM KnowledgeFindableAsked == AnswerSpec => []KnowledgeIsFindable
<1>1. KnowledgeInit /\ AnswerInit => AnswerInv
  BY KnowledgeStart DEF AnswerInit, AnswerInv
<1>2. AnswerInv /\ [AnswerNext]_<<knowledgeVars, answerVars>> => AnswerInv'
  BY AnswerKeeps
<1>3. AnswerInv => KnowledgeIsFindable
  BY FindableFollows DEF AnswerInv
<1> QED
  BY <1>1, <1>2, <1>3, PTL DEF AnswerSpec
=============================================================================
