------------------------------ MODULE WordOverlap ------------------------------
(***************************************************************************)
(* How the words of two texts are compared (ai/insight.rs): by their stems *)
(* when two reports are, by what a text contains when a summary is held    *)
(* against it.  A word counts from four letters on.                        *)
(***************************************************************************)
EXTENDS Integers, Sequences, FiniteSets, SequencesExt

\* Words and marks too short to count; "" stands for any other such word of a summary.
ShortWords ==
  {"", ".", ",", "a", "no", "of", "one", "the", "but", "5", "10", "5-6", "Q", "Abu", "low"}

Stopwords == {"about", "across", "from", "near", "some", "that", "them"}

\* Endings are cut off; of the words used here these lose one and meet another word.
Stem(w) ==
  CASE w \in {"Block", "blocked"} -> "block"
    [] w \in {"flood", "flooded", "flooding"} -> "flood"
    [] OTHER -> w

ContentStems(text) == {Stem(w) : w \in Range(text) \ (ShortWords \cup Stopwords)}

\* Pairs of words of which the second contains the first, or what its ending is cut to.
PartOf ==
  ({"Block", "blocked"} \X {"Block", "blocked", "blockage"})
  \cup ({"flood", "flooded", "flooding"} \X {"flood", "flooded", "flooding"})

IsFoundIn(w, words) == \E v \in words : v = w \/ <<w, v>> \in PartOf

\* Where a summary has words that count: one that is repeated counts each time.
CountedPlaces(summary) == {i \in DOMAIN summary : summary[i] \notin ShortWords}

FoundPlaces(summary, words) == {i \in CountedPlaces(summary) : IsFoundIn(summary[i], words)}

\* Share of the words of a summary found among those of a text, as a pair <<part, whole>>.
SupportScore(summary, words) ==
  IF CountedPlaces(summary) = {} THEN <<0, 1>>
  ELSE <<Cardinality(FoundPlaces(summary, words)), Cardinality(CountedPlaces(summary))>>
=============================================================================
