---------------------------- MODULE GroundedAnswer ----------------------------
(***************************************************************************)
(* A question answered from the node's records only (ai/rag.rs, ask in     *)
(* ai/service.rs): passages are retrieved, a model writes an answer, and   *)
(* what it says is checked against what it was given.  The records go on   *)
(* changing while the model writes.                                        *)
(***************************************************************************)
EXTENDS KnowledgeBase

CONSTANTS
  Replies,       \* what a model may reply: [words, sources, markers, sufficient]
  Malformed,     \* a reply that is no answer
  PartOfWord     \* pairs of words: the second has the first in it, or the first less its s

NoQuestion == "none"
NoAnswer == [none |-> TRUE]

ASSUME QuestionAssumption == NoQuestion \notin DOMAIN Relevance

ASSUME ReplyAssumption == \A reply \in Replies \ {Malformed} : reply.words \in Seq(STRING)

VARIABLES
  asked,         \* the question a model is writing about, or NoQuestion
  passages,      \* what it was given
  answer         \* the last answer given, or NoAnswer

answerVars == <<asked, passages, answer>>

-------------------------------------------------------------------------------
(* Checks of a reply.  A sentence is one content word of the answer; the   *)
(* empty word stands for words too short to count.                         *)

MinAnswerSupport == 40

\* Where an answer has content words: one that is repeated counts each time.
ContentPlaces(words) == {i \in DOMAIN words : words[i] # ""}

\* A word is found as a whole or inside another.
IsWithin(w, content) == \E v \in Range(content) : v = w \/ <<w, v>> \in PartOfWord

\* Those of them whose word is found in the passages shown, cited or not.
Supported(words, given) ==
  {i \in ContentPlaces(words) : \E k \in DOMAIN given : IsWithin(words[i], given[k].content)}

\* Their share, in percent.
AnswerSupport(words, given) ==
  IF ContentPlaces(words) = {} THEN 0
  ELSE (100 * Cardinality(Supported(words, given))) \div Cardinality(ContentPlaces(words))

\* Mutant of Existing: passage numbers start at zero.
FromZero(numbers, given) == numbers \cap (0..(Len(given) - 1))

\* The numbers that name a passage.
Existing(numbers, given) == numbers \cap (1..Len(given))

\* The numbers claimed and the markers in the text, as far as they exist.
Cited(reply, given) == Existing(reply.sources, given) \cup Existing(reply.markers, given)

BuildSources(given, cited) ==
  [k \in DOMAIN given |->
     [marker |-> k, subject |-> given[k].subject, content |-> given[k].content,
      source |-> given[k].source, score |-> given[k].score, cited |-> k \in cited]]

Refusal(question) ==
  [question |-> question, words |-> <<>>, sources |-> <<>>, grounded |-> FALSE, refused |-> TRUE,
   dropped |-> 0, support |-> 0]

\* Mutant of Judge: what the model says is enough.
TakenAtItsWord(question, given, reply) ==
  IF reply = Malformed \/ ~reply.sufficient THEN Refusal(question)
  ELSE [question |-> question, words |-> reply.words,
        sources |-> BuildSources(given, Cited(reply, given)),
        grounded |-> Cited(reply, given) # {}, refused |-> FALSE, dropped |-> 0,
        support |-> AnswerSupport(reply.words, given)]

\* A reply that is no answer, says it cannot answer, is empty, or cites what does not support it
\* becomes the refusal; numbers of no passage are dropped and counted.
Judge(question, given, reply) ==
  LET cited == Cited(reply, given)
      support == AnswerSupport(reply.words, given)
      dropped == Cardinality(reply.sources \ Existing(reply.sources, given))
  IN IF reply = Malformed \/ ~reply.sufficient \/ reply.words = <<>> THEN Refusal(question)
     ELSE IF cited # {} /\ support < MinAnswerSupport
     THEN [Refusal(question) EXCEPT !.support = support, !.dropped = dropped]
     ELSE [question |-> question, words |-> reply.words, sources |-> BuildSources(given, cited),
           grounded |-> cited # {}, refused |-> FALSE, dropped |-> dropped, support |-> support]

-------------------------------------------------------------------------------
(* Asking and answering.                                                   *)

AnswerInit == asked = NoQuestion /\ passages = <<>> /\ answer = NoAnswer

\* Without a relevant passage the model is not asked.
Ask(question) ==
  LET shown(found) == IF found = <<>>
                      THEN answer' = Refusal(question) /\ UNCHANGED <<asked, passages>>
                      ELSE asked' = question /\ passages' = found /\ answer' = NoAnswer
  IN asked = NoQuestion /\ shown(Search(question)) /\ UNCHANGED knowledgeVars

\* The model failed: an error, and no answer.
ModelFails ==
  /\ asked # NoQuestion
  /\ asked' = NoQuestion /\ passages' = <<>>
  /\ UNCHANGED <<answer, knowledgeVars>>

AnswerQuestion(reply) ==
  /\ asked # NoQuestion
  /\ answer' = Judge(asked, passages, reply)
  /\ asked' = NoQuestion /\ passages' = <<>>
  /\ UNCHANGED knowledgeVars

\* The node may learn more, or be closed, while a model writes; an answer is looked at when it
\* is given.
AnswerNext ==
  \/ \E question \in DOMAIN Relevance : Ask(question)
  \/ \E reply \in Replies : AnswerQuestion(reply)
  \/ ModelFails
  \/ Learn /\ answer' = NoAnswer /\ UNCHANGED <<asked, passages>>
  \/ /\ \E m \in EmbeddingModels, b \in DOMAIN Pack : Restart(m, b)
     /\ asked' = NoQuestion /\ passages' = <<>> /\ answer' = NoAnswer

AnswerSpec ==
  KnowledgeInit /\ AnswerInit /\ [][AnswerNext]_<<knowledgeVars, answerVars>>

-------------------------------------------------------------------------------
(* Correctness.                                                            *)

Backed(a) ==
  LET content == {i \in DOMAIN a.words : a.words[i] # ""}
      told == {i \in content : \E k \in DOMAIN a.sources :
                               IsWithin(a.words[i], a.sources[k].content)}
  IN 100 * Cardinality(told) >= MinAnswerSupport * Cardinality(content)

\* An answer that is shown as grounded rests on this node's records: it cites a passage that was
\* shown, every passage listed is content held here and relevant to the question, and two words
\* in five are found in them, whole or inside others.  A refusal lists nothing, and what is
\* labelled operational guidance came out of a pack.
AnswersAreGrounded ==
  answer # NoAnswer =>
    /\ answer.refused => ~answer.grounded /\ answer.sources = <<>>
    /\ answer.grounded => Backed(answer) /\ \E k \in DOMAIN answer.sources : answer.sources[k].cited
    /\ ~answer.refused => answer.words # <<>> /\ answer.sources # <<>>
    /\ \A k \in DOMAIN answer.sources :
         LET s == answer.sources[k]
         IN /\ s.subject \in Subjects /\ s.content = Content(s.subject)
            /\ Match(answer.question, s.subject) >= MinRelevance
            /\ s.source = SourceType => \E b \in DOMAIN Pack : s.subject.text \in Range(Pack[b])
=============================================================================
