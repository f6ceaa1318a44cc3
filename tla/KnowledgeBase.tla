----------------------------- MODULE KnowledgeBase -----------------------------
(***************************************************************************)
(* What a node can retrieve from (storage/intelligence.rs, ai/rag.rs,      *)
(* ai/knowledge_pack.rs): imported documents cut into chunks, the pack     *)
(* compiled into the binary, the incidents, and a vector for each under    *)
(* the embedding model in use.                                             *)
(*                                                                         *)
(* A text is a sequence of sentences.  Embedding may fail for an item; the *)
(* item waits for another pass.  Fewer vectors are held than               *)
(* MAX_RETRIEVAL_CANDIDATES, and fewer items wait than INDEX_BATCH.        *)
(***************************************************************************)
EXTENDS Integers, Sequences, FiniteSets, SequencesExt, FiniteSetsExt

CONSTANTS
  Texts,         \* texts that may be imported
  Pack,          \* the texts of each build's pack, in the order of installing
  Reports,       \* incidents, as the sentence each consists of
  EmbeddingModels,
  SentenceLen,   \* characters of a sentence
  Relevance,     \* question -> sentence -> similarity, in percent
  ChunkChars,    \* CHUNK_CHARS
  ChunkOverlap,  \* CHUNK_OVERLAP
  TopK           \* passages retrieved

Sentence == DOMAIN SentenceLen

ASSUME KnowledgeBounds ==
  {ChunkChars, ChunkOverlap, TopK} \subseteq Nat /\ ChunkOverlap > 0 /\ TopK > 0

ASSUME TextAssumption ==
  /\ Texts \subseteq Seq(Sentence) /\ Reports \subseteq Sentence
  /\ \A q \in DOMAIN Relevance : \A s \in Sentence : Relevance[q][s] \in -100..100

\* A pack has documents, and no two alike.
ASSUME PackAssumption ==
  /\ 1 \in DOMAIN Pack
  /\ \A b \in DOMAIN Pack :
       /\ Pack[b] \in Seq(Seq(Sentence)) /\ Pack[b] # <<>>
       /\ \A i, j \in DOMAIN Pack[b] : Pack[b][i] = Pack[b][j] => i = j

VARIABLES
  documents,     \* text -> [source, chunks], its rows
  incidents,     \* reports held
  vectors,       \* <<subject, model>>
  model,         \* the embedding model in use
  build,         \* the pack this binary has
  installing,    \* texts of the pack installed in this call, or Idle
  reported       \* builds whose installation ended with a report

knowledgeVars == <<documents, incidents, vectors, model, build, installing, reported>>

SourceType == "OPERATIONAL_KNOWLEDGE"
Idle == -1

-------------------------------------------------------------------------------
(* Chunks.                                                                 *)

Chars(sentences) == FoldSeq(LAMBDA s, n : SentenceLen[s] + n, 0, sentences)

\* Mutant of Overlap: nothing is repeated.
NoOverlap(chunk) == <<>>

\* The sentences a chunk repeats of the chunk before.
Overlap(chunk) ==
  LET keep == IF Len(chunk) > ChunkOverlap THEN Len(chunk) - ChunkOverlap ELSE 0
  IN SubSeq(chunk, keep + 1, Len(chunk))

\* A chunk is closed before the sentence that would make it too long.
Cut(c, sentence) ==
  IF c.current # <<>> /\ Chars(c.current) + SentenceLen[sentence] > ChunkChars
  THEN [closed |-> Append(c.closed, c.current),
        current |-> Append(Overlap(c.current), sentence)]
  ELSE [closed |-> c.closed, current |-> Append(c.current, sentence)]

\* The chunks after each sentence of a text.
Cuts(text) ==
  LET cut[k \in 0..Len(text)] ==
        IF k = 0 THEN [closed |-> <<>>, current |-> <<>>] ELSE Cut(cut[k - 1], text[k])
  IN cut

ChunkText(text) ==
  LET last == Cuts(text)[Len(text)]
  IN IF last.current = <<>> THEN last.closed ELSE Append(last.closed, last.current)

-------------------------------------------------------------------------------
(* What is held, what waits for a vector and what a search finds.          *)

Chunk(text, ordinal) == [kind |-> "KNOWLEDGE_CHUNK", text |-> text, ordinal |-> ordinal]
Incident(text) == [kind |-> "INCIDENT", text |-> <<text>>, ordinal |-> 1]

Content(item) ==
  IF item.kind = "INCIDENT" THEN item.text ELSE documents[item.text].chunks[item.ordinal]

Subjects ==
  (UNION {{Chunk(t, k) : k \in DOMAIN documents[t].chunks} : t \in DOMAIN documents})
  \cup {Incident(r) : r \in incidents}

\* Mutant of Awaiting: a vector of any model will do.
AwaitingAny == {s \in Subjects : \A m \in EmbeddingModels : <<s, m>> \notin vectors}

\* What has no vector of the model in use.
Awaiting == {s \in Subjects : <<s, model>> \notin vectors}

\* What a search looks at.
Indexed == {s \in Subjects : <<s, model>> \in vectors}

MinRelevance == 35

Match(question, item) == Max({Relevance[question][s] : s \in Range(Content(item))})

\* Guidance only if the document was installed as such.
Classify(item) ==
  CASE item.kind = "INCIDENT" -> "LIVE_INCIDENT"
    [] item.kind # "INCIDENT" /\ documents[item.text].source = SourceType -> SourceType
    [] OTHER -> "IMPORTED_DOCUMENT"

Passage(question, item) ==
  [subject |-> item, content |-> Content(item), source |-> Classify(item),
   score |-> Match(question, item)]

Best(scored) == CHOOSE p \in scored : \A x \in scored : x.score <= p.score

\* The n best, the best first.
Ranked(scored, n) ==
  LET best[k \in 0..n] ==
        IF k = 0 THEN <<>> ELSE Append(best[k - 1], Best(scored \ Range(best[k - 1])))
  IN best

\* No more than TopK.
BestOf(scored) ==
  LET n == IF Cardinality(scored) < TopK THEN Cardinality(scored) ELSE TopK
  IN Ranked(scored, n)[n]

\* Vectors of the model in use, relevant enough, with content.
Search(question) ==
  BestOf({p \in {Passage(question, s) : s \in Indexed} : p.score >= MinRelevance})

\* Every vector of an incident is counted, of whichever model.
LiveIncidentsIndexed == Cardinality({v \in vectors : v[1].kind = "INCIDENT"})

\* "True when every pack document is present": as many as there are.
PackInstalled ==
  Cardinality({t \in DOMAIN documents : documents[t].source = SourceType}) >= Len(Pack[build])

-------------------------------------------------------------------------------
(* Importing, installing and indexing.                                     *)

KnowledgeInit ==
  /\ documents = <<>> /\ incidents = {} /\ vectors = {}
  /\ model = CHOOSE m \in EmbeddingModels : TRUE
  /\ build = 1
  /\ installing = Idle /\ reported = {}

\* A text whose hash is held already is not imported again.
Imported(text, source) ==
  IF text \in DOMAIN documents THEN documents
  ELSE [t \in DOMAIN documents \cup {text} |->
          IF t = text THEN [source |-> source, chunks |-> ChunkText(text)] ELSE documents[t]]

IngestDocument(text) ==
  /\ documents' = Imported(text, "IMPORTED")
  /\ UNCHANGED <<incidents, vectors, model, build, installing, reported>>

HoldIncident(text) ==
  /\ incidents' = incidents \cup {text}
  /\ UNCHANGED <<documents, vectors, model, build, installing, reported>>

StartInstall ==
  /\ installing = Idle
  /\ installing' = 0
  /\ UNCHANGED <<documents, incidents, vectors, model, build, reported>>

\* Mutant of InstallStep: the first document that is held ends the installation.
InstallUpToKnown ==
  /\ installing # Idle
  /\ LET text == Pack[build][installing + 1]
         done == installing + 1 = Len(Pack[build]) \/ text \in DOMAIN documents
     IN /\ documents' = Imported(text, SourceType)
        /\ installing' = IF done THEN Idle ELSE installing + 1
        /\ reported' = IF done THEN reported \cup {build} ELSE reported
  /\ UNCHANGED <<incidents, vectors, model, build>>

\* Each document of the pack is a transaction of its own.
InstallStep ==
  /\ installing # Idle
  /\ LET text == Pack[build][installing + 1]
         done == installing + 1 = Len(Pack[build])
     IN /\ documents' = Imported(text, SourceType)
        /\ installing' = IF done THEN Idle ELSE installing + 1
        /\ reported' = IF done THEN reported \cup {build} ELSE reported
  /\ UNCHANGED <<incidents, vectors, model, build>>

\* A pass embeds what waits, but for an item that fails or is not reached.
IndexPending(missed) ==
  /\ Awaiting # {}
  /\ vectors' = vectors \cup {<<s, model>> : s \in Awaiting \ missed}
  /\ UNCHANGED <<documents, incidents, model, build, installing, reported>>

\* The node stops, perhaps while installing, and starts with another model or build.
Restart(m, b) ==
  /\ b >= build
  /\ model' = m /\ build' = b /\ installing' = Idle
  /\ UNCHANGED <<documents, incidents, vectors, reported>>

Learn ==
  \/ \E text \in Texts : IngestDocument(text)
  \/ \E text \in Reports : HoldIncident(text)
  \/ StartInstall
  \/ InstallStep
  \/ \E missed \in {{}} \cup {{s} : s \in Awaiting} : IndexPending(missed)

KnowledgeNext ==
  \/ Learn
  \/ \E m \in EmbeddingModels, b \in DOMAIN Pack : Restart(m, b)

KnowledgeSpec == KnowledgeInit /\ [][KnowledgeNext]_knowledgeVars

-------------------------------------------------------------------------------
(* Correctness.                                                            *)

\* What is held either waits for the model in use or is found by every question it is relevant
\* to, unless better passages fill the list: nothing is lost between the indexer and a search,
\* whatever models and builds came before.
AwaitingOrFound ==
  LET accounted(q, found) ==
        \A s \in Subjects \ Awaiting : Match(q, s) >= MinRelevance =>
          \/ \E k \in DOMAIN found : found[k].subject = s
          \/ Len(found) = TopK /\ \A k \in DOMAIN found : found[k].score >= Match(q, s)
  IN \A q \in DOMAIN Relevance : accounted(q, Search(q))

\* An installation that ended left all of that build's pack, however often it was broken off,
\* and whatever part of it was imported before.
ReportedPackIsHeld == \A b \in reported : Range(Pack[b]) \subseteq DOMAIN documents

\* A fact that straddles two chunks can be retrieved: sentences that stand side by side in a
\* document stand side by side in one of its chunks, and no sentence is lost.
NeighboursStayTogether ==
  \A text \in DOMAIN documents : \A k \in 1..(Len(text) - 1) :
    \E c \in Range(documents[text].chunks) : \E j \in 1..(Len(c) - 1) :
      c[j] = text[k] /\ c[j + 1] = text[k + 1]

\* What the panel shows is no less than what there is: it counts a vector for every incident a
\* search may find (and one for each older model), and a pack held as guidance is installed.
PanelIsNoLess ==
  /\ LiveIncidentsIndexed >= Cardinality({s \in Subjects \ Awaiting : s.kind = "INCIDENT"})
  /\ (\A text \in Range(Pack[build]) :
        text \in DOMAIN documents /\ documents[text].source = SourceType) => PackInstalled

\* All that was put in can be found again.
KnowledgeIsFindable ==
  AwaitingOrFound /\ ReportedPackIsHeld /\ NeighboursStayTogether /\ PanelIsNoLess
=============================================================================
