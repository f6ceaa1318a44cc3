------------------------------- MODULE MCReading -------------------------------
(***************************************************************************)
(* What a node makes of the texts it holds, by rules and by models, each   *)
(* part in a scene of its own: the parts share operators and no state.     *)
(***************************************************************************)
EXTENDS SituationBrief, AnalysisReview, GroundedAnswer
CONSTANTS m1, m2

MCTopics ==
  {{"no", "fire", "smoke", "brigade", "ambulance", "service", "contained", "but", "."},
   {"5", "10", "several", "people", "injured", "trapped", "zero", "dead", "."},
   {"a", "twenty", "one", "couple", "dozen", "of", "them", "child", "about"},
   {"main", "road", "blocked", "reopened", "no", "access", "."},
   {"near", "the", "Block", "Q", "5", "5-6", "Abu", "north", "bank"}}

MCTexts ==
  << <<"fire", "main", "road", "blocked">>, <<"fire", "main", "road">>,
     <<"fire", ".", "5", "people", "injured">>, <<"about", "10", "people", "trapped", "fire">>,
     <<"smoke", "near", "Block">>, <<"main", "road", "blocked">> >>

MCFilings ==
  {[text |-> MCTexts[i], at |-> IF i = 5 THEN 30 ELSE 0, operator |-> 2] : i \in DOMAIN MCTexts}

MCPointOf == [text \in Range(MCTexts) |-> CHOOSE i \in DOMAIN MCTexts : MCTexts[i] = text]

MCCosine ==
  [p, q \in 0..9 |->
     LET apart == IF p > q THEN p - q ELSE q - p
     IN CASE apart = 0 -> 1000 [] apart = 1 -> 940 [] apart = 2 -> 880 [] apart = 3 -> 800
          [] OTHER -> 500]

MCPrototypes == [c \in {"FIRE", "MEDICAL"} |-> IF c = "FIRE" THEN 1 ELSE 3]

MCNews == {f \in MCFilings : f.text \in {MCTexts[1], MCTexts[4]}}

MCNoSummary == <<"nonsense">>

MCSummaries ==
  {MCNoSummary, <<>>, <<"fire", "road", "">>, <<"Block", "bridge">>, <<"trapped", "bridge">>, <<"flood", "bridge", "fire">>}

MCFiled ==
  {<<"fire", "main", "road", "blocked">>, <<"no", "fire">>,
   <<"fire", ".", "5", "people", "injured">>, <<"10", "people", "trapped", ".", "fire">>,
   <<"main", "road", ".", "no", "access">>, <<"a">>, <<"several", "people", "dead">>}

MCGarbage == [garbage |-> TRUE]

MCAnswers ==
  {MCGarbage} \cup
  [category : {"FIRE", "ROAD"}, severity : {"low", "HIGH", "odd"}, access : {"OPEN", "closed"},
   entities : {<<>>, <<"", "people">>}, summary : {<<>>, <<"fire", "people">>}]

MCImports == {<<"s3">>}

MCPack == << << <<"s1", "s2", "s3">> >>, << <<"s1", "s2", "s3">>, <<"s3">> >> >>

MCSentenceLen == [s \in {"s1", "s2", "s3", "r1"} |-> IF s = "s2" THEN 5 ELSE 3]

MCRelevance ==
  [q \in {"q1"} |-> [s \in {"s1", "s2", "s3", "r1"} |->
     CASE s = "s1" -> 80 [] s = "s2" -> 20 [] s = "s3" -> 35 [] OTHER -> 70]]

MCMalformed == [malformed |-> TRUE]

MCReplies ==
  {MCMalformed}
  \cup {[words |-> w, sources |-> {0, 1}, markers |-> {2, 3}, sufficient |-> TRUE] :
          w \in {<<"s1", "x", "x">>, <<"s", "s2", "x">>}}
  \cup {[words |-> <<"x", "">>, sources |-> {0, 3}, markers |-> {}, sufficient |-> x] :
          x \in BOOLEAN}

MCPartOfWord == {<<"s", "s1">>}

VARIABLE scene

MCInit ==
  /\ scene \in {"report", "pool", "brief", "review", "knowledge"}
  /\ IF scene = "report" THEN ReportInit
     ELSE report = <<>> /\ vocabulary = {} /\ facts = Extract(<<>>)
  /\ PoolInit /\ BriefInit
  /\ IF scene = "review" THEN ReviewInit
     ELSE subject = (CHOOSE text \in Filed : TRUE) /\ stored = None /\ latest = None /\ shown = None
  /\ KnowledgeInit /\ AnswerInit

MCNext ==
  \/ /\ scene = "report" /\ ReportNext
     /\ UNCHANGED <<scene, poolVars, briefVars, reviewVars, knowledgeVars, answerVars>>
  \/ /\ scene = "pool" /\ PoolNext
     /\ UNCHANGED <<scene, readingVars, briefVars, reviewVars, knowledgeVars, answerVars>>
  \/ /\ scene = "brief" /\ BriefNext
     /\ UNCHANGED <<scene, readingVars, reviewVars, knowledgeVars, answerVars>>
  \/ /\ scene = "review" /\ ReviewNext
     /\ UNCHANGED <<scene, readingVars, poolVars, briefVars, knowledgeVars, answerVars>>
  \/ /\ scene = "knowledge" /\ AnswerNext
     /\ UNCHANGED <<scene, readingVars, poolVars, briefVars, reviewVars>>

MCSpec ==
  MCInit /\ [][MCNext]_<<scene, readingVars, poolVars, briefVars, reviewVars, knowledgeVars,
                          answerVars>>
=============================================================================
