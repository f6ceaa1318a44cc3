-------------------------------- MODULE MCWire --------------------------------
(***************************************************************************)
(* The parts that read what another node or the platform gave, each in a   *)
(* scene of its own: they share no state, so their states add and do not   *)
(* multiply.                                                               *)
(***************************************************************************)
EXTENDS SerialLine, IncidentRecord, LoopbackHttp, OwnPosition, WireParts
CONSTANTS k1, k2

MCMessages ==
  {<<"diagnostic", <<>> >>, <<"event", << <<5>>, <<5>> >> >>, <<"syncRequest", Magic>>}

MCSlips == {<<45, 0>>}

MCSome(S) == {<<>>} \cup {<<x>> : x \in S}

MCPositions ==
  {p \in [latitude : MCSome({<<45, 0>>, <<90, 0>>, <<91, 0>>}),
          longitude : MCSome({<<45, 0>>, <<-180, 0>>, <<181, 0>>}),
          accuracy : MCSome({<<-1, 0>>, <<20, 0>>, <<20, 1>>}),
          captured : MCSome({<<1, 7>>, <<9, 0>>})] :
     p.captured # <<>> => p.latitude # <<>> /\ p.longitude # <<>>}

MCDrafts ==
  {[latitude |-> p.latitude, longitude |-> p.longitude, accuracy |-> p.accuracy,
    captured |-> p.captured, source |-> s, description |-> t, severity |-> v] :
     p \in MCPositions, s \in MCSome({"GNSS"}),
     t \in {"spaces", "padded", "frame", "huge"}, v \in {"low", "odd"}}

MCPayloads ==
  {[latitude |-> p.latitude, longitude |-> p.longitude, accuracy |-> p.accuracy,
    captured |-> p.captured, source |-> "GNSS", description |-> t, severity |-> v,
    incident |-> i] :
     p \in MCPositions, t \in {"spaces", "tabs", "short", "byte", "long"}, v \in {"low", "LOW"},
     i \in {"canonical", "upper"}}

MCForeign ==
  {[id |-> "canonical", key |-> "canonical", created |-> <<1, 0>>, json |-> j, payload |-> p] :
     j \in {"canonical", "nested"}, p \in MCPayloads}
  \cup
  {[id |-> i, key |-> k, created |-> c, json |-> "canonical",
    payload |-> CHOOSE p \in MCPayloads : p.description = "short" /\ p.captured # <<>>] :
     i \in {"bad", "upper", "canonical"}, k \in {"upper", "canonical"}, c \in {<<1, 0>>, <<1, 7>>}}

MCBodies == {<<>>, <<"a">>, <<"a", "b", "c">>, <<"a", "b", "c", "d">>}

MCReadings ==
  {[lat |-> y, lon |-> x, radius |-> <<>>, source |-> "WiFi", captured |-> 3] :
     y \in {-8, -7, 2, 9}, x \in {16, -6, 17, -17}}
  \cup
  {[lat |-> 8, lon |-> -16, radius |-> r, source |-> s, captured |-> 10] :
     r \in {<<-1>>, <<NotFinite>>, <<38>>, <<40>>, <<43>>}, s \in {"Satellite", "IPAddress"}}
  \cup
  {[lat |-> NotFinite, lon |-> 0, radius |-> <<>>, source |-> "Default", captured |-> 1]}

MCFeature(kind, type, nested, places) ==
  [kind |-> kind, type |-> type, nested |-> nested, places |-> places]

\* A town, a road that leaves Earth, one nested to the limit and one past it
MCFeatures ==
  {MCFeature("place", "Point", 0, {<<0, 0>>}),
   MCFeature("road", "LineString", 1, {<<1, 1>>, <<2, 4>>}),
   MCFeature("water", "MultiPolygon", 1, {<<-2, -1>>, <<3, 1>>}),
   MCFeature("road", "Polygon", 3, {<<-3, 0>>, <<3, 2>>}),
   MCFeature("rail", "LineString", 0, {<<1, -2>>, <<3, 2>>}),
   MCFeature("other", "Point", 0, {<<-1, 2>>})}

MCFiles ==
  {[bytes |-> 1, json |-> "collection", features |-> F] : F \in SUBSET MCFeatures}
  \cup {[bytes |-> 9, json |-> "collection", features |-> MCFeatures],
        [bytes |-> 1, json |-> "other", features |-> {}]}

MCSites == {<<0, 0>>, <<1, 1>>, <<2, -1>>, <<9, 0>>}

\* Degrees of longitude are wider towards the poles.
MCWider(latitude) == IF latitude \in -1..1 THEN 1 ELSE 2

VARIABLE scene

MCInit ==
  /\ scene \in {"line", "record", "envelope", "request", "reply", "position", "age", "map"}
  /\ LineInit /\ RecordInit /\ EnvelopeInit /\ ReplyInit /\ AgeInit
  /\ IF scene = "request" THEN RequestInit ELSE RequestInit /\ own = 0
  /\ IF scene = "position" THEN PositionInit
     ELSE PositionInit /\ meshed /\ provider = "none"
  /\ IF scene = "map" THEN MapInit ELSE MapInit /\ file = {}

MCNext ==
  \/ /\ scene = "line" /\ LineNext
     /\ UNCHANGED <<scene, recordVars, letterVars, requestVars, replyVars, positionVars, ageVars, mapVars>>
  \/ /\ scene = "record" /\ RecordNext
     /\ UNCHANGED <<scene, lineVars, letterVars, requestVars, replyVars, positionVars, ageVars, mapVars>>
  \/ /\ scene = "envelope" /\ EnvelopeNext
     /\ UNCHANGED <<scene, lineVars, recordVars, requestVars, replyVars, positionVars, ageVars, mapVars>>
  \/ /\ scene = "request" /\ RequestNext
     /\ UNCHANGED <<scene, lineVars, recordVars, letterVars, replyVars, positionVars, ageVars, mapVars>>
  \/ /\ scene = "reply" /\ ReplyNext
     /\ UNCHANGED <<scene, lineVars, recordVars, letterVars, requestVars, positionVars, ageVars, mapVars>>
  \/ /\ scene = "position" /\ PositionNext
     /\ UNCHANGED <<scene, lineVars, recordVars, letterVars, requestVars, replyVars, ageVars, mapVars>>
  \/ /\ scene = "age" /\ AgeNext
     /\ UNCHANGED <<scene, lineVars, recordVars, letterVars, requestVars, replyVars, positionVars, mapVars>>
  \/ /\ scene = "map" /\ MapNext
     /\ UNCHANGED <<scene, lineVars, recordVars, letterVars, requestVars, replyVars, positionVars, ageVars>>

MCSpec ==
  /\ MCInit
  /\ [][MCNext]_<<scene, lineVars, recordVars, letterVars, requestVars, replyVars, positionVars, ageVars, mapVars>>
  /\ WF_positionVars(scene = "position" /\ BeatStep)
  /\ WF_positionVars(scene = "position" /\ Remember(Command))
  /\ \A t \in Thread : WF_positionVars(scene = "position" /\ platform = "ALLOWED" /\ Answer(t))

\* Access that is allowed for good is noticed (GrantIsNoticed, where the
\* provider moves).
GrantReachesTheBeat == scene = "position" => GrantIsNoticed
=============================================================================
