---------------------------- MODULE IncidentRecord ----------------------------
(***************************************************************************)
(* What becomes of one incident's content between the operator who types it*)
(* and the row another node reads: NewIncident::validate, the signed event,*)
(* the two ways it travels (its JSON over QUIC, the compact LoRa encoding  *)
(* of lora_event_codec.rs), and project_event at both ends.  Logs, sessions*)
(* and sequence numbers are in the other modules.                          *)
(*                                                                         *)
(* An optional value is a sequence of at most one.  A number is <<n, ulps>>*)
(* and serde_json's reader may move it by one unit in the last place       *)
(* (Slips); a time is <<milliseconds, microseconds>>; a text is a class of *)
(* texts with the size of its members.                                     *)
(***************************************************************************)
EXTENDS Integers, Sequences, FiniteSets

CONSTANTS
  Drafts,        \* what an operator may hand to create_incident
  Foreign,       \* events of a node that runs another build, all well signed
  Slips          \* numbers serde_json does not read back exactly

Texts == {"", "padded", "short", "frame", "byte", "long", "huge", "spaces", "tabs"}

\* Bytes of the class's members: "frame" overfills a frame although the length
\* byte can name it, "byte" is the most the length byte can name.
SizeOf == [t \in Texts |-> CASE t \in {"", "spaces", "tabs"} -> 1
                             [] t \in {"short", "padded"} -> 20
                             [] t = "frame" -> 100
                             [] t = "byte" -> 255
                             [] t = "long" -> 1000
                             [] t = "huge" -> 3000]

MaxDescription == 2000     \* MAX_DESCRIPTION_CHARS
MaxEventPayload == 192     \* MAX_SECUREMESH_EVENT_PAYLOAD_BYTES
MaxAccuracy == 20          \* MAX_ACCURACY_METERS, in thousands of kilometres
LastNano == 5              \* the last time (ms) that i64 nanoseconds can name

Optional(S) == {o \in Seq(S) : Len(o) <= 1}
Pairs == Int \X Int

\* What a draft and another build's event may hold; and whole numbers of few digits, the
\* limits among them, are read back exactly.
ASSUME RecordAssumption ==
  /\ Slips \subseteq Pairs \ {<<90, 0>>, <<180, 0>>, <<MaxAccuracy, 0>>}
  /\ Drafts \subseteq
       [latitude : Optional(Pairs), longitude : Optional(Pairs), accuracy : Optional(Pairs),
        captured : Optional(Pairs), source : Optional(STRING), description : Texts,
        severity : STRING]
  /\ Foreign \subseteq
       [id : STRING, key : STRING, created : Pairs, json : STRING,
        payload : [latitude : Optional(Pairs), longitude : Optional(Pairs),
                   accuracy : Optional(Pairs), captured : Optional(Pairs), source : STRING,
                   description : Texts, severity : STRING, incident : STRING]]

VARIABLES
  author,     \* who made the event: no one yet, this program, another build
  event,      \* the signed event of the incident, <<>> before it exists
  mine,       \* the author's row, <<>> before it is projected
  wire,       \* the compact encoding on the radio
  theirs      \* the rows of a node that heard it over QUIC and over LoRa

recordVars == <<author, event, mine, wire, theirs>>

-------------------------------------------------------------------------------
(* The operator's side.                                                    *)

\* Mutant of Trimmed: a text that is only white space stays.
TrimmedEnds(t) == IF t = "padded" THEN "short" ELSE t

Trimmed(t) == CASE t \in {"spaces", "tabs", ""} -> "" [] t = "padded" -> "short" [] OTHER -> t

SeverityOf(label) ==
  CASE label \in {"LOW", "low"} -> <<"LOW">> [] label = "HIGH" -> <<"HIGH">> [] OTHER -> <<>>

\* to_storage_precision drops what the database would not keep.
Milliseconds(time) == <<time[1], 0>>
Each(F(_), optional) == [i \in DOMAIN optional |-> F(optional[i])]

Within(number, bound) ==
  \/ -bound <= number[1] /\ number[1] < bound
  \/ number = <<bound, 0>>

\* Location::new: the one constructor both sides use.
Location(lat, lon, accuracy, source, captured) ==
  IF /\ Within(lat, 90) /\ Within(lon, 180)
     /\ \A i \in DOMAIN accuracy : accuracy[i][1] >= 0 /\ Within(accuracy[i], MaxAccuracy)
  THEN << [latitude |-> lat, longitude |-> lon, accuracy |-> accuracy, source |-> source,
           captured |-> Each(Milliseconds, captured)] >>
  ELSE <<>>

SourceOr(optional) == IF optional = <<>> THEN "UNKNOWN" ELSE optional[1]

\* The position a draft or a payload gives: <<>> when it gives none, <<p>>
\* when Location::new accepts it; Refused is the operator's or peer's error.
Refused == << <<>> >>
PositionOf(d, source) ==
  IF d.latitude = <<>> /\ d.longitude = <<>> THEN <<>>
  ELSE IF d.latitude = <<>> \/ d.longitude = <<>> THEN Refused
  ELSE LET p == Location(d.latitude[1], d.longitude[1], d.accuracy, source, d.captured)
       IN  IF p = <<>> THEN Refused ELSE <<p>>

HasMetadata(d) == d.accuracy # <<>> \/ d.source # <<>> \/ d.captured # <<>>

\* NewIncident::validate: the payload the draft becomes, or <<>>.
Validate(d) ==
  LET position == PositionOf(d, SourceOr(d.source))
      text == Trimmed(d.description)
      at == IF position = <<>> THEN <<>> ELSE position[1]
  IN  IF \/ text = "" \/ SizeOf[text] > MaxDescription
         \/ SeverityOf(d.severity) = <<>>
         \/ position = Refused
         \/ position = <<>> /\ HasMetadata(d)
      THEN <<>>
      ELSE << [incident |-> "canonical", description |-> text,
               severity |-> SeverityOf(d.severity)[1],
               latitude |-> IF at = <<>> THEN <<>> ELSE <<at[1].latitude>>,
               longitude |-> IF at = <<>> THEN <<>> ELSE <<at[1].longitude>>,
               accuracy |-> IF at = <<>> THEN <<>> ELSE at[1].accuracy,
               source |-> IF at = <<>> THEN "UNKNOWN" ELSE at[1].source,
               captured |-> IF at = <<>> THEN <<>> ELSE at[1].captured] >>

\* MeshEvent::create: the payload as serde_json prints it, stamped to the
\* millisecond.
Create(payload) ==
  [id |-> "canonical", key |-> "canonical", created |-> <<1, 0>>,
   json |-> "canonical", payload |-> payload]

-------------------------------------------------------------------------------
(* Reading an event.                                                       *)

ReadNumber(n) == IF n \in Slips THEN <<n[1], n[2] + 1>> ELSE n

\* incident_created_payload: serde_json reads the origin's own text.
ReadPayload(e) ==
  [e.payload EXCEPT !.latitude = Each(ReadNumber, @), !.longitude = Each(ReadNumber, @),
                    !.accuracy = Each(ReadNumber, @)]

\* verify, for an event its origin did sign: the signed time has milliseconds.
Verifies(e) == e.id # "bad"

\* project_event with the table's CHECKs: the row, or <<>> and no event either.
Project(e) ==
  LET p == ReadPayload(e)
      position == PositionOf(p, p.source)
  IN  IF \/ position = Refused
         \/ p.description \in {"", "spaces"}
         \/ p.severity \notin {"LOW", "HIGH"}
      THEN <<>>
      ELSE << [id |-> p.incident, description |-> p.description, severity |-> p.severity,
               position |-> IF position = <<>> THEN <<>> ELSE position[1],
               created |-> Milliseconds(e.created)] >>

-------------------------------------------------------------------------------
(* The compact encoding.                                                   *)

\* Mutant of ExactNumber: serde_json's reading is good enough.
InexactNumber(e, read, written) == read

\* exact_float: a number of a flat JSON object is read again from its text.
ExactNumber(e, read, written) == IF e.json = "nested" THEN read ELSE written

SizeOfWire(w) ==
  98 + 16 + 3 + 8 * (Len(w.numbers) + Len(w.captured)) + 1 + SizeOf[w.description]

\* The flags say which of latitude, longitude and accuracy follow, in order.
Numbers(lat, lon, accuracy) == lat \o lon \o accuracy

\* encode, before its check: every field in its wire form.
Pack(e) ==
  LET read == ReadPayload(e)
      exact(a, b) == ExactNumber(e, a, b)
  IN  [id |-> "canonical", created |-> e.created[1], incident |-> "canonical",
       severity |-> read.severity, source |-> read.source,
       flags |-> {f \in {"latitude", "longitude", "accuracy"} : read[f] # <<>>},
       numbers |-> Numbers(exact(read.latitude, e.payload.latitude),
                           exact(read.longitude, e.payload.longitude),
                           exact(read.accuracy, e.payload.accuracy)),
       captured |-> read.captured, description |-> read.description]

\* decode: the event the bytes spell, its key from the receiver's own trust
\* state and its payload printed afresh.
Unpack(w) ==
  LET before(f) == CASE f = "latitude" -> {} [] f = "longitude" -> {"latitude"}
                     [] f = "accuracy" -> {"latitude", "longitude"}
      place(f) == LET n == {g \in before(f) : g \in w.flags} IN
                  CASE n = {} -> 1 [] n = {"latitude", "longitude"} -> 3 [] OTHER -> 2
      number(f) == IF f \in w.flags THEN << w.numbers[place(f)] >> ELSE <<>>
  IN  [id |-> w.id, key |-> "canonical", created |-> <<w.created, 0>>, json |-> "canonical",
       payload |-> [incident |-> w.incident, description |-> w.description,
                    severity |-> w.severity, source |-> w.source,
                    latitude |-> number("latitude"), longitude |-> number("longitude"),
                    accuracy |-> number("accuracy"), captured |-> w.captured]]

Packable(e) ==
  /\ e.id # "bad" /\ e.payload.incident # "bad"
  /\ e.payload.severity \in {"LOW", "HIGH"}
  /\ \A i \in DOMAIN e.payload.captured : e.payload.captured[i][1] <= LastNano
  /\ SizeOf[e.payload.description] <= 255
  /\ SizeOfWire(Pack(e)) <= MaxEventPayload

\* encode: the wire form, if decoding it gives the very same event.
EncodeEvent(e) == IF Packable(e) /\ Unpack(Pack(e)) = e THEN << Pack(e) >> ELSE <<>>

-------------------------------------------------------------------------------
RecordInit ==
  author = "none" /\ event = <<>> /\ mine = <<>> /\ wire = <<>> /\ theirs = [quic |-> <<>>, lora |-> <<>>]

\* create_incident: validated, signed, applied and projected in one transaction.
CreateIncident(d) ==
  /\ Validate(d) # <<>>
  /\ author' = "here"
  /\ LET e == Create(Validate(d)[1]) IN event' = <<e>> /\ mine' = Project(e)
  /\ UNCHANGED <<wire, theirs>>

\* An authorized node of another build signs what it likes.
SignElsewhere(e) ==
  /\ event' = <<e>> /\ author' = "elsewhere"
  /\ UNCHANGED <<mine, wire, theirs>>

\* A batch or a live announcement over QUIC: verify, apply_event.
Replicate ==
  /\ event # <<>>
  /\ Verifies(event[1])
  /\ theirs' = [theirs EXCEPT !.quic = Project(event[1])]
  /\ UNCHANGED <<author, event, mine, wire>>

\* maybe_transmit_lora_event or the responder: encode, or skip the event.
TransmitEvent ==
  /\ event # <<>>
  /\ wire' = EncodeEvent(event[1])
  /\ UNCHANGED <<author, event, mine, theirs>>

\* The bytes a signature covers: canonical_bytes writes the time with milliseconds.
SignedPart(e) == [e EXCEPT !.created = Milliseconds(@)]

\* ingest_event_frame: decode, verify against the origin's signature, apply_event.
HearOverLora ==
  /\ wire # <<>>
  /\ theirs' = [theirs EXCEPT !.lora = IF SignedPart(Unpack(wire[1])) = SignedPart(event[1])
                                       THEN Project(Unpack(wire[1])) ELSE <<>>]
  /\ UNCHANGED <<author, event, mine, wire>>

RecordNext ==
  \/ event = <<>> /\ \E d \in Drafts : CreateIncident(d)
  \/ event = <<>> /\ \E e \in Foreign : SignElsewhere(e)
  \/ Replicate
  \/ TransmitEvent
  \/ HearOverLora

RecordSpec == RecordInit /\ [][RecordNext]_recordVars
-------------------------------------------------------------------------------
(***************************************************************************)
(* Properties                                                              *)
(***************************************************************************)

\* What an operator was allowed to write is projected here and wherever the
\* event arrives, into one and the same row whichever way it came.
OneRecordEverywhere ==
  /\ author = "here" => mine # <<>>
  /\ \A row, other \in {mine, theirs.quic, theirs.lora} :
       row # <<>> /\ other # <<>> => row = other

\* What a compact frame can say of an event, told without packing it.
Representable(e) ==
  /\ e.id = "canonical" /\ e.key = "canonical" /\ e.json = "canonical"
  /\ e.created[2] = 0
  /\ e.payload.incident = "canonical" /\ e.payload.severity \in {"LOW", "HIGH"}
  /\ e.payload.captured # <<>> => e.payload.captured[1][1] <= LastNano
  /\ LET optional == <<e.payload.latitude, e.payload.longitude, e.payload.accuracy,
                       e.payload.captured>>
     IN  SizeOf[e.payload.description]
           + 8 * Cardinality({i \in 1..4 : optional[i] # <<>>}) <= 74

\* The compact encoding is exact or refuses, and refuses nothing it could say:
\* an event this program made goes on the air whenever it fits.
LosslessOrRefused ==
  event # <<>> =>
    LET e == event[1] IN
    /\ EncodeEvent(e) # <<>> <=> Representable(e)
    /\ EncodeEvent(e) # <<>> => Unpack(EncodeEvent(e)[1]) = e

\* An event says one thing: in every row, and on the air or not at all.
RecordIsFaithful == OneRecordEverywhere /\ LosslessOrRefused
=============================================================================
