----------------------------- MODULE OwnPosition -----------------------------
(***************************************************************************)
(* How a node learns where it is, and says so: the location provider of    *)
(* location/mod.rs and location/windows_provider.rs with its remembered    *)
(* permission, NodeRuntime::publish_location with its counter, and the     *)
(* fixed-point heartbeat of domain/peer_location.rs up to the report its   *)
(* receiver makes of it.  LocationBook takes up what arrives.              *)
(*                                                                         *)
(* Two threads use the provider: the heartbeat, and the commands of the    *)
(* operator.  The platform's answer to a request and the provider's note   *)
(* of it are two steps, and Settings may change between any two.           *)
(*                                                                         *)
(* A reading is in whole parts: Fine parts are one unit of the wire, of    *)
(* 1e-7 degree or of a millimetre.                                         *)
(***************************************************************************)
EXTENDS Integers, Sequences

CONSTANTS
  Beat, Command,  \* the heartbeat thread and the operator's commands
  Fine,           \* parts of a wire unit
  MaxLat, MaxLon, \* 90 and 180 degrees, in parts
  MaxRadius,      \* MAX_ACCURACY_METERS, in parts
  MaxWire,        \* the largest i32
  Milli,          \* microseconds of a millisecond
  NotFinite,      \* an f64 that is no number
  Readings,       \* what the platform may report
  MaxHeartbeats   \* bound: numbers used up

Thread == {Beat, Command}
IsWithin(x, bound) == x # NotFinite /\ -bound <= x /\ x <= bound

\* i32 holds every coordinate (COORDINATE_SCALE).
ASSUME PositionAssumption ==
  /\ Beat # Command
  /\ {Fine, Milli} \subseteq Nat \ {0}
  /\ {MaxLat, MaxLon, MaxRadius, MaxWire, MaxHeartbeats} \subseteq Nat
  /\ MaxLat % Fine = 0 /\ MaxLon % Fine = 0 /\ MaxRadius % Fine = 0
  /\ MaxLat <= MaxLon /\ MaxLon \div Fine <= MaxWire

\* A platform gives three floats, of which none need be finite, the radius only if it has one.
ASSUME ReadingAssumption ==
  /\ NotFinite \notin Int
  /\ \A r \in Readings :
       /\ r \in [lat : Int \cup {NotFinite}, lon : Int \cup {NotFinite},
                 radius : Seq(Int \cup {NotFinite}), source : STRING, captured : Int]
       /\ Len(r.radius) <= 1

VARIABLES
  provider,   \* "windows", or "none": UnavailableProvider
  meshed,     \* a mesh is attached, so the heartbeat thread runs
  platform,   \* Settings: "ALLOWED", "DENIED", "UNSPECIFIED", "GONE"
  known,      \* WindowsLocationProvider.known
  at,         \* what each thread does
  counter,    \* location_sequence
  told,       \* history: heartbeats broadcast
  burnt       \* history: readings that validated() refused

positionVars == <<provider, meshed, platform, known, at, counter, told, burnt>>
counts == <<counter, told, burnt>>

Answers == {"GRANTED", "DENIED", "NOT_REQUESTED", "UNAVAILABLE"}
Idle == [stage |-> "idle"]
Asking(purpose) == [stage |-> "asking", purpose |-> purpose]
Answered(purpose, a) == [stage |-> "answered", purpose |-> purpose, answer |-> a]
Fixing == [stage |-> "fixing"]

PositionTypeOK ==
  /\ provider \in {"windows", "none"} /\ meshed \in BOOLEAN
  /\ platform \in {"ALLOWED", "DENIED", "UNSPECIFIED", "GONE"} /\ known \in Answers
  /\ \A t \in Thread : at[t].stage \in {"idle", "asking", "answered", "fixing", "fixed", "told"}
  /\ counter \in 0..MaxHeartbeats /\ told \in 0..counter /\ burnt \in 0..counter

\* WindowsLocationProvider::new asks nothing; UnavailableProvider has no one to ask.
PositionInit ==
  /\ meshed \in BOOLEAN
  /\ \/ /\ provider = "windows" /\ known = "NOT_REQUESTED"
        /\ platform \in {"ALLOWED", "DENIED", "UNSPECIFIED", "GONE"}
     \/ provider = "none" /\ known = "UNAVAILABLE" /\ platform = "GONE"
  /\ at = [t \in Thread |-> Idle]
  /\ counter = 0 /\ told = 0 /\ burnt = 0

-----------------------------------------------------------------------------
(* What becomes of a reading.                                              *)

\* source_of, From<LocationSource>: only a satellite works offline.
RecordSource(raw) ==
  CASE raw = "Satellite" -> "GNSS" [] raw \in {"Cellular", "WiFi"} -> "WIRELESS" [] OTHER -> "UNKNOWN"

\* DeviceLocation::validated: a position on Earth; a radius that is none is dropped.
DeviceValid(r) == IsWithin(r.lat, MaxLat) /\ IsWithin(r.lon, MaxLon)
Device(r) ==
  [r EXCEPT !.radius = IF \A i \in DOMAIN @ : @[i] # NotFinite /\ @[i] >= 0 THEN @ ELSE <<>>]

\* LocationReport::validated: Location::new, and a number of at least 1.
ReportValid(r, sequence) ==
  /\ IsWithin(r.lat, MaxLat) /\ IsWithin(r.lon, MaxLon)
  /\ \A i \in DOMAIN r.radius : IsWithin(r.radius[i], MaxRadius) /\ r.radius[i] >= 0
  /\ sequence >= 1
Report(r, sequence) ==
  [lat |-> r.lat, lon |-> r.lon, radius |-> r.radius, source |-> r.source,
   captured |-> (r.captured \div Milli) * Milli, sequence |-> sequence]

\* f64::round, half away from zero
Round(x) ==
  IF x >= 0 THEN (x + Fine \div 2) \div Fine ELSE -((Fine \div 2 - x) \div Fine)

\* "as i32" keeps within the width.
Saturate(x) == IF x > MaxWire THEN MaxWire ELSE IF x < -MaxWire - 1 THEN -MaxWire - 1 ELSE x

\* latitude_e7, longitude_e7, accuracy_mm
ToWire(r) == [r EXCEPT !.lat = Saturate(Round(@)), !.lon = Saturate(Round(@)),
                       !.radius = [i \in DOMAIN @ |-> Round(@[i])]]

\* Mutant of FromWire: millimetres are read as metres.
FromWireInMetres(w) == [w EXCEPT !.lat = @ * Fine, !.lon = @ * Fine,
                                 !.radius = [i \in DOMAIN @ |-> @[i] * Fine * 1000]]

FromWire(w) == [w EXCEPT !.lat = @ * Fine, !.lon = @ * Fine,
                         !.radius = [i \in DOMAIN @ |-> @[i] * Fine]]

-----------------------------------------------------------------------------
(* Permission.                                                             *)

\* Settings may change at any time; nobody tells the provider.
ChangeSettings ==
  /\ provider = "windows"
  /\ platform' \in {"ALLOWED", "DENIED", "UNSPECIFIED", "GONE"} \ {platform}
  /\ UNCHANGED <<provider, meshed, known, at, counts>>

\* request_location_permission, the command
PressRequest ==
  /\ at[Command] = Idle
  /\ at' = [at EXCEPT ![Command] = Asking("permission")]
  /\ UNCHANGED <<provider, meshed, platform, known, counts>>

\* Mutant of StartFix: a refusal is remembered for good.
StartFixUnlessRefused(t) ==
  /\ at[t] = Idle /\ (t = Beat => meshed)
  /\ at' = [at EXCEPT ![t] = CASE known = "GRANTED" -> Fixing
                               [] known = "NOT_REQUESTED" -> Asking("fix")
                               [] OTHER -> Idle]
  /\ UNCHANGED <<provider, meshed, platform, known, counts>>

\* current_location asks first unless the note says granted.  The heartbeat
\* comes here by itself, the command when the operator asks for a position.
StartFix(t) ==
  /\ at[t] = Idle /\ (t = Beat => meshed)
  /\ at' = [at EXCEPT ![t] = IF known = "GRANTED" THEN Fixing ELSE Asking("fix")]
  /\ UNCHANGED <<provider, meshed, platform, known, counts>>

\* RequestAccessAsync: where Settings say nothing the operator is prompted and
\* may decide, or close the dialog.
Answer(t) ==
  /\ at[t].stage = "asking"
  /\ platform' \in IF platform = "UNSPECIFIED" THEN {"ALLOWED", "DENIED", platform} ELSE {platform}
  /\ at' = [at EXCEPT ![t] =
              Answered(@.purpose, CASE platform' = "ALLOWED" -> "GRANTED"
                                    [] platform' = "DENIED" -> "DENIED"
                                    [] platform' = "GONE" -> "UNAVAILABLE"
                                    [] OTHER -> "NOT_REQUESTED")]
  /\ UNCHANGED <<provider, meshed, known, counts>>

\* remember; current_location goes on if access was granted.
Remember(t) ==
  /\ at[t].stage = "answered"
  /\ known' = at[t].answer
  /\ at' = [at EXCEPT ![t] = IF @.purpose = "fix" /\ @.answer = "GRANTED" THEN Fixing ELSE Idle]
  /\ UNCHANGED <<provider, meshed, platform, counts>>

-----------------------------------------------------------------------------
(* A fix, and its publication.                                             *)

\* GetGeopositionAsync gives up, has no coordinate, or Settings forbid it: no
\* position, no number, and the note stays as it was.
NoFix(t) ==
  /\ at[t].stage = "fixing"
  /\ at' = [at EXCEPT ![t] = Idle]
  /\ UNCHANGED <<provider, meshed, platform, known, counts>>

\* A fix for the operator goes back to the window; one for the heartbeat on.
TakeFix(t, r) ==
  /\ at[t].stage = "fixing" /\ platform = "ALLOWED" /\ DeviceValid(r)
  /\ t = Beat => counter < MaxHeartbeats
  /\ at' = [at EXCEPT ![t] = IF t = Beat
              THEN [stage |-> "fixed", raw |-> r,
                    fix |-> [Device(r) EXCEPT !.source = RecordSource(@)]]
              ELSE Idle]
  /\ UNCHANGED <<provider, meshed, platform, known, counts>>

\* Mutant of Publish: the report is not checked before it is sent.
PublishUnchecked ==
  /\ at[Beat].stage = "fixed"
  /\ counter' = counter + 1 /\ told' = told + 1
  /\ at' = [at EXCEPT ![Beat] = [stage |-> "told", raw |-> @.raw,
                                 body |-> ToWire(Report(@.fix, counter'))]]
  /\ UNCHANGED <<provider, meshed, platform, known, burnt>>

\* The rest of publish_location: fetch_add, validated, broadcast_location.
Publish ==
  /\ at[Beat].stage = "fixed"
  /\ counter' = counter + 1
  /\ IF ReportValid(at[Beat].fix, counter')
     THEN /\ at' = [at EXCEPT ![Beat] = [stage |-> "told", raw |-> @.raw,
                                         body |-> ToWire(Report(@.fix, counter'))]]
          /\ told' = told + 1 /\ UNCHANGED burnt
     ELSE /\ at' = [at EXCEPT ![Beat] = Idle]
          /\ burnt' = burnt + 1 /\ UNCHANGED told
  /\ UNCHANGED <<provider, meshed, platform, known>>

\* The thread sleeps INTERVAL.
Sleep ==
  /\ at[Beat].stage = "told"
  /\ at' = [at EXCEPT ![Beat] = Idle]
  /\ UNCHANGED <<provider, meshed, platform, known, counts>>

BeatStep ==
  \/ StartFix(Beat) \/ Remember(Beat) \/ NoFix(Beat) \/ Publish \/ Sleep
  \/ \E r \in Readings : TakeFix(Beat, r)

PositionNext ==
  \/ ChangeSettings \/ PressRequest \/ BeatStep
  \/ StartFix(Command) \/ Remember(Command) \/ NoFix(Command)
  \/ \E r \in Readings : TakeFix(Command, r)
  \/ \E t \in Thread : Answer(t)

PositionSpec == PositionInit /\ [][PositionNext]_positionVars

\* Threads run, and a platform that need not prompt answers.
PositionFairness ==
  /\ WF_positionVars(BeatStep)
  /\ WF_positionVars(Remember(Command))
  /\ \A t \in Thread : WF_positionVars(platform = "ALLOWED" /\ Answer(t))
-----------------------------------------------------------------------------

Apart(x, y) == IF x > y THEN x - y ELSE y - x

\* What a node broadcasts, its receivers accept, and read as the position the
\* platform gave: half a unit off at most, from no better a source, with its
\* radius unless that was none, and not later than it was taken
\* (LocationReport::from_wire, validated).
ReadsAsTaken(r, body) ==
  LET heard == FromWire(body) IN
  /\ ReportValid(heard, heard.sequence)
  /\ 2 * Apart(heard.lat, r.lat) <= Fine /\ 2 * Apart(heard.lon, r.lon) <= Fine
  /\ heard.source = "GNSS" <=> r.source = "Satellite"
  /\ \A i \in DOMAIN r.radius :
       IF r.radius[i] # NotFinite /\ r.radius[i] >= 0
       THEN heard.radius # <<>> /\ 2 * Apart(heard.radius[1], r.radius[i]) <= Fine
       ELSE heard.radius = <<>>
  /\ heard.captured \in (r.captured - Milli + 1)..r.captured

\* A number is used up by a heartbeat, or by a reading whose radius exceeds the
\* Earth, and by nothing else: peers see no gap for a fix that was not made
\* (publish_location).
PublishedIsFaithful ==
  /\ PositionTypeOK
  /\ counter = told + burnt
  /\ burnt > 0 => \E r \in Readings : ~ReportValid(Device(r), 1) /\ DeviceValid(r)
  /\ at[Beat].stage = "told" =>
       /\ ReadsAsTaken(at[Beat].raw, at[Beat].body)
       /\ at[Beat].body.sequence = counter

\* Access that is allowed for good is noticed, whatever was refused before and
\* whichever thread noted an older answer over a newer one: the heartbeat asks
\* until it is granted.  (A refusal after a grant is never noticed.)
GrantIsNoticed ==
  (provider = "windows" /\ meshed /\ <>[](platform = "ALLOWED")) => <>[](known = "GRANTED")
=============================================================================
