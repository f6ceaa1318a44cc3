------------------------------- MODULE Basemap -------------------------------
(***************************************************************************)
(* The offline basemap: map/mod.rs reads, checks and describes the file an *)
(* operator provisioned; TacticalMap asks for the description and then for *)
(* the geometry, two commands that each read the file; basemap.ts draws.   *)
(* The operator may replace the file between any two reads.                *)
(*                                                                         *)
(* A feature is its kind, its geometry type, the number of collections     *)
(* around the geometry, and the places its coordinates name; a place is    *)
(* <<longitude, latitude>> in whole degrees of a small Earth.              *)
(***************************************************************************)
EXTENDS Integers, FiniteSets

CONSTANTS
  Files,        \* what an operator may provision
  MaxBytes,     \* MAX_BASEMAP_BYTES
  MaxDepth,     \* MAX_DEPTH of extend_bounds, extend_positions and walk
  East, North,  \* 180 and 90 degrees
  Margin,       \* COVERAGE_MARGIN_KM, in degrees of latitude
  Wider(_),     \* the same margin in degrees of longitude, at a latitude
  Sites,        \* positions of this node's incidents
  MaxReplaced   \* bound: times the operator replaces the file

ASSUME MapAssumption ==
  /\ {MaxBytes, MaxDepth, East, North, Margin, MaxReplaced} \subseteq Nat
  /\ Sites \subseteq Int \X Int
  /\ \A latitude \in -North..North : Wider(latitude) \in Nat

VARIABLES
  file,      \* the provisioned file, or {}
  replaced,  \* times it was replaced
  step,      \* what the window waits for
  length,    \* metadata().len() of the load under way
  basemap,   \* the description the window holds, {} before it has one
  drawn,     \* the file whose geometry it draws, {} before it has one
  since      \* history: replaced when the description was read

mapVars == <<file, replaced, step, length, basemap, drawn, since>>

OnEarth(p) == -East <= p[1] /\ p[1] <= East /\ -North <= p[2] /\ p[2] <= North

\* Levels of arrays around a position
Levels == [Point |-> 0, MultiPoint |-> 1, LineString |-> 1, MultiLineString |-> 2,
           Polygon |-> 2, MultiPolygon |-> 3]

\* GeoJSON has these types and no other, and a place is two numbers.
ASSUME FeatureAssumption ==
  \A text \in Files : \A f \in text.features :
    f.nested \in Nat /\ f.type \in DOMAIN Levels /\ f.places \subseteq Int \X Int

\* Mutant of Reached: coordinates are followed one level only.
ReachedShallow(f) == f.nested + Levels[f.type] <= 1

\* extend_bounds and extend_positions share one depth: collections and arrays.
Reached(f) == f.nested + Levels[f.type] <= MaxDepth

\* BoundingBox::extend passes over what is not on Earth.
Bounded(text) == UNION {{p \in f.places : Reached(f) /\ OnEarth(p)} : f \in text.features}

Lowest(S) == CHOOSE x \in S : \A y \in S : x <= y
Highest(S) == CHOOSE x \in S : \A y \in S : x >= y
Box(places) ==
  [west |-> Lowest({p[1] : p \in places}), east |-> Highest({p[1] : p \in places}),
   south |-> Lowest({p[2] : p \in places}), north |-> Highest({p[2] : p \in places})]

Covers(box, other) ==
  /\ box.west <= other.west /\ box.east >= other.east
  /\ box.south <= other.south /\ box.north >= other.north
Around(p) == Box({p})

AtMost(x, y) == IF x < y THEN x ELSE y
AtLeast(x, y) == IF x > y THEN x ELSE y

\* Mutant of Expanded: the margin moves the box.
ExpandedAside(box) ==
  LET wide == Wider((box.south + box.north) \div 2) IN
  [west |-> AtMost(box.west + wide, East), east |-> AtMost(box.east + wide, East),
   south |-> AtLeast(box.south - Margin, -North), north |-> AtMost(box.north + Margin, North)]

\* expanded_by_km: degrees of longitude are wider at the middle latitude, and
\* the box ends where Earth does.
Expanded(box) ==
  LET wide == Wider((box.south + box.north) \div 2) IN
  [west |-> AtLeast(box.west - wide, -East), east |-> AtMost(box.east + wide, East),
   south |-> AtLeast(box.south - Margin, -North), north |-> AtMost(box.north + Margin, North)]

\* required_coverage: nothing when no incident has a place on Earth.
Required(sites) ==
  LET on == {s \in sites : OnEarth(s)} IN IF on = {} THEN {} ELSE {Expanded(Box(on))}

\* load_from after the metadata: the file's text, parsed and checked.
Usable(text) == text.json = "collection" /\ Bounded(text) # {}
Describe(text, bytes) ==
  [text |-> text, bytes |-> bytes, count |-> Cardinality(text.features), bounds |-> Box(Bounded(text))]

MapInit ==
  /\ file \in {{}} \cup {{f} : f \in Files}
  /\ replaced = 0 /\ since = 0 /\ step = "mount" /\ length = 0
  /\ basemap = {} /\ drawn = {}

\* The operator provisions another file, or removes it.
Replace ==
  /\ replaced < MaxReplaced /\ replaced' = replaced + 1
  /\ file' \in ({{}} \cup {{f} : f \in Files}) \ {file}
  /\ UNCHANGED <<step, length, basemap, drawn, since>>

\* A failed command: no basemap, and the grid stays (TacticalMap's catch).
Give == step' = "done" /\ basemap' = {} /\ drawn' = {}

\* load: metadata first.  NotProvisioned and TooLarge end it.
Stat(from, to) ==
  /\ step = from
  /\ \/ /\ \E f \in file : f.bytes <= MaxBytes /\ length' = f.bytes
        /\ step' = to
        /\ UNCHANGED <<basemap, drawn>>
     \/ /\ file = {} \/ \E f \in file : f.bytes > MaxBytes
        /\ Give /\ UNCHANGED length
  /\ UNCHANGED <<file, replaced, since>>

\* get_map_basemap: the text is read, whatever the metadata was of.
ReadDescription ==
  /\ step = "describe"
  /\ \/ /\ \E f \in file : Usable(f) /\ basemap' = {Describe(f, length)}
        /\ step' = "described" /\ since' = replaced /\ UNCHANGED drawn
     \/ /\ \A f \in file : ~Usable(f)
        /\ Give /\ UNCHANGED since
  /\ UNCHANGED <<file, replaced, length>>

\* get_map_geojson: the same again, for the text itself.
ReadGeometry ==
  /\ step = "read"
  /\ \/ /\ \E f \in file : Usable(f)
        /\ drawn' = file /\ step' = "done" /\ UNCHANGED basemap
     \/ /\ \A f \in file : ~Usable(f)
        /\ Give
  /\ UNCHANGED <<file, replaced, length, since>>

MapNext ==
  \/ Replace \/ Stat("mount", "describe") \/ ReadDescription
  \/ Stat("described", "read") \/ ReadGeometry

MapSpec == MapInit /\ [][MapNext]_mapVars
-----------------------------------------------------------------------------

\* projectBasemap and walk: recognised kinds, and collections to the same depth
\* but any arrays inside; a line needs two places; a point is a named label.
Drawn(text) ==
  UNION {{p \in f.places : /\ f.kind # "other" /\ f.nested <= MaxDepth
                           /\ IF f.type \in {"Point", "MultiPoint"} THEN f.kind = "place"
                              ELSE Cardinality(f.places) > 1} : f \in text.features}
TooDeep(text) == \E f \in text.features : f.nested + Levels[f.type] > MaxDepth

\* The frame and the checksum the window shows are those of the geometry it
\* draws, unless the operator replaced the file between the two commands; and
\* then what is drawn and on Earth lies inside the frame, unless it was nested
\* deeper than the core follows and the renderer does (map/mod.rs, basemap.ts).
ChecksumDescribes ==
  \A text \in drawn, shown \in basemap :
    \/ replaced # since
    \/ /\ shown.text = text
       /\ \A p \in Drawn(text) : OnEarth(p) => Covers(shown.bounds, Around(p)) \/ TooDeep(text)

\* A file found to cover what this node's incidents require has every incident
\* on Earth inside its frame, with the margin the Earth leaves around it
\* (required_coverage, contains).
CoverageCoversIncidents ==
  \A shown \in basemap, sites \in SUBSET Sites : \A box \in Required(sites) :
    Covers(shown.bounds, box) =>
      \A s \in sites : OnEarth(s) =>
        /\ Covers(shown.bounds, Around(s))
        /\ Covers(shown.bounds, Around(<<s[1], AtMost(s[2] + Margin, North)>>))
        /\ Covers(shown.bounds, Around(<<s[1], AtLeast(s[2] - Margin, -North)>>))
=============================================================================
