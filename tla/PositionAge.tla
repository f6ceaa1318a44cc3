----------------------------- MODULE PositionAge -----------------------------
(***************************************************************************)
(* How old a peer's position may look at the node that shows it: the loop  *)
(* of spawn_location_heartbeat at the peer against the ages of             *)
(* LocationFreshness here.  Time passes in units of RETRY; a publication   *)
(* takes the time of its fix.  The receiver's clock is assumed to run      *)
(* evenly; freshness is read off the wall clock.                           *)
(***************************************************************************)
EXTENDS Naturals

CONSTANTS
  Interval,    \* INTERVAL, in units of RETRY
  MaxFix,      \* the longest a fix takes (FIX_TIMEOUT_SECONDS)
  CurrentFor,  \* CURRENT_FOR_SECONDS
  ExpiresAfter,\* EXPIRES_AFTER_SECONDS
  MaxNumber,   \* bound: numbers a process of the peer uses
  MaxEnds      \* bound: times the peer's process ends

ASSUME AgeAssumption ==
  /\ {Interval, CurrentFor, ExpiresAfter} \subseteq Nat \ {0}
  /\ {MaxFix, MaxNumber, MaxEnds} \subseteq Nat

\* A position outlasts two heartbeats that fail: 15 minutes, beside twice five
\* and twice the 12 s of a fix.
ASSUME ExpiryOutlastsTwo == 2 * (Interval + MaxFix) < ExpiresAfter

VARIABLES
  peer,     \* the peer's thread: "asleep", "fixing", or "gone"
  left,     \* time it still sleeps, or has been fixing
  number,   \* its location_sequence
  held,     \* the sequence this node holds of it; 0 is none
  age,      \* time since that was received, up to ExpiresAfter
  missed,   \* history: fixes failed and heartbeats lost since, up to 2
  ended,    \* history: the peer's process ended since
  ends

ageVars == <<peer, left, number, held, age, missed, ended, ends>>

AgeTypeOK ==
  /\ peer \in {"asleep", "fixing", "gone"}
  /\ left \in 0..Interval \cup 0..MaxFix /\ number \in 0..MaxNumber
  /\ held \in 0..MaxNumber /\ age \in 0..ExpiresAfter
  /\ missed \in 0..2 /\ ended \in BOOLEAN /\ ends \in 0..MaxEnds

AgeInit ==
  /\ peer = "fixing" /\ left = 0 /\ number = 0
  /\ held = 0 /\ age = 0 /\ missed = 0 /\ ended = FALSE /\ ends = 0

\* Mutant of Freshness: two intervals, not three.
FreshnessOfTwo(elapsed) ==
  IF elapsed < CurrentFor THEN "CURRENT" ELSE IF elapsed < 2 * Interval THEN "STALE" ELSE "EXPIRED"

\* PeerLocation::freshness, measured from received_at
Freshness(elapsed) ==
  IF elapsed < CurrentFor THEN "CURRENT"
  ELSE IF elapsed < ExpiresAfter THEN "STALE" ELSE "EXPIRED"

Miss == missed' = IF missed = 2 THEN 2 ELSE missed + 1

\* Time passes: not past the moment the peer is due.
Tick ==
  /\ age' = IF held = 0 \/ age = ExpiresAfter THEN age ELSE age + 1
  /\ \/ peer = "asleep" /\ left > 0 /\ left' = left - 1
     \/ peer = "fixing" /\ left < MaxFix /\ left' = left + 1
     \/ peer = "gone" /\ UNCHANGED left
  /\ UNCHANGED <<peer, number, held, missed, ended, ends>>

Wake ==
  /\ peer = "asleep" /\ left = 0 /\ peer' = "fixing"
  /\ UNCHANGED <<left, number, held, age, missed, ended, ends>>

\* The loop sleeps for a time that says how publish_location went.
SleepFor(time) == peer' = "asleep" /\ left' = time

\* No position: RETRY, and the counter stays.
FixFails ==
  /\ peer = "fixing" /\ Miss /\ SleepFor(1)
  /\ UNCHANGED <<number, held, age, ended, ends>>

\* The heartbeat is broadcast and does not arrive.
PublishLost ==
  /\ peer = "fixing" /\ number < MaxNumber
  /\ number' = number + 1 /\ Miss /\ SleepFor(Interval)
  /\ UNCHANGED <<held, age, ended, ends>>

\* It arrives, and PeerLocationBook::accept takes it if its number is higher.
PublishHeard ==
  /\ peer = "fixing" /\ number < MaxNumber
  /\ number' = number + 1 /\ SleepFor(Interval)
  /\ IF number' > held
     THEN held' = number' /\ age' = 0 /\ missed' = 0 /\ ended' = FALSE
     ELSE UNCHANGED <<held, age, missed, ended>>
  /\ UNCHANGED ends

\* The peer's process ends and may start again, counting from 1.
PeerEnds ==
  /\ peer # "gone" /\ ends < MaxEnds
  /\ peer' = "gone" /\ left' = 0 /\ number' = 0
  /\ ended' = TRUE /\ ends' = ends + 1
  /\ UNCHANGED <<held, age, missed>>
PeerStarts ==
  /\ peer = "gone" /\ peer' = "fixing"
  /\ UNCHANGED <<left, number, held, age, missed, ended, ends>>

AgeNext ==
  \/ Tick \/ Wake \/ FixFails \/ PublishLost \/ PublishHeard \/ PeerEnds \/ PeerStarts

AgeSpec == AgeInit /\ [][AgeNext]_ageVars
-----------------------------------------------------------------------------

\* A position is written off, and its marker with it, only after two misses in
\* a row, however long the fixes took; or the peer's process ended, after which
\* its heartbeats are refused until it has counted past what is held
\* (EXPIRES_AFTER_SECONDS, PeerLocationBook::accept).
ExpiredMeansMissed ==
  held # 0 /\ Freshness(age) = "EXPIRED" => missed = 2 \/ ended
=============================================================================
