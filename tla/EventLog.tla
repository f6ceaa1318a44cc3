------------------------------ MODULE EventLog ------------------------------
(***************************************************************************)
(* The operators of storage/events.rs over one origin's slice of a node's  *)
(* event log.                                                              *)
(*                                                                         *)
(* UNIQUE (origin_node, origin_seq) makes that slice a function from       *)
(* sequence numbers to the event held there, so a slice is a "row": it     *)
(* maps each sequence number to NotHeld or to the version of the event     *)
(* held.  Two versions of one sequence number are two events an origin     *)
(* signed with the same number, which happens when it wrote them from two  *)
(* incarnations of its database.                                           *)
(***************************************************************************)
EXTENDS Naturals

CONSTANTS
  MaxSeq,          \* bound: highest sequence number any origin issues
  MaxIncarnation,  \* bound: databases one identity writes from
  MaxBatch         \* MAX_SYNC_BATCH

ASSUME LogBounds ==
  /\ MaxSeq \in Nat
  /\ MaxIncarnation \in Nat \ {0}
  /\ MaxBatch \in Nat \ {0}

Seqs == 1..MaxSeq
Marks == 0..MaxSeq
NotHeld == 0
Versions == 1..MaxIncarnation
Row == [Seqs -> Versions \cup {NotHeld}]
EmptyRow == [s \in Seqs |-> NotHeld]

Held(row) == {s \in Seqs : row[s] # NotHeld}

\* watermark_for: the highest sequence number with nothing missing below it.
Watermark(row) ==
  CHOOSE w \in Marks :
    /\ 1..w \subseteq Held(row)
    /\ w + 1 \notin Held(row)

\* next_local_sequence: one past the highest number held, gaps or not.
IsNextSequence(row, s) ==
  /\ \A held \in Held(row) : held < s
  /\ s = 1 \/ s - 1 \in Held(row)

\* Mutant of EventsSince: the newest events first.
NewestEvents(row, after) ==
  [s \in Seqs |->
     IF after < s /\ s + MaxBatch > Watermark(row) THEN row[s] ELSE NotHeld]

\* events_since: the contiguous run after a mark, at most MaxBatch long.
EventsSince(row, after) ==
  [s \in Seqs |->
     IF after < s /\ s <= after + MaxBatch /\ (after + 1)..s \subseteq Held(row)
     THEN row[s] ELSE NotHeld]

\* Mutant of ApplyEvents: the version that came last wins.
OverwriteEvents(row, events) ==
  [s \in Seqs |-> IF events[s] = NotHeld THEN row[s] ELSE events[s]]

\* apply_event over a batch: a free number is filled, a taken one is kept.
ApplyEvents(row, events) ==
  [s \in Seqs |-> IF row[s] = NotHeld THEN events[s] ELSE row[s]]

\* ApplyOutcome::Stored for some event of the batch.
StoresSome(row, events) == Held(events) \ Held(row) # {}

\* ApplyOutcome::Conflict for some event of the batch.
ConflictsWith(row, events) ==
  \E s \in Held(row) \cap Held(events) : row[s] # events[s]
=============================================================================
