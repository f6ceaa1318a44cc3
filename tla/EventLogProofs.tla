--------------------------- MODULE EventLogProofs ---------------------------
(***************************************************************************)
(* What the operators of EventLog return, for every row and every bound.   *)
(***************************************************************************)
EXTENDS EventLog, TLAPS, WellFoundedInduction

\* Nothing is missing below a number that is held.
Contiguous(row) == \A s \in Held(row) : 1..s \subseteq Held(row)

\* Every non-empty set of naturals has a least member.
LEMMA LeastNatural ==
  ASSUME NEW S \in SUBSET Nat, S # {}
  PROVE  \E x \in S : \A y \in S : x <= y
<1>1. IsWellFoundedOn(OpToRel(<, Nat), Nat)
  BY NatLessThanWellFounded
<1>2. PICK x \in S : \A y \in S : ~ (<<y, x>> \in OpToRel(<, Nat))
  BY <1>1, WFMin
<1>3. \A y \in S : ~ (y < x)
  <2>1. SUFFICES ASSUME NEW y \in S, y < x PROVE FALSE
    OBVIOUS
  <2>2. <<y, x>> \in OpToRel(<, Nat)
    BY <2>1 DEF OpToRel
  <2>. QED
    BY <1>2, <2>2
<1>. QED
  BY <1>3

\* watermark_for is total: the mark it looks for exists in every log.
LEMMA WatermarkIsMark ==
  ASSUME NEW row \in Row
  PROVE  /\ Watermark(row) \in Marks
         /\ 1..Watermark(row) \subseteq Held(row)
         /\ Watermark(row) + 1 \notin Held(row)
<1>. DEFINE Ends == {k \in Marks : k + 1 \notin Held(row)}
<1>1. Ends \in SUBSET Nat /\ Ends # {}
  <2>1. MaxSeq \in Marks /\ MaxSeq + 1 \notin Held(row)
    BY LogBounds DEF Marks, Held, Seqs
  <2>2. \A k \in Ends : k \in Nat
    BY LogBounds DEF Marks
  <2>3. MaxSeq \in Ends
    BY <2>1
  <2>. QED
    <3>. HIDE DEF Ends
    <3>. QED
      BY <2>2, <2>3
<1>2. PICK w \in Ends : \A k \in Ends : w <= k
  BY <1>1, LeastNatural
<1>3. 1..w \subseteq Held(row)
  <2>1. SUFFICES ASSUME NEW s \in 1..w PROVE s \in Held(row)
    OBVIOUS
  <2>2. s - 1 \in Marks /\ s - 1 < w /\ (s - 1) + 1 = s
    BY <1>2, <2>1, LogBounds DEF Marks
  <2>3. s - 1 \notin Ends
    BY <1>1, <1>2, <2>2, LogBounds DEF Marks
  <2>. QED
    BY <2>2, <2>3
<1>4. \E k \in Marks : 1..k \subseteq Held(row) /\ k + 1 \notin Held(row)
  BY <1>2, <1>3
<1>. QED
  BY <1>4 DEF Watermark

\* A mark up to which everything is held is at most the watermark.
LEMMA WatermarkIsHighest ==
  ASSUME NEW row \in Row, NEW k \in Marks, 1..k \subseteq Held(row)
  PROVE  k <= Watermark(row)
<1>1. SUFFICES ASSUME Watermark(row) < k PROVE FALSE
  BY WatermarkIsMark, LogBounds DEF Marks
<1>2. Watermark(row) + 1 \in 1..k
  BY <1>1, WatermarkIsMark, LogBounds DEF Marks
<1>. QED
  BY <1>2, WatermarkIsMark

\* Of a log without holes the watermark says everything.
LEMMA ContiguousIsPrefix ==
  ASSUME NEW row \in Row, Contiguous(row)
  PROVE  Held(row) = 1..Watermark(row)
<1>1. SUFFICES ASSUME NEW s \in Held(row) PROVE s \in 1..Watermark(row)
  BY WatermarkIsMark
<1>2. s \in Marks /\ s \in 1..MaxSeq /\ 1..s \subseteq Held(row)
  BY <1>1, LogBounds DEF Held, Seqs, Marks, Contiguous
<1>3. s <= Watermark(row)
  BY <1>2, WatermarkIsHighest
<1>. QED
  BY <1>2, <1>3, WatermarkIsMark, LogBounds DEF Marks

\* A batch holds what its sender holds, and leaves no hole after the mark that
\* it was asked for.
LEMMA BatchFollowsMark ==
  ASSUME NEW row \in Row, NEW after \in Marks
  PROVE  /\ EventsSince(row, after) \in Row
         /\ Held(EventsSince(row, after)) \subseteq Held(row)
         /\ \A s \in Held(EventsSince(row, after)) :
              1..s \subseteq 1..after \cup Held(EventsSince(row, after))
<1>. DEFINE Sent(s) == /\ after < s /\ s <= after + MaxBatch
                       /\ (after + 1)..s \subseteq Held(row)
            batch == EventsSince(row, after)
<1>1. batch \in Row
  BY LogBounds DEF EventsSince, Row, NotHeld
<1>2. \A s \in Seqs : batch[s] = IF Sent(s) THEN row[s] ELSE NotHeld
  BY DEF EventsSince
<1>3. \A s \in Seqs : Sent(s) => s \in Held(row)
  BY LogBounds DEF Seqs, Marks
<1>4. Held(batch) = {s \in Seqs : Sent(s)}
  BY <1>2, <1>3 DEF Held
<1>5. ASSUME NEW s \in Held(batch), NEW t \in 1..s, t \notin 1..after
      PROVE  t \in Held(batch)
  <2>1. s \in Seqs /\ Sent(s)
    BY <1>4, <1>5
  <2>2. t \in Seqs /\ after < t /\ t <= s
    BY <1>5, <2>1, LogBounds DEF Seqs, Marks
  <2>3. Sent(t)
    BY <2>1, <2>2, LogBounds DEF Seqs, Marks
  <2>. QED
    BY <1>4, <2>2, <2>3
<1>. QED
  <2>1. Held(batch) \subseteq Held(row)
    BY <1>3, <1>4
  <2>. HIDE DEF batch
  <2>2. \A s \in Held(batch) : 1..s \subseteq 1..after \cup Held(batch)
    BY <1>5
  <2>. QED
    BY <1>1, <2>1, <2>2 DEF batch

\* Applying a batch adds what it holds and keeps what was there.
LEMMA ApplyOnlyAdds ==
  ASSUME NEW row \in Row, NEW events \in Row
  PROVE  /\ ApplyEvents(row, events) \in Row
         /\ Held(ApplyEvents(row, events)) = Held(row) \cup Held(events)
         /\ \A s \in Held(row) : ApplyEvents(row, events)[s] = row[s]
BY LogBounds DEF ApplyEvents, Row, Held, NotHeld
=============================================================================
