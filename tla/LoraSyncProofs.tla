--------------------------- MODULE LoraSyncProofs ---------------------------
(***************************************************************************)
(* Theorems about LoraSync, for any set of nodes, any reach of the radio   *)
(* and any bounds.                                                         *)
(*                                                                         *)
(* The invariant says of every frame, wherever it waits, what it said when *)
(* it was made: an event frame carries an event its author holds, and what *)
(* a request does not ask for, its sender holds.  Logs only grow, so both  *)
(* stay true however late, often or out of order the frame is heard.       *)
(***************************************************************************)
EXTENDS LoraSync, EventLogProofs, SequenceTheorems

TrueEvent == {f \in EventFrame : f.seq \in Held(log[f.source][f.source])}

TrueRequest ==
  {f \in SyncRequest : \A s \in Seqs :
     EventNeeded(s, f.watermark, f.have) \/ s \in Held(log[f.source][f.target])}

TrueFrame == TrueEvent \cup TrueRequest

\* Every queue holds true frames; an outbox holds its owner's events.
FramesAreTrue ==
  /\ air \in [Node -> [Node -> Seq(TrueFrame)]]
  /\ events \in [Node -> Seq(TrueEvent)]
  /\ requests \in [Node -> Seq(TrueRequest)]
  /\ polled \in [Node -> Seq(TrueEvent)]
  /\ outbox \in [Node -> Seq(Seqs)]
  /\ \A n \in Node : outbox[n] \in Seq(Held(log[n][n]))

\* The types of what is not a queue
RecordsHaveTypes ==
  /\ trust \in [Node -> SUBSET Node]
  /\ ticking \subseteq Node
  /\ asked \in [Node -> SUBSET Node]
  /\ served \in [Node -> [Node -> Nat]]
  /\ resting \in [Node -> SUBSET Node]
  /\ clock \in [Node -> Nat]
  /\ losses \in Nat /\ faults \in Nat

QueuesAreShort ==
  \A n \in Node : /\ Len(requests[n]) <= QueueLimit
                  /\ Len(outbox[n]) <= OutboxLimit
                  /\ Len(polled[n]) <= TickLimit

\* Nobody holds an event its author does not, and an author has no gaps.
LogsAreAuthors ==
  /\ log \in [Node -> [Node -> Row]]
  /\ \A n, o \in Node : Held(log[n][o]) \subseteq Held(log[o][o])
  /\ \A n \in Node : Contiguous(log[n][n])

RadioInv ==
  /\ FramesAreTrue
  /\ RecordsHaveTypes
  /\ QueuesAreShort
  /\ LogsAreAuthors
  /\ ReceiveOnlyIsSilent

LogsGrow == \A n, o \in Node : Held(log[n][o]) \subseteq Held(log'[n][o])

-----------------------------------------------------------------------------
(* Queues and frames *)

\* What a queue of members of S gives back and takes.
LEMMA QueueOperators ==
  ASSUME NEW S, NEW queue \in Seq(S)
  PROVE  /\ Len(queue) \in Nat
         /\ \A e \in S : Append(queue, e) \in Seq(S) /\ Len(Append(queue, e)) = Len(queue) + 1
         /\ queue # <<>> => /\ Head(queue) \in S
                            /\ Tail(queue) \in Seq(S)
                            /\ Len(Tail(queue)) = Len(queue) - 1
BY AppendProperties, HeadTailProperties, LenProperties

\* The front of a queue is a queue, and no longer than asked.
LEMMA AtMostType ==
  ASSUME NEW S, NEW queue \in Seq(S), NEW k \in Nat
  PROVE  AtMost(k, queue) \in Seq(S) /\ Len(AtMost(k, queue)) <= k
<1> DEFINE m == IF k < Len(queue) THEN k ELSE Len(queue)
<1>1. m \in Nat /\ m <= k /\ m <= Len(queue)
  BY LenProperties
<1>2. \A i \in 1..m : queue[i] \in S
  BY <1>1, LenProperties, ElementOfSeq
<1>3. AtMost(k, queue) = SubSeq(queue, 1, m)
  BY DEF AtMost
<1> HIDE DEF m
<1> QED
  BY <1>1, <1>2, <1>3, SubSeqProperties

\* The two kinds of frame are told apart.
LEMMA KindsOfFrame ==
  ASSUME NEW f \in TrueFrame
  PROVE  /\ f.kind = "EVENT" => f \in TrueEvent
         /\ f.kind # "EVENT" => f.kind = "SYNC_REQUEST" /\ f \in TrueRequest
BY DEF TrueFrame, TrueEvent, TrueRequest, EventFrame, SyncRequest

\* Sent changes what one node has on the air, and only adds the frame to it.
LEMMA SentType ==
  ASSUME NEW n \in Node, NEW S, NEW frame \in S, air \in [Node -> [Node -> Seq(S)]]
  PROVE  /\ Sent(n, frame) \in [Node -> [Node -> Seq(S)]]
         /\ \A q \in Node \ {n} : Sent(n, frame)[q] = air[q]
<1>1. \A r \in Node : Append(air[n][r], frame) \in Seq(S) /\ air[n][r] \in Seq(S)
  BY QueueOperators
<1> QED
  BY <1>1 DEF Sent

\* Logs grow, so what a frame says stays true.
LEMMA TruthStays ==
  ASSUME LogsGrow
  PROVE  TrueEvent \subseteq TrueEvent' /\ TrueRequest \subseteq TrueRequest'
<1>1. TrueEvent \subseteq TrueEvent'
  BY DEF LogsGrow, TrueEvent, EventFrame
<1>2. TrueRequest \subseteq TrueRequest'
  BY DEF LogsGrow, TrueRequest, SyncRequest
<1> QED
  BY <1>1, <1>2

\* ... and the queues remain queues of true frames.
LEMMA QueuesStay ==
  ASSUME FramesAreTrue, LogsGrow
  PROVE  /\ air \in [Node -> [Node -> Seq(TrueFrame')]]
         /\ events \in [Node -> Seq(TrueEvent')]
         /\ requests \in [Node -> Seq(TrueRequest')]
         /\ polled \in [Node -> Seq(TrueEvent')]
         /\ outbox \in [Node -> Seq(Seqs)]
         /\ \A n \in Node : outbox[n] \in Seq(Held(log'[n][n]))
<1>1. Seq(TrueEvent) \subseteq Seq(TrueEvent') /\ Seq(TrueRequest) \subseteq Seq(TrueRequest')
  BY TruthStays, SeqMonotonic
<1>2. TrueFrame \subseteq TrueFrame'
  BY TruthStays DEF TrueFrame
<1>3. Seq(TrueFrame) \subseteq Seq(TrueFrame')
  BY <1>2, SeqMonotonic
<1>4. \A n \in Node : outbox[n] \in Seq(Held(log'[n][n]))
  BY SeqMonotonic DEF FramesAreTrue, LogsGrow
<1> QED
  BY <1>1, <1>3, <1>4 DEF FramesAreTrue

\* What a request leaves out, its sender holds: build_have_bitmap and
\* event_needed mean the same by a bit.
LEMMA RequestIsTrue ==
  ASSUME NEW n \in Node, NEW o \in Node, NEW row \in Row, clock[n] \in Nat
  PROVE  /\ RequestOf(n, o, row) \in SyncRequest
         /\ \A s \in Seqs : EventNeeded(s, Watermark(row), HaveBitmap(row)) \/ s \in Held(row)
<1> DEFINE w == Watermark(row)
<1>1. w \in Marks /\ w \in Nat /\ 1..w \subseteq Held(row)
  BY WatermarkIsMark, LogBounds DEF Marks
<1>2. HaveBitmap(row) = {s - (w + 2) : s \in {h \in Held(row) : h \in (w + 2)..(w + 2 + Window - 1)}}
  BY DEF HaveBitmap
<1>3. Held(row) \subseteq Nat
  BY DEF Held, Seqs
<1> HIDE DEF w
<1>4. HaveBitmap(row) \subseteq Nat
  BY <1>1, <1>2, <1>3, LoraBounds
<1>5. RequestOf(n, o, row) \in SyncRequest
  BY <1>1, <1>4 DEF RequestOf, SyncRequest, w
<1>6. ASSUME NEW s \in Seqs, ~EventNeeded(s, w, HaveBitmap(row)) PROVE s \in Held(row)
  <2>1. s \in Nat /\ s # w + 1 /\ (s > w + 1 => s - (w + 2) \in HaveBitmap(row))
    BY <1>1, <1>6 DEF EventNeeded, Seqs
  <2>2. CASE s > w + 1
    <3>1. PICK h \in Held(row) : s - (w + 2) = h - (w + 2)
      BY <1>2, <2>1, <2>2
    <3>2. s = h
      BY <1>1, <1>3, <2>1, <3>1
    <3> QED
      BY <3>1, <3>2
  <2>3. CASE s <= w
    BY <1>1, <2>1, <2>3 DEF Seqs
  <2> QED
    BY <1>1, <2>1, <2>2, <2>3
<1> QED
  BY <1>5, <1>6 DEF w

-----------------------------------------------------------------------------
(* Steps that write nothing to a log *)

\* While no log changes, the true frames are the same.
LEMMA SameLogs ==
  ASSUME UNCHANGED log, LogsAreAuthors,
         air' \in [Node -> [Node -> Seq(TrueFrame)]],
         events' \in [Node -> Seq(TrueEvent)],
         requests' \in [Node -> Seq(TrueRequest)],
         polled' \in [Node -> Seq(TrueEvent)],
         outbox' \in [Node -> Seq(Seqs)],
         \A n \in Node : outbox'[n] \in Seq(Held(log[n][n]))
  PROVE  FramesAreTrue' /\ LogsAreAuthors'
<1>1. TrueEvent' = TrueEvent /\ TrueRequest' = TrueRequest
  BY DEF TrueEvent, TrueRequest
<1>2. TrueFrame' = TrueFrame
  BY <1>1 DEF TrueFrame
<1>3. FramesAreTrue'
  BY <1>1, <1>2 DEF FramesAreTrue
<1>4. LogsAreAuthors'
  BY DEF LogsAreAuthors, Contiguous
<1> QED
  BY <1>3, <1>4

\* Who was not opted in stays silent while others send and are heard.
LEMMA SilenceStays ==
  ASSUME ReceiveOnlyIsSilent, NEW n \in Transmits, \A q \in Node \ {n} : air'[q] = air[q]
  PROVE  ReceiveOnlyIsSilent'
BY DEF ReceiveOnlyIsSilent

\* An empty system satisfies the invariant.
LEMMA RadioStarts == Init => RadioInv
<1> SUFFICES ASSUME Init PROVE RadioInv
  OBVIOUS
<1>1. \A S : <<>> \in Seq(S) /\ Len(<<>>) = 0
  BY EmptySeq
<1>2. FramesAreTrue /\ QueuesAreShort /\ RecordsHaveTypes
  BY <1>1, LoraBounds DEF Init, FramesAreTrue, QueuesAreShort, RecordsHaveTypes
<1>3. EmptyRow \in Row /\ Held(EmptyRow) = {}
  BY DEF EmptyRow, Row, Held
<1>4. LogsAreAuthors
  BY <1>3 DEF Init, LogsAreAuthors, Contiguous
<1>5. ReceiveOnlyIsSilent
  BY DEF Init, ReceiveOnlyIsSilent
<1> QED
  BY <1>2, <1>4, <1>5 DEF RadioInv

\* A frame is heard, and queued by its kind while there is room.
LEMMA HearHolds ==
  ASSUME RadioInv, NEW n \in Node, NEW r \in Node, Hear(n, r)
  PROVE  RadioInv'
<1> USE DEF RadioInv, FramesAreTrue
<1> DEFINE f == Head(air[n][r])
<1>1. /\ air[n][r] \in Seq(TrueFrame) /\ air[n][r] # <<>>
      /\ air' = [air EXCEPT ![n][r] = Tail(@)]
      /\ Admitted(r, f)
      /\ UNCHANGED <<log, trust, ticking, polled, asked, clock, outbox, served, resting,
                     losses, faults>>
  BY DEF Hear, stored, tick, asking, answering
<1>2. f \in TrueFrame /\ Tail(air[n][r]) \in Seq(TrueFrame)
  BY <1>1, QueueOperators
<1> HIDE DEF f
<1>3. air' \in [Node -> [Node -> Seq(TrueFrame)]]
  BY <1>1, <1>2
<1>4. /\ events' \in [Node -> Seq(TrueEvent)]
      /\ requests' \in [Node -> Seq(TrueRequest)]
      /\ \A q \in Node : Len(requests'[q]) <= QueueLimit
  <2>1. CASE f.kind = "EVENT" /\ events' = [events EXCEPT ![r] = Append(@, f)]
             /\ UNCHANGED requests
    <3>1. Append(events[r], f) \in Seq(TrueEvent)
      BY <1>2, <2>1, KindsOfFrame, QueueOperators
    <3> QED
      BY <2>1, <3>1 DEF QueuesAreShort
  <2>2. CASE f.kind = "SYNC_REQUEST" /\ Len(requests[r]) < QueueLimit
             /\ requests' = [requests EXCEPT ![r] = Append(@, f)] /\ UNCHANGED events
    <3>1. /\ Append(requests[r], f) \in Seq(TrueRequest)
          /\ Len(Append(requests[r], f)) = Len(requests[r]) + 1
          /\ Len(requests[r]) \in Nat
      BY <1>2, <2>2, KindsOfFrame, QueueOperators
    <3>2. Len(Append(requests[r], f)) <= QueueLimit
      BY <2>2, <3>1, LoraBounds
    <3> QED
      BY <2>2, <3>1, <3>2 DEF QueuesAreShort
  <2>3. CASE UNCHANGED inbox
    BY <2>3 DEF inbox, QueuesAreShort
  <2> QED
    BY <1>1, <2>1, <2>2, <2>3 DEF Admitted
<1>5. FramesAreTrue' /\ LogsAreAuthors'
  BY <1>1, <1>3, <1>4, SameLogs
<1>6. RecordsHaveTypes' /\ QueuesAreShort'
  BY <1>1, <1>4 DEF RecordsHaveTypes, QueuesAreShort
<1>7. ReceiveOnlyIsSilent'
  <2>1. n \in Transmits
    BY <1>1 DEF ReceiveOnlyIsSilent
  <2>2. \A q \in Node \ {n} : air'[q] = air[q]
    BY <1>1 DEF FramesAreTrue
  <2> QED
    BY <2>1, <2>2, SilenceStays
<1> QED
  BY <1>5, <1>6, <1>7

\* A frame is lost or repeated.
LEMMA FaultHolds ==
  ASSUME RadioInv, NEW n \in Node, NEW r \in Node, LoseFrame(n, r) \/ RepeatFrame(n, r)
  PROVE  RadioInv'
<1> USE DEF RadioInv
<1>1. /\ air[n][r] \in Seq(TrueFrame) /\ air[n][r] # <<>>
      /\ \/ air' = [air EXCEPT ![n][r] = Tail(@)]
         \/ air' = [air EXCEPT ![n][r] = Append(@, Head(@))]
      /\ UNCHANGED <<log, trust, events, requests, ticking, polled, asked, clock, outbox,
                     served, resting>>
  <2>1. air[n][r] \in Seq(TrueFrame)
    BY DEF FramesAreTrue
  <2>2. CASE LoseFrame(n, r)
    BY <2>1, <2>2 DEF LoseFrame, stored, inbox, tick, asking, answering
  <2>3. CASE RepeatFrame(n, r)
    BY <2>1, <2>3 DEF RepeatFrame, stored, inbox, tick, asking, answering
  <2> QED
    BY <2>2, <2>3
<1>2. losses' \in {losses, losses + 1} /\ faults' \in {faults, faults + 1}
  BY Zenon DEF LoseFrame, RepeatFrame
<1>3. /\ Tail(air[n][r]) \in Seq(TrueFrame)
      /\ Append(air[n][r], Head(air[n][r])) \in Seq(TrueFrame)
  BY <1>1, QueueOperators
<1>4. air' \in [Node -> [Node -> Seq(TrueFrame)]]
  <2>1. CASE air' = [air EXCEPT ![n][r] = Tail(@)]
    BY <1>3, <2>1 DEF FramesAreTrue
  <2>2. CASE air' = [air EXCEPT ![n][r] = Append(@, Head(@))]
    <3> DEFINE again == Append(air[n][r], Head(air[n][r]))
    <3>1. again \in Seq(TrueFrame) /\ air' = [air EXCEPT ![n][r] = again]
      BY <1>3, <2>2
    <3> HIDE DEF again
    <3> QED
      BY <3>1 DEF FramesAreTrue
  <2> QED
    BY <1>1, <2>1, <2>2
<1>5. FramesAreTrue' /\ LogsAreAuthors'
  BY <1>1, <1>4, SameLogs DEF FramesAreTrue
<1>6. RecordsHaveTypes' /\ QueuesAreShort'
  <2>1. losses' \in Nat /\ faults' \in Nat
    BY <1>2 DEF RecordsHaveTypes
  <2>2. RecordsHaveTypes'
    BY <1>1, <2>1 DEF RecordsHaveTypes
  <2>3. QueuesAreShort'
    BY <1>1 DEF QueuesAreShort
  <2> QED
    BY <2>2, <2>3
<1>7. ReceiveOnlyIsSilent'
  <2>1. n \in Transmits
    BY <1>1 DEF ReceiveOnlyIsSilent
  <2>2. \A q \in Node \ {n} : air'[q] = air[q]
    BY <1>1 DEF FramesAreTrue
  <2> QED
    BY <2>1, <2>2, SilenceStays
<1> QED
  BY <1>5, <1>6, <1>7

\* Decisions and the end of a cooldown touch no queue.
LEMMA QuietHolds ==
  ASSUME RadioInv, UNCHANGED <<log, air, inbox, tick, outbox>>, RecordsHaveTypes'
  PROVE  RadioInv'
<1>1. UNCHANGED <<air, events, requests, polled, outbox>>
  BY DEF inbox, tick
<1>2. FramesAreTrue' /\ LogsAreAuthors'
  BY <1>1, SameLogs DEF RadioInv, FramesAreTrue
<1>3. QueuesAreShort' /\ ReceiveOnlyIsSilent'
  BY <1>1 DEF RadioInv, QueuesAreShort, ReceiveOnlyIsSilent
<1> QED
  BY <1>2, <1>3 DEF RadioInv

\* A restart empties every queue of the node.
LEMMA RestartHolds ==
  ASSUME RadioInv, NEW n \in Node, Restart(n)
  PROVE  RadioInv'
<1> USE DEF RadioInv
<1>1. \A S : <<>> \in Seq(S) /\ Len(<<>>) = 0
  BY EmptySeq
<1>2. /\ UNCHANGED <<log, trust, air, losses, clock>> /\ faults' = faults + 1
      /\ events' = [events EXCEPT ![n] = <<>>]
      /\ requests' = [requests EXCEPT ![n] = <<>>]
      /\ ticking' = ticking \ {n}
      /\ polled' = [polled EXCEPT ![n] = <<>>]
      /\ outbox' = [outbox EXCEPT ![n] = <<>>]
      /\ asked' = [asked EXCEPT ![n] = {}]
      /\ served' = [served EXCEPT ![n] = [r \in Node |-> 0]]
      /\ resting' = [resting EXCEPT ![n] = {}]
  BY DEF Restart, stored
<1>3. FramesAreTrue' /\ LogsAreAuthors'
  <2>1. /\ events' \in [Node -> Seq(TrueEvent)]
        /\ requests' \in [Node -> Seq(TrueRequest)]
        /\ polled' \in [Node -> Seq(TrueEvent)]
        /\ outbox' \in [Node -> Seq(Seqs)]
        /\ \A q \in Node : outbox'[q] \in Seq(Held(log[q][q]))
    BY <1>1, <1>2 DEF FramesAreTrue
  <2> QED
    BY <1>2, <2>1, SameLogs DEF FramesAreTrue
<1>4. RecordsHaveTypes'
  BY <1>2 DEF RecordsHaveTypes
<1>5. QueuesAreShort'
  BY <1>1, <1>2, LoraBounds DEF QueuesAreShort, FramesAreTrue
<1>6. ReceiveOnlyIsSilent'
  BY <1>2 DEF ReceiveOnlyIsSilent
<1> QED
  BY <1>3, <1>4, <1>5, <1>6

\* A tick takes what it may of the event inbox and empties it.
LEMMA BeginTickHolds ==
  ASSUME RadioInv, NEW n \in Node, BeginTick(n)
  PROVE  RadioInv'
<1> USE DEF RadioInv
<1>1. /\ UNCHANGED <<log, trust, air, losses, faults, requests, asked, clock, outbox, served,
                     resting>>
      /\ ticking' = ticking \cup {n}
      /\ polled' = [polled EXCEPT ![n] = AtMost(TickLimit, events[n])]
      /\ events' = [events EXCEPT ![n] = <<>>]
  BY DEF BeginTick, stored, radio, asking, answering
<1>2. /\ AtMost(TickLimit, events[n]) \in Seq(TrueEvent)
      /\ Len(AtMost(TickLimit, events[n])) <= TickLimit
  BY AtMostType, LoraBounds DEF FramesAreTrue
<1>3. <<>> \in Seq(TrueEvent)
  BY EmptySeq
<1>4. events' \in [Node -> Seq(TrueEvent)] /\ polled' \in [Node -> Seq(TrueEvent)]
  BY <1>1, <1>2, <1>3 DEF FramesAreTrue
<1>5. FramesAreTrue' /\ LogsAreAuthors'
  BY <1>1, <1>4, SameLogs DEF FramesAreTrue
<1>6. RecordsHaveTypes'
  BY <1>1 DEF RecordsHaveTypes
<1>7. QueuesAreShort'
  BY <1>1, <1>2 DEF QueuesAreShort, FramesAreTrue
<1>8. ReceiveOnlyIsSilent'
  BY <1>1 DEF ReceiveOnlyIsSilent
<1> QED
  BY <1>5, <1>6, <1>7, <1>8

\* The front of a queue of its own events goes on the air.
LEMMA SendFrontHolds ==
  ASSUME RadioInv, NEW n \in Node, NEW queue \in Seq(Held(log[n][n])),
         Len(queue) <= OutboxLimit, SendFront(n, queue)
  PROVE  /\ air' \in [Node -> [Node -> Seq(TrueFrame)]]
         /\ \A q \in Node \ {n} : air'[q] = air[q]
         /\ outbox' \in [Node -> Seq(Seqs)]
         /\ \A q \in Node : outbox'[q] \in Seq(Held(log[q][q]))
         /\ \A q \in Node : Len(outbox'[q]) <= OutboxLimit
<1> DEFINE rest == IF queue = <<>> THEN queue ELSE Tail(queue)
<1>1. rest \in Seq(Held(log[n][n])) /\ Len(rest) <= OutboxLimit
  <2>1. CASE queue = <<>>
    BY <2>1
  <2>2. CASE queue # <<>>
    BY <2>2, QueueOperators, LoraBounds
  <2> QED
    BY <2>1, <2>2
<1>2. rest \in Seq(Seqs)
  BY <1>1, SeqMonotonic DEF Held
<1>3. outbox' = [outbox EXCEPT ![n] = rest]
  BY DEF SendFront
<1> HIDE DEF rest
<1>4. /\ outbox' \in [Node -> Seq(Seqs)]
      /\ \A q \in Node : outbox'[q] \in Seq(Held(log[q][q]))
      /\ \A q \in Node : Len(outbox'[q]) <= OutboxLimit
  BY <1>1, <1>2, <1>3 DEF RadioInv, FramesAreTrue, QueuesAreShort
<1>5. CASE queue = <<>>
  BY <1>4, <1>5 DEF SendFront, RadioInv, FramesAreTrue
<1>6. CASE queue # <<>>
  <2>1. Head(queue) \in Held(log[n][n])
    BY <1>6, QueueOperators
  <2>2. EventOf(n, Head(queue)) \in TrueFrame
    BY <2>1 DEF EventOf, TrueFrame, TrueEvent, EventFrame, Held
  <2>3. air' = Sent(n, EventOf(n, Head(queue)))
    BY <1>6 DEF SendFront
  <2>4. air \in [Node -> [Node -> Seq(TrueFrame)]]
    BY DEF RadioInv, FramesAreTrue
  <2>5. /\ air' \in [Node -> [Node -> Seq(TrueFrame)]]
        /\ \A q \in Node \ {n} : air'[q] = air[q]
    BY <2>2, <2>3, <2>4, SentType
  <2> QED
    BY <1>4, <2>5
<1> QED
  BY <1>5, <1>6

\* An answer is events of the node's own log.
LEMMA AnswerIsOwn ==
  ASSUME LogsAreAuthors, NEW n \in Node, NEW request \in SyncRequest,
         NEW answer \in BoundedSeq(Wanted(n, request), MaxAnswer)
  PROVE  answer \in Seq(Held(log[n][n]))
<1>1. request.watermark \in Marks /\ log[n][n] \in Row
  BY DEF SyncRequest, LogsAreAuthors
<1>2. Wanted(n, request) \subseteq Held(log[n][n])
  BY <1>1, BatchFollowsMark DEF Wanted
<1>3. answer \in Seq(Wanted(n, request))
  BY SeqDef, LoraBounds DEF BoundedSeq, SeqOf
<1> QED
  BY <1>2, <1>3, SeqMonotonic

\* A tick that ends answers one request, or none, and sends one frame.
LEMMA FinishTickHolds ==
  ASSUME RadioInv, NEW n \in Node, FinishTick(n)
  PROVE  RadioInv'
<1> USE DEF RadioInv
<1>1. /\ UNCHANGED <<log, trust, losses, faults, events, polled, asked, clock>>
      /\ ticking' = ticking \ {n}
  BY DEF FinishTick, stored, asking
<1>2. /\ air' \in [Node -> [Node -> Seq(TrueFrame)]]
      /\ outbox' \in [Node -> Seq(Seqs)]
      /\ \A q \in Node : outbox'[q] \in Seq(Held(log[q][q]))
      /\ \A q \in Node : Len(outbox'[q]) <= OutboxLimit
      /\ requests' \in [Node -> Seq(TrueRequest)]
      /\ \A q \in Node : Len(requests'[q]) <= QueueLimit
      /\ served' \in [Node -> [Node -> Nat]]
      /\ resting' \in [Node -> SUBSET Node]
      /\ ReceiveOnlyIsSilent'
  <2>1. CASE UNCHANGED <<air, requests, answering>>
    BY <2>1 DEF answering, FramesAreTrue, QueuesAreShort, RecordsHaveTypes, ReceiveOnlyIsSilent
  <2>2. CASE n \in Transmits /\ (NoAnswer(n) \/ Respond(n))
    <3>1. requests[n] \in Seq(TrueRequest) /\ requests \in [Node -> Seq(TrueRequest)]
      BY DEF FramesAreTrue
    <3>2. requests[n] # <<>> =>
            /\ Head(requests[n]) \in TrueRequest
            /\ Tail(requests[n]) \in Seq(TrueRequest)
            /\ Len(Tail(requests[n])) <= QueueLimit
      BY <3>1, QueueOperators, LoraBounds DEF QueuesAreShort
    <3>3. requests' = [requests EXCEPT ![n] = IF @ = <<>> THEN @ ELSE Tail(@)]
      BY <2>2 DEF NoAnswer, Respond
    <3>4. /\ requests' \in [Node -> Seq(TrueRequest)]
          /\ \A q \in Node : Len(requests'[q]) <= QueueLimit
      BY <3>1, <3>2, <3>3 DEF QueuesAreShort
    <3>5. served' \in [Node -> [Node -> Nat]] /\ resting' \in [Node -> SUBSET Node]
      <4>1. CASE NoAnswer(n)
        BY <4>1 DEF NoAnswer, RecordsHaveTypes
      <4>2. CASE Respond(n)
        <5> DEFINE request == Head(requests[n])
        <5>1. request.source \in Node /\ request.ts \in Nat
          BY <3>2, <4>2 DEF Respond, TrueRequest, SyncRequest
        <5>2. /\ served' = [served EXCEPT ![n][request.source] = request.ts]
              /\ resting' = [resting EXCEPT ![n] = @ \cup {request.source}]
          BY <4>2 DEF Respond
        <5> HIDE DEF request
        <5> QED
          BY <5>1, <5>2 DEF RecordsHaveTypes
      <4> QED
        BY <2>2, <4>1, <4>2
    <3>6. PICK queue \in Seq(Held(log[n][n])) :
            Len(queue) <= OutboxLimit /\ SendFront(n, queue)
      <4>1. outbox[n] \in Seq(Held(log[n][n])) /\ Len(outbox[n]) <= OutboxLimit
        BY DEF FramesAreTrue, QueuesAreShort
      <4>2. CASE NoAnswer(n)
        BY <4>1, <4>2 DEF NoAnswer
      <4>3. CASE Respond(n)
        <5>1. Head(requests[n]) \in SyncRequest
          BY <3>2, <4>3 DEF Respond, TrueRequest
        <5>2. PICK answer \in BoundedSeq(Wanted(n, Head(requests[n])), MaxAnswer) :
                SendFront(n, Queued(n, answer))
          BY <4>3 DEF Respond
        <5>3. answer \in Seq(Held(log[n][n]))
          BY <5>1, AnswerIsOwn
        <5>4. outbox[n] \o answer \in Seq(Held(log[n][n]))
          BY <4>1, <5>3, ConcatProperties
        <5>5. /\ Queued(n, answer) \in Seq(Held(log[n][n]))
              /\ Len(Queued(n, answer)) <= OutboxLimit
          BY <5>4, AtMostType, LoraBounds DEF Queued
        <5> QED
          BY <5>2, <5>5
      <4> QED
        BY <2>2, <4>2, <4>3
    <3>7. /\ air' \in [Node -> [Node -> Seq(TrueFrame)]]
          /\ \A q \in Node \ {n} : air'[q] = air[q]
          /\ outbox' \in [Node -> Seq(Seqs)]
          /\ \A q \in Node : outbox'[q] \in Seq(Held(log[q][q]))
          /\ \A q \in Node : Len(outbox'[q]) <= OutboxLimit
      BY <3>6, SendFrontHolds
    <3>8. ReceiveOnlyIsSilent'
      BY <2>2, <3>7, SilenceStays
    <3> QED
      BY <3>4, <3>5, <3>7, <3>8
  <2> QED
    BY <2>1, <2>2 DEF FinishTick
<1>3. FramesAreTrue' /\ LogsAreAuthors'
  BY <1>1, <1>2, SameLogs DEF FramesAreTrue
<1>4. RecordsHaveTypes'
  BY <1>1, <1>2 DEF RecordsHaveTypes
<1>5. QueuesAreShort'
  BY <1>1, <1>2 DEF QueuesAreShort
<1> QED
  BY <1>2, <1>3, <1>4, <1>5

-----------------------------------------------------------------------------
(* Steps that write a log *)

\* An event fills one number of a row.
LEMMA RowFilled ==
  ASSUME NEW row \in Row, NEW s \in Seqs
  PROVE  /\ [row EXCEPT ![s] = MaxIncarnation] \in Row
         /\ Held([row EXCEPT ![s] = MaxIncarnation]) = Held(row) \cup {s}
BY LogBounds, OneDatabase DEF Row, Held, Versions, NotHeld

\* A log grows at one place, by what its author holds or writes.
LEMMA OneRowGrows ==
  ASSUME LogsAreAuthors, NEW n \in Node, NEW o \in Node, NEW row \in Row,
         log' = [log EXCEPT ![n][o] = row],
         Held(log[n][o]) \subseteq Held(row),
         o = n => Contiguous(row),
         o # n => Held(row) \subseteq Held(log[o][o])
  PROVE  LogsGrow /\ LogsAreAuthors' /\ log'[n][o] = row
<1>1. /\ log'[n][o] = row
      /\ \A q, r \in Node : ~(q = n /\ r = o) => log'[q][r] = log[q][r]
      /\ log' \in [Node -> [Node -> Row]]
  BY DEF LogsAreAuthors
<1>2. LogsGrow
  BY <1>1 DEF LogsGrow
<1>3. \A q, r \in Node : Held(log'[q][r]) \subseteq Held(log'[r][r])
  <2> SUFFICES ASSUME NEW q \in Node, NEW r \in Node, q # r
               PROVE  Held(log'[q][r]) \subseteq Held(log'[r][r])
    OBVIOUS
  <2>1. Held(log[r][r]) \subseteq Held(log'[r][r])
    BY <1>2 DEF LogsGrow
  <2>2. Held(log'[q][r]) \subseteq Held(log[r][r])
    BY <1>1 DEF LogsAreAuthors
  <2> QED
    BY <2>1, <2>2
<1>4. \A q \in Node : Contiguous(log'[q][q])
  BY <1>1 DEF LogsAreAuthors
<1> QED
  BY <1>1, <1>2, <1>3, <1>4 DEF LogsAreAuthors

\* The author's next event leaves no gap.
LEMMA NextIsContiguous ==
  ASSUME NEW row \in Row, Contiguous(row), NEW s \in Seqs, IsNextSequence(row, s)
  PROVE  Contiguous([row EXCEPT ![s] = MaxIncarnation])
<1>1. Held([row EXCEPT ![s] = MaxIncarnation]) = Held(row) \cup {s}
  BY RowFilled
<1>2. 1..s \subseteq Held(row) \cup {s}
  <2>1. CASE s = 1
    BY <2>1
  <2>2. CASE s - 1 \in Held(row)
    <3>1. 1..(s - 1) \subseteq Held(row)
      BY <2>2 DEF Contiguous
    <3>2. 1..s = (1..(s - 1)) \cup {s}
      BY DEF Seqs
    <3> QED
      BY <3>1, <3>2
  <2> QED
    BY <2>1, <2>2 DEF IsNextSequence
<1> QED
  BY <1>1, <1>2 DEF Contiguous

\* A local event goes into the author's log, and on the air if it may.
LEMMA WriteEventHolds ==
  ASSUME RadioInv, NEW n \in Node, WriteEvent(n)
  PROVE  RadioInv'
<1> USE DEF RadioInv
<1>1. PICK s \in Seqs :
        /\ IsNextSequence(log[n][n], s)
        /\ log' = [log EXCEPT ![n][n][s] = MaxIncarnation]
        /\ air' = IF MayTransmit(n, s) THEN Sent(n, EventOf(n, s)) ELSE air
  BY DEF WriteEvent
<1>2. UNCHANGED <<trust, losses, faults, events, requests, ticking, polled, asked, clock, outbox,
                  served, resting>>
  BY DEF WriteEvent, inbox, tick, asking, answering
<1> DEFINE row == [log[n][n] EXCEPT ![s] = MaxIncarnation]
<1>3. log[n][n] \in Row /\ Contiguous(log[n][n])
  BY DEF LogsAreAuthors
<1>4. row \in Row /\ Held(row) = Held(log[n][n]) \cup {s} /\ Contiguous(row)
  BY <1>1, <1>3, RowFilled, NextIsContiguous
<1>5. log' = [log EXCEPT ![n][n] = row]
  BY <1>1 DEF LogsAreAuthors
<1> HIDE DEF row
<1>6. LogsGrow /\ LogsAreAuthors' /\ log'[n][n] = row
  <2>1. row \in Row /\ Held(log[n][n]) \subseteq Held(row) /\ Contiguous(row)
    BY <1>4
  <2>2. LogsAreAuthors
    OBVIOUS
  <2> QED
    BY <1>5, <2>1, <2>2, OneRowGrows
<1>7. /\ air \in [Node -> [Node -> Seq(TrueFrame')]]
      /\ events \in [Node -> Seq(TrueEvent')]
      /\ requests \in [Node -> Seq(TrueRequest')]
      /\ polled \in [Node -> Seq(TrueEvent')]
      /\ outbox \in [Node -> Seq(Seqs)]
      /\ \A q \in Node : outbox[q] \in Seq(Held(log'[q][q]))
  BY <1>6, QueuesStay
<1>8. air' \in [Node -> [Node -> Seq(TrueFrame')]] /\ ReceiveOnlyIsSilent'
  <2>1. CASE MayTransmit(n, s)
    <3>1. EventOf(n, s) \in TrueFrame'
      BY <1>4, <1>6 DEF EventOf, TrueFrame, TrueEvent, EventFrame
    <3>2. air' = Sent(n, EventOf(n, s)) /\ n \in Transmits
      BY <1>1, <2>1 DEF MayTransmit
    <3>3. /\ air' \in [Node -> [Node -> Seq(TrueFrame')]]
          /\ \A q \in Node \ {n} : air'[q] = air[q]
      BY <1>7, <3>1, <3>2, SentType
    <3> QED
      BY <3>2, <3>3, SilenceStays
  <2>2. CASE ~MayTransmit(n, s)
    BY <1>1, <1>7, <2>2 DEF ReceiveOnlyIsSilent
  <2> QED
    BY <2>1, <2>2
<1>9. FramesAreTrue'
  BY <1>2, <1>7, <1>8 DEF FramesAreTrue
<1>10. RecordsHaveTypes' /\ QueuesAreShort'
  BY <1>2 DEF RecordsHaveTypes, QueuesAreShort
<1> QED
  BY <1>6, <1>8, <1>9, <1>10

\* A request says of the log it was made from what is true.
LEMMA RequestGoesOut ==
  ASSUME NEW n \in Node, NEW o \in Node, NEW row \in Row, NEW s,
         RecordsHaveTypes, ReceiveOnlyIsSilent, Ask(n, o, row, s), log'[n][o] = row,
         air \in [Node -> [Node -> Seq(TrueFrame')]]
  PROVE  /\ air' \in [Node -> [Node -> Seq(TrueFrame')]]
         /\ asked' \in [Node -> SUBSET Node] /\ clock' \in [Node -> Nat]
         /\ ReceiveOnlyIsSilent'
<1>1. CASE RevealsGap(row, s) /\ MayAsk(n, o)
  <2>1. /\ air' = Sent(n, RequestOf(n, o, row)) /\ n \in Transmits
        /\ asked' = [asked EXCEPT ![n] = @ \cup {o}]
        /\ clock' = [clock EXCEPT ![n] = @ + 1]
    BY <1>1 DEF Ask, MayAsk
  <2>2. /\ RequestOf(n, o, row) \in SyncRequest
        /\ \A t \in Seqs : EventNeeded(t, Watermark(row), HaveBitmap(row)) \/ t \in Held(row)
    BY RequestIsTrue DEF RecordsHaveTypes
  <2>3. /\ RequestOf(n, o, row).source = n /\ RequestOf(n, o, row).target = o
        /\ RequestOf(n, o, row).watermark = Watermark(row)
        /\ RequestOf(n, o, row).have = HaveBitmap(row)
    BY DEF RequestOf
  <2>4. RequestOf(n, o, row) \in TrueFrame'
    BY <2>2, <2>3 DEF TrueFrame, TrueRequest
  <2>5. /\ air' \in [Node -> [Node -> Seq(TrueFrame')]]
        /\ \A q \in Node \ {n} : air'[q] = air[q]
    <3>1. \A r \in Node : /\ air[n][r] \in Seq(TrueFrame')
                          /\ Append(air[n][r], RequestOf(n, o, row)) \in Seq(TrueFrame')
      BY <2>4, QueueOperators
    <3> QED
      BY <2>1, <3>1 DEF Sent
  <2>6. ReceiveOnlyIsSilent'
    BY <2>1, <2>5, SilenceStays
  <2>7. asked' \in [Node -> SUBSET Node] /\ clock' \in [Node -> Nat]
    BY <2>1 DEF RecordsHaveTypes
  <2> QED
    BY <2>5, <2>6, <2>7
<1>2. CASE ~(RevealsGap(row, s) /\ MayAsk(n, o))
  BY <1>2 DEF Ask, RecordsHaveTypes, ReceiveOnlyIsSilent
<1> QED
  BY <1>1, <1>2

\* An event heard goes into the log whatever is missing below it; what the node
\* then asks for, and what it does not, is told by the log it has by then.
LEMMA IngestHolds ==
  ASSUME RadioInv, NEW n \in Node, Ingest(n)
  PROVE  RadioInv'
<1> USE DEF RadioInv
<1> DEFINE f == Head(polled[n])
           o == f.source
           row == [log[n][o] EXCEPT ![f.seq] = MaxIncarnation]
<1>1. /\ polled[n] # <<>>
      /\ polled' = [polled EXCEPT ![n] = Tail(@)]
      /\ UNCHANGED <<trust, losses, faults, events, requests, ticking, outbox, served, resting>>
  BY DEF Ingest, inbox, answering
<1>2. /\ polled[n] \in Seq(TrueEvent) /\ f \in TrueEvent
      /\ Len(Tail(polled[n])) = Len(polled[n]) - 1
      /\ Len(polled[n]) \in Nat
  BY <1>1, QueueOperators DEF FramesAreTrue
<1>3. o \in Node /\ f.seq \in Seqs /\ f.seq \in Held(log[o][o])
  BY <1>2 DEF TrueEvent, EventFrame
<1>4. \/ UNCHANGED <<log, air, asked, clock>>
      \/ /\ Authorized(n, o)
         /\ log' = [log EXCEPT ![n][o] = row]
         /\ Ask(n, o, row, f.seq)
  BY DEF Ingest, asking
<1>5. \A S : polled[n] \in Seq(S) => Tail(polled[n]) \in Seq(S)
  BY <1>1, QueueOperators
<1>6. QueuesAreShort'
  <2>1. Len(Tail(polled[n])) <= TickLimit
    BY <1>2, LoraBounds DEF QueuesAreShort
  <2> QED
    BY <1>1, <2>1 DEF QueuesAreShort, FramesAreTrue
<1>7. CASE UNCHANGED <<log, air, asked, clock>>
  <2>1. polled' \in [Node -> Seq(TrueEvent)]
    BY <1>1, <1>2, <1>5 DEF FramesAreTrue
  <2>2. FramesAreTrue' /\ LogsAreAuthors'
    BY <1>1, <1>7, <2>1, SameLogs DEF FramesAreTrue
  <2>3. RecordsHaveTypes' /\ ReceiveOnlyIsSilent'
    BY <1>1, <1>7 DEF RecordsHaveTypes, ReceiveOnlyIsSilent
  <2> QED
    BY <1>6, <2>2, <2>3
<1>8. CASE Authorized(n, o) /\ log' = [log EXCEPT ![n][o] = row] /\ Ask(n, o, row, f.seq)
  <2>1. o # n /\ log[n][o] \in Row /\ clock[n] \in Nat
    BY <1>3, <1>8 DEF Authorized, LogsAreAuthors, RecordsHaveTypes
  <2>2. row \in Row /\ Held(row) = Held(log[n][o]) \cup {f.seq}
    BY <1>3, <2>1, RowFilled
  <2> HIDE DEF f, row
  <2> HIDE DEF o
  <2>3. Held(row) \subseteq Held(log[o][o])
    BY <1>3, <2>2 DEF LogsAreAuthors
  <2>4. LogsGrow /\ LogsAreAuthors' /\ log'[n][o] = row
    BY <1>3, <1>8, <2>1, <2>2, <2>3, OneRowGrows
  <2>5. /\ air \in [Node -> [Node -> Seq(TrueFrame')]]
        /\ events \in [Node -> Seq(TrueEvent')]
        /\ requests \in [Node -> Seq(TrueRequest')]
        /\ polled \in [Node -> Seq(TrueEvent')]
        /\ outbox \in [Node -> Seq(Seqs)]
        /\ \A q \in Node : outbox[q] \in Seq(Held(log'[q][q]))
    BY <2>4, QueuesStay
  <2>6. polled' \in [Node -> Seq(TrueEvent')]
    BY <1>1, <1>5, <2>5
  <2>7. /\ air' \in [Node -> [Node -> Seq(TrueFrame')]]
        /\ asked' \in [Node -> SUBSET Node] /\ clock' \in [Node -> Nat]
        /\ ReceiveOnlyIsSilent'
    BY <1>3, <1>8, <2>2, <2>4, <2>5, RequestGoesOut
  <2>8. FramesAreTrue'
    BY <1>1, <2>5, <2>6, <2>7 DEF FramesAreTrue
  <2>9. RecordsHaveTypes'
    BY <1>1, <2>7 DEF RecordsHaveTypes
  <2> QED
    BY <1>6, <2>4, <2>7, <2>8, <2>9
<1> QED
  BY <1>4, <1>7, <1>8

-----------------------------------------------------------------------------

\* Every step keeps the invariant.
LEMMA RadioStays == RadioInv /\ [Next]_vars => RadioInv'
<1> SUFFICES ASSUME RadioInv, [Next]_vars PROVE RadioInv'
  OBVIOUS
<1>1. ASSUME NEW n \in Node, NEW p \in Node, Decide(n, p) PROVE RadioInv'
  <2>1. trust' \in [Node -> SUBSET Node] /\ faults' \in Nat
    BY <1>1 DEF Decide, RadioInv, RecordsHaveTypes
  <2>2. RecordsHaveTypes'
    BY <1>1, <2>1 DEF Decide, RadioInv, RecordsHaveTypes, tick, asking, answering
  <2> QED
    BY <1>1, <2>2, QuietHolds DEF Decide, answering
<1>2. ASSUME NEW n \in Node, NEW o \in Node, CooldownEnds(n, o) PROVE RadioInv'
  <2>1. RecordsHaveTypes'
    BY <1>2 DEF CooldownEnds, RadioInv, RecordsHaveTypes, stored, radio, tick, answering
  <2> QED
    BY <1>2, <2>1, QuietHolds DEF CooldownEnds, stored, radio, answering
<1>3. ASSUME NEW n \in Node, NEW r \in Node, RateLimitEnds(n, r) PROVE RadioInv'
  <2>1. RecordsHaveTypes'
    BY <1>3 DEF RateLimitEnds, RadioInv, RecordsHaveTypes, stored, radio, tick, asking
  <2> QED
    BY <1>3, <2>1, QuietHolds DEF RateLimitEnds, stored, radio
<1>4. CASE UNCHANGED vars
  <2>1. RecordsHaveTypes'
    BY <1>4 DEF vars, RadioInv, RecordsHaveTypes, stored, radio, tick, asking, answering
  <2> QED
    BY <1>4, <2>1, QuietHolds DEF vars, stored, radio, answering
<1> QED
  BY <1>1, <1>2, <1>3, <1>4, HearHolds, FaultHolds, RestartHolds, BeginTickHolds,
     FinishTickHolds, WriteEventHolds, IngestHolds
  DEF Next

\* The invariant holds of every behaviour of the radio.
THEOREM RadioSound == Spec => []RadioInv
  BY RadioStarts, RadioStays, PTL DEF Spec

\* The invariant bounds the queues and knows the types.
LEMMA RationedByInv == RadioInv => RadioIsRationed
<1> SUFFICES ASSUME RadioInv PROVE RadioIsRationed
  OBVIOUS
<1>1. /\ TrueEvent \subseteq EventFrame /\ TrueRequest \subseteq SyncRequest
      /\ TrueFrame \subseteq Frame
  BY DEF TrueEvent, TrueRequest, TrueFrame, Frame
<1>2. /\ Seq(TrueEvent) \subseteq Seq(EventFrame) /\ Seq(TrueRequest) \subseteq Seq(SyncRequest)
      /\ Seq(TrueFrame) \subseteq Seq(Frame)
  BY <1>1, SeqMonotonic
<1>3. /\ air \in [Node -> [Node -> Seq(Frame)]]
      /\ events \in [Node -> Seq(EventFrame)]
      /\ requests \in [Node -> Seq(SyncRequest)]
      /\ polled \in [Node -> Seq(EventFrame)]
      /\ outbox \in [Node -> Seq(Seqs)]
  BY <1>2 DEF RadioInv, FramesAreTrue
<1>4. TypeOK
  BY <1>3 DEF RadioInv, RecordsHaveTypes, QueuesAreShort, LogsAreAuthors, TypeOK
<1> QED
  BY <1>4 DEF RadioInv, RadioIsRationed

\* No queue outgrows its limit, and a node that was not opted in never sends,
\* be it an event, a request or an answer (SECUREMESH_LORA_EVENT_TX_ENV).
THEOREM RadioRationed == Spec => []RadioIsRationed
  BY RadioSound, RationedByInv, PTL

\* What a request under way does not ask for, its sender holds, though the log
\* has changed since (build_have_bitmap, event_needed).
THEOREM NothingIsWithheld == Spec => []NothingWithheld
<1>1. RadioInv => NothingWithheld
  <2> SUFFICES ASSUME RadioInv, NEW n \in Node, NEW r \in Node, NEW f \in RequestsTo(n, r),
                      NEW s \in Seqs
               PROVE  EventNeeded(s, f.watermark, f.have) \/ s \in Held(log[n][f.target])
    BY DEF NothingWithheld
  <2>1. f.kind = "SYNC_REQUEST" /\ f.source = n
    BY DEF RequestsTo
  <2>2. Range(air[n][r]) \subseteq TrueFrame /\ Range(requests[r]) \subseteq TrueRequest
    BY RangeOfSeq DEF RadioInv, FramesAreTrue
  <2>3. f \in TrueFrame
    BY <2>2 DEF RequestsTo, TrueFrame
  <2> QED
    BY <2>1, <2>3, KindsOfFrame DEF TrueRequest
<1> QED
  BY <1>1, RadioSound, PTL

-----------------------------------------------------------------------------
(* The radio implements the abstract replication. *)

prefixBar == [n \in Node |-> [o \in Node |-> Watermark(log[n][o])]]

\* Where one row changes, one prefix changes.
LEMMA OnePrefix ==
  ASSUME NEW n \in Node, NEW o \in Node, NEW row,
         log \in [Node -> [Node -> Row]], log' = [log EXCEPT ![n][o] = row]
  PROVE  prefixBar' = [prefixBar EXCEPT ![n][o] = Watermark(row)]
<1>1. /\ log'[n][o] = row
      /\ \A q, r \in Node : ~(q = n /\ r = o) => log'[q][r] = log[q][r]
  OBVIOUS
<1>2. [prefixBar EXCEPT ![n][o] = Watermark(row)] =
        [q \in Node |-> [r \in Node |->
           IF q = n /\ r = o THEN Watermark(row) ELSE Watermark(log[q][r])]]
  BY DEF prefixBar
<1>3. prefixBar' = [q \in Node |-> [r \in Node |->
           IF q = n /\ r = o THEN Watermark(row) ELSE Watermark(log[q][r])]]
  BY <1>1 DEF prefixBar
<1> QED
  BY <1>2, <1>3

\* The author's next event raises the mark of its own log by one.
LEMMA NextRaisesMark ==
  ASSUME NEW row \in Row, Contiguous(row), NEW s \in Seqs, IsNextSequence(row, s)
  PROVE  /\ Watermark(row) < MaxSeq
         /\ Watermark([row EXCEPT ![s] = MaxIncarnation]) = Watermark(row) + 1
<1> DEFINE w == Watermark(row)
           next == [row EXCEPT ![s] = MaxIncarnation]
<1>1. w \in Nat /\ w \in Marks /\ Held(row) = 1..w
  BY ContiguousIsPrefix, WatermarkIsMark, LogBounds DEF Marks
<1>2. next \in Row /\ Held(next) = Held(row) \cup {s}
  BY RowFilled
<1>3. s \in Nat /\ s >= 1 /\ s <= MaxSeq
  BY LogBounds DEF Seqs
<1> HIDE DEF w, next
<1>4. s = w + 1
  <2>1. \A h \in 1..w : h < s
    BY <1>1 DEF IsNextSequence
  <2>2. s = 1 \/ s - 1 \in 1..w
    BY <1>1 DEF IsNextSequence
  <2>3. w < s
    <3>1. CASE w = 0
      BY <1>3, <3>1
    <3>2. CASE w # 0
      BY <1>1, <2>1, <3>2
    <3> QED
      BY <3>1, <3>2
  <2> QED
    BY <1>1, <1>3, <2>2, <2>3
<1>5. Held(next) = 1..(w + 1) /\ w + 1 \in Marks
  BY <1>1, <1>2, <1>3, <1>4, LogBounds DEF Marks
<1>6. w + 1 <= Watermark(next)
  BY <1>2, <1>5, WatermarkIsHighest
<1>7. Watermark(next) \in Nat /\ 1..Watermark(next) \subseteq 1..(w + 1)
  BY <1>2, <1>5, WatermarkIsMark, LogBounds DEF Marks
<1>8. Watermark(next) = w + 1
  BY <1>1, <1>6, <1>7
<1>9. w < MaxSeq
  BY <1>1, <1>3, <1>4, LogBounds
<1> QED
  BY <1>8, <1>9 DEF w, next

\* Every step of the radio is a step of the promise, or none.
LEMMA RadioStepRefines == RadioInv /\ [Next]_vars => [Promise!Next]_(Promise!vars)
<1> SUFFICES ASSUME RadioInv, [Next]_vars PROVE [Promise!Next]_(Promise!vars)
  OBVIOUS
<1>1. ASSUME UNCHANGED <<log, trust>> PROVE UNCHANGED Promise!vars
  BY <1>1 DEF Promise!vars
<1>2. ASSUME NEW n \in Node, WriteEvent(n) PROVE Promise!Next
  <2>1. PICK s \in Seqs : /\ IsNextSequence(log[n][n], s)
                          /\ log' = [log EXCEPT ![n][n][s] = MaxIncarnation]
    BY <1>2 DEF WriteEvent
  <2> DEFINE row == [log[n][n] EXCEPT ![s] = MaxIncarnation]
  <2>2. /\ log \in [Node -> [Node -> Row]] /\ log[n][n] \in Row /\ Contiguous(log[n][n])
        /\ log' = [log EXCEPT ![n][n] = row]
    BY <2>1 DEF RadioInv, LogsAreAuthors
  <2>3. /\ Watermark(log[n][n]) < MaxSeq
        /\ Watermark(row) = Watermark(log[n][n]) + 1
    BY <2>1, <2>2, NextRaisesMark
  <2> HIDE DEF row
  <2>4. prefixBar' = [prefixBar EXCEPT ![n][n] = Watermark(row)]
    BY <2>2, OnePrefix
  <2>5. prefixBar[n][n] = Watermark(log[n][n])
    BY DEF prefixBar
  <2>6. trust' = trust
    BY <1>2 DEF WriteEvent
  <2>7. Promise!Write(n)
    BY <2>3, <2>4, <2>5, <2>6 DEF Promise!Write, prefixBar
  <2> QED
    BY <2>7 DEF Promise!Next
<1>3. ASSUME NEW n \in Node, Ingest(n) PROVE Promise!Next \/ UNCHANGED Promise!vars
  <2> DEFINE f == Head(polled[n])
             o == f.source
             row == [log[n][o] EXCEPT ![f.seq] = MaxIncarnation]
  <2>1. /\ UNCHANGED trust
        /\ \/ UNCHANGED log
           \/ Authorized(n, o) /\ log' = [log EXCEPT ![n][o] = row]
    BY <1>3 DEF Ingest
  <2>2. CASE UNCHANGED log
    BY <1>1, <2>1, <2>2
  <2>3. CASE Authorized(n, o) /\ log' = [log EXCEPT ![n][o] = row]
    <3>1. f \in TrueEvent
      BY <1>3, QueueOperators DEF Ingest, RadioInv, FramesAreTrue
    <3>2. o \in Node /\ f.seq \in Seqs /\ f.seq \in Held(log[o][o])
      BY <3>1 DEF TrueEvent, EventFrame
    <3>3. /\ log \in [Node -> [Node -> Row]] /\ log[n][o] \in Row /\ log[o][o] \in Row
          /\ Held(log[n][o]) \subseteq Held(log[o][o])
      BY <3>2 DEF RadioInv, LogsAreAuthors
    <3>4. row \in Row /\ Held(row) = Held(log[n][o]) \cup {f.seq}
      BY <3>2, <3>3, RowFilled
    <3> HIDE DEF f, row
    <3> HIDE DEF o
    <3>5. Watermark(row) \in Watermark(log[n][o])..Watermark(log[o][o])
      <4>1. /\ Watermark(log[n][o]) \in Marks /\ 1..Watermark(log[n][o]) \subseteq Held(row)
            /\ Watermark(row) \in Marks /\ 1..Watermark(row) \subseteq Held(log[o][o])
            /\ Watermark(log[o][o]) \in Marks
        BY <3>2, <3>3, <3>4, WatermarkIsMark
      <4>2. Watermark(log[n][o]) <= Watermark(row)
        BY <3>4, <4>1, WatermarkIsHighest
      <4>3. Watermark(row) <= Watermark(log[o][o])
        BY <3>3, <4>1, WatermarkIsHighest
      <4> QED
        BY <4>1, <4>2, <4>3, LogBounds DEF Marks
    <3>6. prefixBar' = [prefixBar EXCEPT ![n][o] = Watermark(row)]
      BY <2>3, <3>2, <3>3, OnePrefix
    <3>7. /\ prefixBar[n][o] = Watermark(log[n][o]) /\ prefixBar[o][o] = Watermark(log[o][o])
          /\ o \in trust[n]
      BY <2>3, <3>2 DEF prefixBar, Authorized
    <3>8. Promise!Learn(n, o, o)
      <4> DEFINE k == Watermark(row)
      <4>1. k \in prefixBar[n][o]..prefixBar[o][o] /\ prefixBar' = [prefixBar EXCEPT ![n][o] = k]
        BY <3>5, <3>6, <3>7
      <4> HIDE DEF k
      <4> QED
        BY <2>1, <3>7, <4>1 DEF Promise!Learn, prefixBar
    <3> QED
      BY <3>2, <3>8 DEF Promise!Next
  <2> QED
    BY <2>1, <2>2, <2>3
<1>4. ASSUME NEW n \in Node, NEW p \in Node, Decide(n, p) PROVE Promise!Next
  <2>1. PICK peers \in SUBSET Node : trust' = [trust EXCEPT ![n] = peers]
    BY <1>4 DEF Decide, RadioInv, RecordsHaveTypes
  <2>2. UNCHANGED log
    BY <1>4 DEF Decide
  <2>3. Promise!Decide(n)
    BY <2>1, <2>2 DEF Promise!Decide
  <2> QED
    BY <2>3 DEF Promise!Next
<1>5. ASSUME NEW n \in Node, NEW p \in Node,
             \/ Restart(n) \/ BeginTick(n) \/ FinishTick(n)
             \/ Hear(n, p) \/ LoseFrame(n, p) \/ RepeatFrame(n, p)
             \/ CooldownEnds(n, p) \/ RateLimitEnds(n, p)
      PROVE  UNCHANGED <<log, trust>>
  BY <1>5 DEF Restart, BeginTick, FinishTick, Hear, LoseFrame, RepeatFrame, CooldownEnds,
              RateLimitEnds, stored
<1>6. ASSUME UNCHANGED vars PROVE UNCHANGED <<log, trust>>
  BY <1>6 DEF vars, stored
<1> QED
  BY <1>1, <1>2, <1>3, <1>4, <1>5, <1>6 DEF Next

\* Over the radio a prefix grows only by its author's hand, or from what an author
\* that is trusted at that moment holds: the frames, queues, limits and faults
\* implement the abstract replication.
THEOREM RadioRefinesReplication == Spec => ImplementsReplication
<1>1. Init => Promise!Init
  <2> SUFFICES ASSUME Init PROVE Promise!Init
    OBVIOUS
  <2>1. EmptyRow \in Row /\ Held(EmptyRow) = {}
    BY DEF EmptyRow, Row, Held
  <2>2. Watermark(EmptyRow) = 0
    BY <2>1, WatermarkIsMark, LogBounds DEF Marks
  <2>3. prefixBar = [n \in Node |-> [o \in Node |-> 0]]
    BY <2>2 DEF Init, prefixBar
  <2>4. trust \in [Node -> SUBSET Node]
    BY DEF Init
  <2> QED
    BY <2>3, <2>4 DEF Promise!Init, prefixBar
<1> QED
  BY <1>1, RadioSound, RadioStepRefines, PTL DEF Spec, ImplementsReplication, Promise!Spec
=============================================================================
