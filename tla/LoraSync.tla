------------------------------ MODULE LoraSync ------------------------------
(***************************************************************************)
(* Incident events over the LoRa radio (networking/lora_*.rs and the LoRa  *)
(* half of runtime.rs).  A node broadcasts the events it writes.  A node   *)
(* that stores one above a gap asks the origin, once per cooldown, for     *)
(* what is missing; the origin answers from its own log, one frame per     *)
(* tick.  Nobody acknowledges, retries or relays.                          *)
(*                                                                         *)
(* The serial thread fills the inboxes.  The LoRa loop takes the event     *)
(* inbox, ingests it frame by frame without a lock, and then answers one   *)
(* request; the operator's commands and local writes run in between.       *)
(***************************************************************************)
EXTENDS EventLog, Sequences, SequencesExt

CONSTANTS
  Node,
  InRange,      \* pairs of nodes that hear each other
  Transmits,    \* nodes run with SECUREMESH_LORA_EVENT_TX=1
  Author,       \* nodes that write events
  Operator,     \* nodes whose operator changes his mind
  Oversized,    \* sequence numbers of events too large for a frame
  Window,       \* BITMAP_WINDOW (64)
  MaxAnswer,    \* MAX_SYNC_REQUEST_EVENTS (8)
  TickLimit,    \* LORA_EVENT_RX_TICK_LIMIT (8)
  QueueLimit,   \* MAX_QUEUED_SYNC_REQUESTS (16)
  OutboxLimit,  \* LORA_SYNC_OUTBOX_LIMIT (8)
  MaxFaults     \* bound: lost and repeated frames, restarts, decisions

ASSUME LoraBounds ==
  /\ Transmits \subseteq Node /\ Author \subseteq Node /\ Operator \subseteq Node
  /\ Window \in Nat /\ TickLimit \in Nat
  /\ MaxAnswer \in Nat /\ QueueLimit \in Nat /\ OutboxLimit \in Nat
  /\ MaxFaults \in Nat

ASSUME OneDatabase == MaxIncarnation = 1

VARIABLES
  log,       \* each node's events, by origin
  trust,     \* the peers each node trusts
  air,       \* frames under way, by sender and receiver, in order
  events,    \* LoraInboxes.event
  requests,  \* LoraInboxes.sync_request
  ticking,   \* nodes inside lora_receive_tick
  polled,    \* the frames the tick has yet to ingest
  outbox,    \* lora_sync_outbox
  asked,     \* lora_sync_requester_state: origins still in their cooldown
  served,    \* lora_sync_peer_state: newest timestamp accepted, by requester
  resting,   \* ... and the requesters within RATE_LIMIT_MS of their answer
  clock,     \* each node's wall clock, counted in the requests it signed
  losses,    \* event frames lost
  faults     \* every other fault

stored == <<log, trust>>
radio == <<air, losses, faults>>
inbox == <<events, requests>>
tick == <<ticking, polled>>
asking == <<asked, clock>>
answering == <<outbox, served, resting>>
vars == <<stored, radio, inbox, tick, asking, answering>>

EventFrame == [kind : {"EVENT"}, source : Node, seq : Seqs]
SyncRequest == [kind : {"SYNC_REQUEST"}, source : Node, target : Node,
                watermark : Marks, have : SUBSET Nat, ts : Nat]
Frame == EventFrame \cup SyncRequest

\* Every variable has its type, and no queue outgrows its limit: an answer may
\* be cut and a request dropped, but memory and air time are bounded
\* (drain_frames, lora_receive_tick, lora_sync_responder_tick).
TypeOK ==
  /\ log \in [Node -> [Node -> Row]]
  /\ trust \in [Node -> SUBSET Node]
  /\ air \in [Node -> [Node -> Seq(Frame)]]
  /\ events \in [Node -> Seq(EventFrame)]
  /\ requests \in [Node -> Seq(SyncRequest)]
  /\ ticking \subseteq Node
  /\ polled \in [Node -> Seq(EventFrame)]
  /\ outbox \in [Node -> Seq(Seqs)]
  /\ asked \in [Node -> SUBSET Node]
  /\ served \in [Node -> [Node -> Nat]]
  /\ resting \in [Node -> SUBSET Node]
  /\ clock \in [Node -> Nat]
  /\ losses \in Nat /\ faults \in Nat
  /\ \A n \in Node : /\ Len(requests[n]) <= QueueLimit
                    /\ Len(outbox[n]) <= OutboxLimit
                    /\ Len(polled[n]) <= TickLimit

Init ==
  /\ log = [n \in Node |-> [o \in Node |-> EmptyRow]]
  /\ trust = [n \in Node |-> Node \ {n}]
  /\ air = [n \in Node |-> [r \in Node |-> <<>>]]
  /\ events = [n \in Node |-> <<>>]
  /\ requests = [n \in Node |-> <<>>]
  /\ ticking = {}
  /\ polled = [n \in Node |-> <<>>]
  /\ outbox = [n \in Node |-> <<>>]
  /\ asked = [n \in Node |-> {}]
  /\ served = [n \in Node |-> [r \in Node |-> 0]]
  /\ resting = [n \in Node |-> {}]
  /\ clock = [n \in Node |-> 0]
  /\ losses = 0 /\ faults = 0

-----------------------------------------------------------------------------
(* The radio *)

Hears(n, r) == {n, r} \in InRange

\* The serial thread writes a frame: everybody in range may hear it.
Sent(n, frame) ==
  [air EXCEPT ![n] = [r \in Node |-> IF Hears(n, r) THEN Append(@[r], frame) ELSE @[r]]]

\* send_event_payload: the event as its origin signed it
EventOf(n, s) == [kind |-> "EVENT", source |-> n, seq |-> s]

\* maybe_transmit_lora_event: only what fits a frame, only if it was opted in
MayTransmit(n, s) == n \in Transmits /\ s \notin Oversized

\* Mutant of Admitted: the queue of requests has no bound.
AdmitAll(r, frame) ==
  IF frame.kind = "EVENT"
  THEN events' = [events EXCEPT ![r] = Append(@, frame)] /\ UNCHANGED requests
  ELSE requests' = [requests EXCEPT ![r] = Append(@, frame)] /\ UNCHANGED events

\* drain_frames: each kind to its own inbox, requests only while there is room
Admitted(r, frame) ==
  \/ frame.kind = "EVENT"
     /\ events' = [events EXCEPT ![r] = Append(@, frame)] /\ UNCHANGED requests
  \/ frame.kind = "SYNC_REQUEST" /\ Len(requests[r]) < QueueLimit
     /\ requests' = [requests EXCEPT ![r] = Append(@, frame)] /\ UNCHANGED events
  \/ frame.kind = "SYNC_REQUEST" /\ Len(requests[r]) >= QueueLimit /\ UNCHANGED inbox

Hear(n, r) ==
  /\ air[n][r] # <<>>
  /\ Admitted(r, Head(air[n][r]))
  /\ air' = [air EXCEPT ![n][r] = Tail(@)]
  /\ UNCHANGED <<stored, tick, asking, answering, losses, faults>>

\* A frame is corrupted on its way to one receiver.
LoseFrame(n, r) ==
  /\ air[n][r] # <<>> /\ losses + faults < MaxFaults
  /\ air' = [air EXCEPT ![n][r] = Tail(@)]
  /\ IF Head(air[n][r]).kind = "EVENT"
     THEN losses' = losses + 1 /\ UNCHANGED faults
     ELSE faults' = faults + 1 /\ UNCHANGED losses
  /\ UNCHANGED <<stored, inbox, tick, asking, answering>>

\* A frame is put on the air a second time.
RepeatFrame(n, r) ==
  /\ air[n][r] # <<>> /\ losses + faults < MaxFaults
  /\ air' = [air EXCEPT ![n][r] = Append(@, Head(@))]
  /\ faults' = faults + 1
  /\ UNCHANGED <<stored, inbox, tick, asking, answering, losses>>

-----------------------------------------------------------------------------
(* The main thread *)

\* append_local_event, and what it puts on the air
WriteEvent(n) ==
  /\ n \in Author
  /\ \E s \in Seqs :
       /\ IsNextSequence(log[n][n], s)
       /\ log' = [log EXCEPT ![n][n][s] = MaxIncarnation]
       /\ air' = IF MayTransmit(n, s) THEN Sent(n, EventOf(n, s)) ELSE air
  /\ UNCHANGED <<trust, losses, faults, inbox, tick, asking, answering>>

\* approve_peer, revoke_peer
Decide(n, p) ==
  /\ n \in Operator /\ p # n /\ losses + faults < MaxFaults
  /\ trust' = [trust EXCEPT ![n] = IF p \in @ THEN @ \ {p} ELSE @ \cup {p}]
  /\ faults' = faults + 1
  /\ UNCHANGED <<log, air, losses, inbox, tick, asking, answering>>

\* The process ends and starts again: everything but the database is gone.
Restart(n) ==
  /\ losses + faults < MaxFaults
  /\ faults' = faults + 1
  /\ events' = [events EXCEPT ![n] = <<>>]
  /\ requests' = [requests EXCEPT ![n] = <<>>]
  /\ ticking' = ticking \ {n}
  /\ polled' = [polled EXCEPT ![n] = <<>>]
  /\ outbox' = [outbox EXCEPT ![n] = <<>>]
  /\ asked' = [asked EXCEPT ![n] = {}]
  /\ served' = [served EXCEPT ![n] = [r \in Node |-> 0]]
  /\ resting' = [resting EXCEPT ![n] = {}]
  /\ UNCHANGED <<stored, air, losses, clock>>

-----------------------------------------------------------------------------
(* lora_receive_tick: the events *)

AtMost(k, queue) == SubSeq(queue, 1, IF k < Len(queue) THEN k ELSE Len(queue))

\* The inbox is emptied; what exceeds the limit is discarded.  Ticks that find
\* nothing to do change nothing.
BeginTick(n) ==
  /\ n \notin ticking
  /\ events[n] # <<>> \/ requests[n] # <<>> \/ outbox[n] # <<>>
  /\ ticking' = ticking \cup {n}
  /\ polled' = [polled EXCEPT ![n] = AtMost(TickLimit, events[n])]
  /\ events' = [events EXCEPT ![n] = <<>>]
  /\ UNCHANGED <<stored, radio, requests, asking, answering>>

\* Mutant of Authorized: any node in reach.
AnySource(n, p) == p \in Node

\* authorize: the same rule for a sender, a requester and an origin
Authorized(n, p) == p \in trust[n] /\ p # n

\* Mutant of HaveBitmap: the window starts one number later.
HaveBitmapTooHigh(row) ==
  LET start == Watermark(row) + 3
  IN {s - start : s \in {h \in Held(row) : h \in start..(start + Window - 1)}}

\* build_have_bitmap: bit 0 stands for the number two above the watermark.  The
\* one below is missing by the meaning of a watermark and has no bit.
HaveBitmap(row) ==
  LET start == Watermark(row) + 2
  IN {s - start : s \in {h \in Held(row) : h \in start..(start + Window - 1)}}

RevealsGap(row, s) == s > Watermark(row) + 1

RequestOf(n, o, row) ==
  [kind |-> "SYNC_REQUEST", source |-> n, target |-> o, watermark |-> Watermark(row),
   have |-> HaveBitmap(row), ts |-> clock[n] + 1]

\* Mutant of MayAsk: a node that only receives asks too.
MayAskSilently(n, o) == Authorized(n, o) /\ o \notin asked[n]

\* maybe_request_lora_historical_sync, but for the gap
MayAsk(n, o) == n \in Transmits /\ Authorized(n, o) /\ o \notin asked[n]

\* maybe_request_sync, after the event s of o was stored and the row is this
Ask(n, o, row, s) ==
  IF RevealsGap(row, s) /\ MayAsk(n, o)
  THEN /\ air' = Sent(n, RequestOf(n, o, row))
       /\ asked' = [asked EXCEPT ![n] = @ \cup {o}]
       /\ clock' = [clock EXCEPT ![n] = @ + 1]
  ELSE UNCHANGED <<air, asked, clock>>

\* ingest_event_frame.  The event is applied whatever the gaps below it.
Ingest(n) ==
  /\ polled[n] # <<>>
  /\ LET f == Head(polled[n])
         row == [log[n][f.source] EXCEPT ![f.seq] = MaxIncarnation]
     IN IF Authorized(n, f.source) /\ f.seq \notin Held(log[n][f.source])
        THEN /\ log' = [log EXCEPT ![n][f.source] = row]
             /\ Ask(n, f.source, row, f.seq)
        ELSE UNCHANGED <<log, air, asking>>
  /\ polled' = [polled EXCEPT ![n] = Tail(@)]
  /\ UNCHANGED <<trust, losses, faults, inbox, ticking, answering>>

-----------------------------------------------------------------------------
(* lora_sync_responder_tick *)

\* Mutant of EventNeeded: the number above the watermark is looked up too.
LookUpAll(s, mark, have) ==
  s > mark /\ (s >= mark + 2 + Window \/ (s > mark + 1 /\ s - (mark + 2) \notin have))

\* event_needed.  Of numbers above the window the request says nothing.
EventNeeded(s, mark, have) ==
  \/ s = mark + 1
  \/ s > mark + 1 /\ s - (mark + 2) >= Window
  \/ s > mark + 1 /\ s - (mark + 2) \notin have

\* respond_to_sync_request, once accepted: the first MaxAnswer events of its
\* own log that the requester needs and that fit a frame
Wanted(n, request) ==
  {s \in Held(EventsSince(log[n][n], request.watermark)) :
     s \notin Oversized /\ EventNeeded(s, request.watermark, request.have)}

\* The MaxAnswer least numbers of S in ascending order, or all of them
IsFirst(answer, S) ==
  /\ \A i, j \in DOMAIN answer : i < j => answer[i] < answer[j]
  /\ \A s \in S \ Range(answer) :
       Len(answer) = MaxAnswer /\ \A t \in Range(answer) : t < s

\* Mutant of Queued: an answer is queued whole.
QueuedWhole(n, answer) == outbox[n] \o answer

\* What the outbox has no room for is dropped, though the request counts as
\* served.
Queued(n, answer) == AtMost(OutboxLimit, outbox[n] \o answer)

\* The checks of respond_to_sync_request, in its order
Accepts(n, request) ==
  /\ Authorized(n, request.source)
  /\ request.target = n
  /\ request.ts > served[n][request.source]
  /\ request.source \notin resting[n]

\* Sends the front of a queue, if it has one.
SendFront(n, queue) ==
  /\ air' = IF queue = <<>> THEN air ELSE Sent(n, EventOf(n, Head(queue)))
  /\ outbox' = [outbox EXCEPT ![n] = IF queue = <<>> THEN queue ELSE Tail(queue)]

\* A tick without a request, or with one that is refused
NoAnswer(n) ==
  /\ requests[n] # <<>> => ~Accepts(n, Head(requests[n]))
  /\ requests' = [requests EXCEPT ![n] = IF @ = <<>> THEN @ ELSE Tail(@)]
  /\ SendFront(n, outbox[n])
  /\ UNCHANGED <<served, resting>>

Respond(n) ==
  /\ requests[n] # <<>> /\ Accepts(n, Head(requests[n]))
  /\ LET request == Head(requests[n]) IN
       /\ served' = [served EXCEPT ![n][request.source] = request.ts]
       /\ resting' = [resting EXCEPT ![n] = @ \cup {request.source}]
       /\ \E answer \in BoundedSeq(Wanted(n, request), MaxAnswer) :
            /\ IsFirst(answer, Wanted(n, request))
            /\ SendFront(n, Queued(n, answer))
  /\ requests' = [requests EXCEPT ![n] = Tail(@)]

\* A node that does not transmit leaves its requests where they are.
FinishTick(n) ==
  /\ n \in ticking /\ polled[n] = <<>>
  /\ ticking' = ticking \ {n}
  /\ \/ n \notin Transmits /\ UNCHANGED <<air, requests, answering>>
     \/ n \in Transmits /\ NoAnswer(n)
     \/ n \in Transmits /\ Respond(n)
  /\ UNCHANGED <<stored, losses, faults, events, polled, asking>>

\* GAP_REQUEST_COOLDOWN and RATE_LIMIT_MS pass.
CooldownEnds(n, o) ==
  /\ o \in asked[n]
  /\ asked' = [asked EXCEPT ![n] = @ \ {o}]
  /\ UNCHANGED <<stored, radio, inbox, tick, clock, answering>>

RateLimitEnds(n, r) ==
  /\ r \in resting[n]
  /\ resting' = [resting EXCEPT ![n] = @ \ {r}]
  /\ UNCHANGED <<stored, radio, inbox, tick, asking, outbox, served>>

-----------------------------------------------------------------------------

Next ==
  \E n \in Node :
    \/ WriteEvent(n) \/ Restart(n)
    \/ BeginTick(n) \/ Ingest(n) \/ FinishTick(n)
    \/ \E p \in Node : \/ Hear(n, p) \/ LoseFrame(n, p) \/ RepeatFrame(n, p)
                       \/ Decide(n, p)
                       \/ CooldownEnds(n, p) \/ RateLimitEnds(n, p)

Fairness ==
  \A n \in Node :
    /\ WF_vars(BeginTick(n)) /\ WF_vars(Ingest(n)) /\ WF_vars(FinishTick(n))
    /\ \A p \in Node : WF_vars(Hear(n, p))

Spec == Init /\ [][Next]_vars
FairSpec == Spec /\ Fairness
-----------------------------------------------------------------------------

\* The requests that are under way from n to r.
RequestsTo(n, r) ==
  {f \in Range(air[n][r]) \cup Range(requests[r]) : f.kind = "SYNC_REQUEST" /\ f.source = n}

\* Whatever a request does not ask for, its sender holds: also later, when it
\* is answered, and though bits and numbers are converted on both sides
\* (build_have_bitmap, event_needed).
NothingWithheld ==
  \A n, r \in Node : \A f \in RequestsTo(n, r) : \A s \in Seqs :
    EventNeeded(s, f.watermark, f.have) \/ s \in Held(log[n][f.target])

\* A node that was not opted in never keys the radio, be it for an event, for a
\* request or for an answer (SECUREMESH_LORA_EVENT_TX_ENV).
ReceiveOnlyIsSilent ==
  \A n \in Node \ Transmits : \A r \in Node : air[n][r] = <<>>

\* Over the radio a node's prefix of a log grows by its author's hand, or from
\* what an author it trusts at that moment holds.
Promise == INSTANCE EventReplication WITH
  prefix <- [n \in Node |-> [o \in Node |-> Watermark(log[n][o])]],
  trusted <- trust,
  shared <- [n \in Node |-> {}]

ImplementsReplication == Promise!Spec

\* s is missing at n below an event of the same origin that n holds.
Missing(n, o, s) ==
  /\ s \notin Held(log[n][o])
  /\ \E t \in Held(log[n][o]) : s < t

Neighbours == {pair \in Transmits \X Transmits : Hears(pair[1], pair[2])}

\* Neighbours trust each other and one event frame is lost, nothing else.
Undisturbed ==
  /\ \A pair \in Neighbours : pair[2] \in trust[pair[1]]
  /\ faults = 0 /\ losses <= 1

\* The event n is about to store shows it a hole no earlier one did, and in it
\* one that fits a frame.
ShowsHole(n) ==
  /\ polled[n] # <<>>
  /\ LET o == Head(polled[n]).source
         s == Head(polled[n]).seq
     IN /\ s \notin Held(log[n][o])
        /\ \E t \in 1..(s - 1) : t \notin Oversized /\ t..(s - 1) \cap Held(log[n][o]) = {}

\* No more frames come between two ticks than one tick takes, and a hole shows
\* only where n may ask: GAP_REQUEST_COOLDOWN has passed since it last asked,
\* and the shorter RATE_LIMIT_MS since that was answered.
Unhurried ==
  \A n \in Transmits :
    /\ Len(events[n]) <= TickLimit
    /\ ShowsHole(n) =>
         LET o == Head(polled[n]).source IN o \notin asked[n] /\ n \notin resting[o]

\* The one event that was lost arrives in the end, if it fits a frame: the gap
\* is noticed at the next event, asked for and answered (maybe_request_sync,
\* respond_to_sync_request).  Not so when the next event finds the origin in
\* the cooldown of an earlier question, which events too large for a frame
\* bring about, or when a tick that takes too many frames discards the answer:
\* nothing asks again, unless a later event comes.
GapCloses ==
  [](Undisturbed /\ Unhurried) =>
    []<>(\A pair \in Neighbours : \A s \in Seqs \ Oversized :
           ~Missing(pair[1], pair[2], s))

\* The air and the memory are rationed: no queue outgrows its limit, and who was not opted
\* in never sends.
RadioIsRationed == TypeOK /\ ReceiveOnlyIsSilent
=============================================================================
