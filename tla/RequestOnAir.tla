----------------------------- MODULE RequestOnAir -----------------------------
(***************************************************************************)
(* The LoRa sync request, byte for byte: what a node that found a gap      *)
(* signs (lora_sync.rs), what may become of it on the air, and what the    *)
(* origin reads from the payload, checks and answers.  When a node asks,   *)
(* how often it is answered and what becomes of the answer is LoraSync's.  *)
(*                                                                         *)
(* A sequence number is a word of 0..Top; one above Half is negative when  *)
(* it is cast to the i64 of the database.  A signature is who signed what. *)
(***************************************************************************)
EXTENDS Integers, FiniteSets, FiniteSetsExt

CONSTANTS
  Station,     \* nodes; every one has the keys of the others
  Origin,      \* the one that answers
  Top, Half,   \* u64::MAX and i64::MAX
  MaxOwn,      \* bound: events the origin has written
  HaveWindow,  \* bits of have_bitmap
  MaxAsk,      \* MAX_SYNC_REQUEST_EVENTS
  OwnBatch,    \* MAX_SYNC_BATCH
  TooLarge     \* the numbers of events that do not fit one frame

ASSUME RequestAssumption ==
  /\ Origin \in Station
  /\ Half \in Nat /\ Top = 2 * Half + 1 /\ MaxOwn \in 0..Half
  /\ HaveWindow \in Nat /\ MaxAsk \in Nat \ {0} /\ OwnBatch \in Nat \ {0}
  /\ TooLarge \subseteq Nat

VARIABLES
  own,      \* the origin has written the events 1..own
  holds,    \* those of them that the asking node has
  signal,   \* the frame in the air, Silence before there is one
  asker,    \* history: who signed it, of this build ("asks") or another
  meant,    \* history: the request that was signed
  verdict,  \* "waiting", "refused" or "answered"
  answer    \* the numbers sent back

requestVars == <<own, holds, signal, asker, meant, verdict, answer>>

Silence == [source |-> "none"]
Words == 0..Top

Asked(target, watermark, have, max) ==
  [target |-> target, watermark |-> watermark, have |-> have, max |-> max]

\* signing_bytes: the requester is signed although the payload does not hold it.
RequestBytes(requester, request) == <<"securemesh-lora-sync-v1:", requester, request>>

\* validate and validate_max_events
ValidRequest(requester, request) ==
  request.max \in 1..MaxAsk /\ request.target # requester

\* The payload has room for every field and nothing else.
Payload(requester, request) ==
  [version |-> 1, surplus |-> 0, request |-> request,
   signature |-> [by |-> requester, over |-> RequestBytes(requester, request)]]

\* watermark_for, of what this node holds
MarkOf(S) == Max({m \in 0..MaxOwn : 1..m \subseteq S})

\* Mutant of BitsOf: bit 0 stands for the number above the watermark.
BitsFromNext(S, watermark) == {i \in 0..(HaveWindow - 1) : watermark + 1 + i \in S}

\* build_have_bitmap
BitsOf(S, watermark) == {i \in 0..(HaveWindow - 1) : watermark + 2 + i \in S}

\* decode, then verify with the key of the frame's source
Decodes(payload) ==
  payload.surplus = 0 /\ payload.version = 1 /\ payload.request.max \in 1..MaxAsk

\* Mutant of Verified: the signature is not checked.
VerifiedByShape(frame) == ValidRequest(frame.source, frame.payload.request)

Verified(frame) ==
  LET signature == frame.payload.signature IN
  /\ ValidRequest(frame.source, frame.payload.request)
  /\ signature.by = frame.source
  /\ signature.over = RequestBytes(frame.source, frame.payload.request)

\* Mutant of Lacking: a number past the bitmap is taken for held.
LackingOnlyMarked(s, request) ==
  /\ s > request.watermark
  /\ s = request.watermark + 1 \/ s - (request.watermark + 2) \in (0..(HaveWindow - 1)) \ request.have

\* event_needed
Lacking(s, request) ==
  /\ s > request.watermark
  /\ \/ s = request.watermark + 1
     \/ s - (request.watermark + 2) >= HaveWindow
     \/ s - (request.watermark + 2) \notin request.have

\* events_since of the origin's own log: after_seq is cast for the query, and
\* the run it returns starts at after_seq + 1 or is empty.
AsI64(word) == IF word > Half THEN word - (Top + 1) ELSE word
OwnSince(after) ==
  LET rows == {s \in 1..own : s > AsI64(after)}
      first == (after + 1) % (Top + 1)
  IN  IF first \in rows /\ \A s \in rows : s >= first
      THEN {s \in rows : s < first + OwnBatch} ELSE {}

\* Mutant of Selected: an event that is too large pins every event after it.
SelectedUpToLarge(request) ==
  LET lacking == {s \in OwnSince(request.watermark) : Lacking(s, request)}
  IN  {s \in lacking : /\ Cardinality({t \in lacking : t < s}) < request.max
                       /\ {t \in lacking : t <= s} \cap TooLarge = {}}

\* The least numbers the request lacks, up to what it asks for: an event that
\* does not fit a frame is passed over and takes nobody's place.
Selected(request) ==
  LET lacking == {s \in OwnSince(request.watermark) \ TooLarge : Lacking(s, request)}
  IN  {s \in lacking : Cardinality({t \in lacking : t < s}) < request.max}

-------------------------------------------------------------------------------
RequestInit ==
  /\ own \in 0..MaxOwn /\ holds \in SUBSET (1..own)
  /\ signal = Silence /\ asker = "none" /\ meant = Silence
  /\ verdict = "waiting" /\ answer = {}

Transmits(who, node, request) ==
  /\ signal = Silence
  /\ signal' = [source |-> node, payload |-> Payload(node, request)]
  /\ asker' = who /\ meant' = [source |-> node, request |-> request]
  /\ UNCHANGED <<own, holds, verdict, answer>>

\* maybe_request_sync, after an event beyond the next was stored
AskOrigin(node) ==
  LET mark == MarkOf(holds)
      request == Asked(Origin, mark, BitsOf(holds, mark), MaxAsk)
  IN  /\ \E s \in holds : s > mark + 1
      /\ ValidRequest(node, request)
      /\ Transmits("asks", node, request)

\* Another build signs what it likes; what it holds does not matter then.
AskOddly(node, request) == holds = {} /\ Transmits("odd", node, request)

\* The frame is as it was sent.
Intact == signal = [source |-> meant.source, payload |-> Payload(meant.source, meant.request)]

\* A frame is changed on its way, once, or sent again under another node's name.
Distort ==
  /\ signal # Silence /\ verdict = "waiting" /\ Intact
  /\ \/ \E n \in Station : signal' = [signal EXCEPT !.source = n]
     \/ \E w \in Words : signal' = [signal EXCEPT !.payload.request.watermark = w]
     \/ signal' = [signal EXCEPT !.payload.request.have = {}]
     \/ signal' = [signal EXCEPT !.payload.surplus = @ + 1]
     \/ signal' = [signal EXCEPT !.payload.version = @ + 1]
  /\ UNCHANGED <<own, holds, asker, meant, verdict, answer>>

\* respond_to_sync_request, for a requester that is trusted and not held off
Accepted(frame) ==
  /\ frame.source # Origin
  /\ Decodes(frame.payload)
  /\ frame.payload.request.target = Origin
  /\ Verified(frame)

AnswerRequest ==
  /\ signal # Silence /\ verdict = "waiting"
  /\ verdict' = IF Accepted(signal) THEN "answered" ELSE "refused"
  /\ answer' = IF Accepted(signal) THEN Selected(signal.payload.request) ELSE {}
  /\ UNCHANGED <<own, holds, signal, asker, meant>>

RequestNext ==
  \/ \E n \in Station : AskOrigin(n)
  \/ \E n, t \in Station, w \in {0, Half, Half + 1, Top - 1, Top}, max \in {0, 1, MaxAsk + 1} :
       \E have \in {{}, {0}} : AskOddly(n, Asked(t, w, have, max))
  \/ Distort
  \/ AnswerRequest

RequestSpec == RequestInit /\ [][RequestNext]_requestVars
-------------------------------------------------------------------------------
(***************************************************************************)
(* Properties                                                              *)
(***************************************************************************)

\* The origin answers only what the source of the frame signed, to the letter,
\* about the origin's own events; and a request this build makes is understood
\* unless it was changed on the way (lora_sync::verify).
AnswersWhatWasSigned ==
  /\ verdict = "answered" =>
       /\ signal.source = meant.source
       /\ signal.payload.request = meant.request /\ meant.request.target = Origin
  /\ verdict = "refused" /\ asker = "asks" => ~Intact

\* Between the two ends' arithmetic nothing is lost but what no frame can hold:
\* the answer starts with the number that keeps the requester's watermark where
\* it is, or passes over it only if it is too large; it repeats nothing the
\* bitmap has room to name, and is cut only at its limit; and no watermark, at
\* whatever end of a word, makes the origin send what lies below it.
AnswerFillsTheGap ==
  verdict = "answered" =>
    /\ Cardinality(answer) <= MaxAsk
    /\ \A s \in answer : s > meant.request.watermark
    /\ asker = "asks" =>
         LET mark == MarkOf(holds)
             lacks == {s \in 1..own : s > mark /\ s \notin holds \cup TooLarge}
         IN  /\ mark + 1 \notin TooLarge => mark + 1 \in answer
             /\ \A s \in answer : s \in lacks \/ s > mark + 1 + HaveWindow
             /\ \A s \in lacks \ answer :
                  /\ \A t \in answer : t < s
                  /\ Cardinality(answer) = MaxAsk \/ s > mark + OwnBatch

\* A request is answered as it was meant, and with what fills the gap.
RequestIsMet == AnswersWhatWasSigned /\ AnswerFillsTheGap
=============================================================================
