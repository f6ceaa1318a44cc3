------------------------------ MODULE SerialLine ------------------------------
(***************************************************************************)
(* The serial line under the LoRa link (networking/lora_transport.rs): one *)
(* node frames what it is asked to send, the radio carries the bytes and   *)
(* may damage or lose one, the other node's I/O thread reads them in pieces*)
(* of any size and cuts frames out of the stream.                          *)
(*                                                                         *)
(* A byte is <<n>>.  A place is the number of a byte, from 1.  The magic   *)
(* has two bytes instead of four, the header names kind (version and       *)
(* type), sequence and payload length, and the checksum is one symbol: the *)
(* covered bytes themselves, so that it fits no other content (32 bits of  *)
(* CRC make that very likely, not certain).                                *)
(***************************************************************************)
EXTENDS Naturals, Sequences, FiniteSets, SequencesExt

CONSTANTS
  MaxPayload,     \* MAX_LORA_PAYLOAD_BYTES
  MaxByte,        \* the largest value of the length byte, above MaxPayload
  SyncQueue,      \* MAX_QUEUED_SYNC_REQUESTS
  Messages,       \* the kinds and payloads handed to the transport
  Noise,          \* values a damaged byte may take
  Chunks,         \* how many bytes one read may return
  MaxFrames,      \* bound: frames sent
  MaxFaults       \* bound: bytes damaged or lost on the air

Kinds == {"diagnostic", "event", "syncRequest"}
KindByte == [diagnostic |-> 1, event |-> 2, syncRequest |-> 3]

\* A byte of the line, or its checksum, which spells what it covers
Char == Seq(Nat) \ {<<>>}

ASSUME LineAssumption ==
  /\ MaxPayload \in Nat /\ MaxByte \in Nat /\ MaxByte >= MaxPayload
  /\ SyncQueue \in Nat \ {0} /\ Chunks \subseteq Nat \ {0} /\ Noise \subseteq Nat
  /\ \A m \in Messages : m[1] \in Kinds /\ m[2] \in Seq(Char)

VARIABLES
  commands,   \* the channel into the sender's I/O thread
  sent,       \* history: every frame the sender's thread wrote, with its place
  air,        \* bytes written and not read yet
  damage,     \* history: the furthest place of a damaged byte, 0 before any
  faults,     \* bytes damaged or lost so far
  heard,      \* history: every byte read
  pending,    \* run_lora_io's buffer
  inboxes,    \* LoraInboxes
  decoded,    \* history: every frame cut out of the stream
  handed,     \* history: frames the polls took, by kind
  refused     \* history: which of the frames were dropped, their queue being full

lineVars ==
  <<commands, sent, air, damage, faults, heard, pending, inboxes, decoded, handed, refused>>

Magic == << <<8>>, <<9>> >>
HeaderLen == 5
CrcLen == 1

Crc(bytes) == FlattenSeq(bytes)

EncodeFrame(f) ==
  LET body == Magic \o << <<KindByte[f.kind]>>, f.sequence, <<Len(f.payload)>> >> \o f.payload
  IN  Append(body, Crc(body))

\* What the length byte declares: no more than a byte can say.
Declared(byte) == IF Head(byte) > MaxByte THEN MaxByte ELSE Head(byte)

\* The place behind the frame whose magic is at a place.
EndOf(bytes, at) == at + HeaderLen + Declared(bytes[at + HeaderLen - 1]) + CrcLen

\* Its length is known and all of it is there.
Whole(bytes, at) == at + HeaderLen - 1 <= Len(bytes) /\ EndOf(bytes, at) <= Len(bytes) + 1

\* decode: the frame the bytes spell, as a sequence of at most one.
DecodeFrame(bytes) ==
  LET n == EndOf(bytes, 1) - 1 - CrcLen IN
  IF /\ SubSeq(bytes, 1, Len(Magic)) = Magic
     /\ \E k \in Kinds : bytes[3] = <<KindByte[k]>>
     /\ Len(bytes) = n + CrcLen
     /\ bytes[n + 1] = Crc(SubSeq(bytes, 1, n))
  THEN << [kind |-> CHOOSE k \in Kinds : bytes[3] = <<KindByte[k]>>,
           sequence |-> bytes[4],
           payload |-> SubSeq(bytes, HeaderLen + 1, n)] >>
  ELSE <<>>

MagicAt(bytes) ==
  {i \in 1..(Len(bytes) - 1) : bytes[i] = Magic[1] /\ bytes[i + 1] = Magic[2]}

Least(S) == CHOOSE i \in S : \A j \in S : i <= j
From(bytes, i) == SubSeq(bytes, i, Len(bytes))

\* Mutant of KeepTail: nothing stays when no magic was found.
KeepNothing(bytes, at) == Len(bytes) + 1

\* A partial magic may end the buffer: its bytes stay.
KeepTail(bytes, at) ==
  IF at > Len(bytes) THEN at ELSE Len(bytes) - Len(Magic) + 2

\* A turn of drain_frames: the buffer begins at d.at.  A whole frame leaves it whether or not it
\* decodes; without one, a turn changes nothing more.
Drained(bytes, d) ==
  LET ahead == {i \in MagicAt(bytes) : i >= d.at}
      start == Least(ahead)
      end == EndOf(bytes, start)
  IN  CASE ahead = {} -> [at |-> KeepTail(bytes, d.at), frames |-> d.frames]
        [] ahead # {} /\ ~Whole(bytes, start) -> [at |-> start, frames |-> d.frames]
        [] OTHER -> [at |-> end,
                     frames |-> d.frames \o DecodeFrame(SubSeq(bytes, start, end - 1))]

\* The turns drain_frames takes, at most one for each byte.
Turns(bytes) ==
  LET turn[k \in 0..Len(bytes)] ==
        IF k = 0 THEN [at |-> 1, frames |-> <<>>] ELSE Drained(bytes, turn[k - 1])
  IN  turn

DrainFrames(bytes) ==
  LET last == Turns(bytes)[Len(bytes)]
  IN  [left |-> From(bytes, last.at), frames |-> last.frames]

\* Mutant of Queued: a sync request that finds its queue full displaces the oldest.
QueuedForOldest(boxes, f) ==
  IF f.kind = "syncRequest" /\ Len(boxes[f.kind]) >= SyncQueue
  THEN [boxes EXCEPT ![f.kind] = Append(Tail(@), f)]
  ELSE [boxes EXCEPT ![f.kind] = Append(@, f)]

\* The queue each frame goes to; a sync request only while its queue has room.
Queued(boxes, f) ==
  IF f.kind = "syncRequest" /\ Len(boxes[f.kind]) >= SyncQueue
  THEN boxes ELSE [boxes EXCEPT ![f.kind] = Append(@, f)]

\* A frame goes to its queue, or is dropped.
Collected(c, f) ==
  LET next == Queued(c.boxes, f)
  IN  [boxes |-> next, decoded |-> Append(c.decoded, f),
       refused |-> IF next = c.boxes THEN c.refused \cup {Len(c.decoded) + 1} ELSE c.refused]

\* The frames of one read go to their queues in order.
Routed(c, frames) ==
  LET after[k \in 0..Len(frames)] ==
        IF k = 0 THEN c ELSE Collected(after[k - 1], frames[k])
  IN  after

Route(c, frames) == Routed(c, frames)[Len(frames)]

-------------------------------------------------------------------------------
LineInit ==
  /\ commands = <<>> /\ sent = <<>> /\ air = <<>> /\ damage = 0 /\ faults = 0
  /\ heard = <<>> /\ pending = <<>> /\ decoded = <<>> /\ refused = {}
  /\ inboxes = [k \in Kinds |-> <<>>] /\ handed = inboxes

\* send_diagnostic, send_event_payload and send_sync_request: the counter they
\* share gives the frame its number, an oversized payload is refused (and costs
\* a number: here the frame is simply not sent).
SendFrame(kind, payload) ==
  LET f == [kind |-> kind, sequence |-> <<Len(sent) + Len(commands) + 1>>, payload |-> payload] IN
  /\ Len(sent) + Len(commands) < MaxFrames
  /\ Len(payload) <= MaxPayload
  /\ commands' = Append(commands, f)
  /\ UNCHANGED <<sent, air, damage, faults, heard, pending, inboxes, decoded, handed, refused>>

\* run_lora_io writes one command a turn.
WritePort ==
  LET f == Head(commands) IN
  /\ commands # <<>>
  /\ commands' = Tail(commands)
  /\ sent' = Append(sent, [frame |-> f, at |-> Len(heard) + Len(air) + 1, ok |-> TRUE])
  /\ air' = air \o EncodeFrame(f)
  /\ UNCHANGED <<damage, faults, heard, pending, inboxes, decoded, handed, refused>>

\* The last frame written is damaged at byte i of what is on the air.
Spoil(i, bytes) ==
  /\ faults < MaxFaults /\ air # <<>>
  /\ sent[Len(sent)].at > Len(heard)
  /\ faults' = faults + 1
  /\ sent' = [sent EXCEPT ![Len(sent)].ok = FALSE]
  /\ damage' = IF Len(heard) + i > damage THEN Len(heard) + i ELSE damage
  /\ air' = bytes
  /\ UNCHANGED <<commands, heard, pending, inboxes, decoded, handed, refused>>

RemoveByte(bytes, i) == SubSeq(bytes, 1, i - 1) \o From(bytes, i + 1)

LastFrameOnAir == {i \in 1..Len(air) : Len(heard) + i >= sent[Len(sent)].at}

Damage == \E i \in LastFrameOnAir, n \in Noise :
  air[i] # <<n>> /\ Spoil(i, [air EXCEPT ![i] = <<n>>])

LoseByte == \E i \in LastFrameOnAir : Spoil(i, RemoveByte(air, i))

\* run_lora_io reads what has arrived, n bytes of it, and drains the buffer.
ReadPort(n) ==
  LET got == IF n < Len(air) THEN n ELSE Len(air)
      drained == DrainFrames(pending \o SubSeq(air, 1, got))
      routed == Route([boxes |-> inboxes, decoded |-> decoded, refused |-> refused], drained.frames)
  IN  /\ air # <<>>
      /\ heard' = heard \o SubSeq(air, 1, got)
      /\ air' = From(air, got + 1)
      /\ pending' = drained.left
      /\ inboxes' = routed.boxes /\ decoded' = routed.decoded /\ refused' = routed.refused
      /\ UNCHANGED <<commands, sent, damage, faults, handed>>

\* poll_diagnostic_frames and poll_event_frames take all there is,
\* poll_sync_requests at most the number it is given, oldest first.
Poll(kind, most) ==
  LET box == inboxes[kind]
      n == IF kind # "syncRequest" \/ most > Len(box) THEN Len(box) ELSE most
  IN  /\ box # <<>>
      /\ handed' = [handed EXCEPT ![kind] = @ \o SubSeq(box, 1, n)]
      /\ inboxes' = [inboxes EXCEPT ![kind] = From(box, n + 1)]
      /\ UNCHANGED <<commands, sent, air, damage, faults, heard, pending, decoded, refused>>

LineNext ==
  \/ \E m \in Messages : SendFrame(m[1], m[2])
  \/ WritePort
  \/ Damage
  \/ LoseByte
  \/ \E n \in Chunks : ReadPort(n)
  \/ \E kind \in Kinds : Poll(kind, 1)

LineSpec == LineInit /\ [][LineNext]_lineVars

-------------------------------------------------------------------------------
(***************************************************************************)
(* Properties                                                              *)
(***************************************************************************)

\* What is known of a stream after the byte at place p: the place from which a frame may start,
\* and the frames so far.  Where a frame is not all there, none starts until it is.
Scanned(stream, p, r) ==
  CASE p < r.free \/ p \notin MagicAt(stream) -> r
    [] p >= r.free /\ p \in MagicAt(stream) /\ Whole(stream, p) ->
         [free |-> EndOf(stream, p),
          frames |-> r.frames \o DecodeFrame(SubSeq(stream, p, EndOf(stream, p) - 1))]
    [] OTHER -> [free |-> Len(stream) + 1, frames |-> r.frames]

Scan(stream) ==
  LET scan[p \in 0..Len(stream)] ==
        IF p = 0 THEN [free |-> 1, frames |-> <<>>] ELSE Scanned(stream, p, scan[p - 1])
  IN  scan

\* The frames the whole stream holds, read byte by byte, without a buffer and without reads.
Reading(stream) == Scan(stream)[Len(stream)].frames

Took(kind) == handed[kind] \o inboxes[kind]

\* The frames of a kind that were not dropped.
Kept(kind) == {i \in DOMAIN decoded : decoded[i].kind = kind /\ i \notin refused}

\* However the reads cut the stream, every queue has been given the stream's frames of its kind,
\* in order and once, but for the sync requests that found their queue full.
ReadsAsOneStream ==
  /\ decoded = Reading(heard)
  /\ \A i \in refused : decoded[i].kind = "syncRequest"
  /\ \A kind \in Kinds :
       /\ Len(Took(kind)) = Cardinality(Kept(kind))
       /\ \A i \in Kept(kind) : Took(kind)[Cardinality(Kept(kind) \cap 1..i)] = decoded[i]

\* Where a frame spells the magic, but at its start.
Misleads(f) == MagicAt(EncodeFrame(f)) # {1}

\* A damaged or shortened frame may swallow what follows it, as far as its length byte can reach
\* and no further: an intact frame that starts beyond that reach arrives (provided no frame up to
\* it spells the magic but at its start).
DamageIsBounded ==
  \A i \in 1..Len(sent) :
    LET s == sent[i] IN
    (/\ s.ok
     /\ damage # 0 => s.at >= damage + HeaderLen + MaxByte + CrcLen
     /\ \A j \in 1..i : ~ Misleads(sent[j].frame)
     /\ Len(heard) >= s.at + Len(EncodeFrame(s.frame)) - 1)
    => \/ \E k \in refused : decoded[k] = s.frame
       \/ \E k \in DOMAIN Took(s.frame.kind) : Took(s.frame.kind)[k] = s.frame

\* What a radio's queues hold is what its line carried, and what was sent but for the reach
\* of one fault.
LineIsFaithful == ReadsAsOneStream /\ DamageIsBounded
=============================================================================
