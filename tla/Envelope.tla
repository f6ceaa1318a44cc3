------------------------------- MODULE Envelope -------------------------------
(***************************************************************************)
(* The signed envelope of networking/protocol.rs: what a node signs, what  *)
(* another node reads from the bytes, and which of those it accepts.       *)
(*                                                                         *)
(* A body is its kind, the size of its collection, the length of the name  *)
(* a greeting gives and the fields it has that this build does not know.   *)
(* A node ID is the hash of one key: IdOf is injective.  A signature is    *)
(* what was signed and the key that did.                                   *)
(***************************************************************************)
EXTENDS Integers, FiniteSets

CONSTANTS
  Keys,                \* key pairs; the hash of key k is IdOf(k)
  ProtocolVersion,     \* PROTOCOL_VERSION
  MaxWatermarks,       \* MAX_WATERMARKS
  MaxEventsPerBatch,   \* MAX_EVENTS_PER_BATCH, the same as MAX_SYNC_BATCH
  MaxCapabilities,     \* 32 capabilities
  MaxName,             \* 64 characters of a node's name
  OwnName,             \* characters of the name a node of this build has
  MaxMessage,          \* MAX_MESSAGE_BYTES, in items of a collection
  Origins,             \* origins in the sender's log: the watermarks it lists
  Waiting              \* events a peer may lack

ASSUME EnvelopeAssumption ==
  /\ ProtocolVersion \in Nat /\ Origins \subseteq Nat /\ Waiting \subseteq Nat
  /\ MaxWatermarks \in Nat /\ MaxEventsPerBatch \in Nat \ {0}
  /\ MaxCapabilities \in Nat /\ MaxMessage \in Nat /\ MaxName \in Nat /\ OwnName \in Nat

\* A node's own greeting passes its own check: it names at most the two things
\* it can do, and a name that is eight characters made from the node ID.
ASSUME GreetingFits == 2 <= MaxCapabilities /\ OwnName <= MaxName

VARIABLES
  letter,      \* the envelope on its way, NoLetter before it is written
  original,    \* history: the envelope as it was signed
  arrived      \* "waiting", "accepted", "refused", or "unsent" (too large)

letterVars == <<letter, original, arrived>>

NoLetter == [version |-> 0]
IdOf(key) == <<"id of", key>>

BodyKinds ==
  {"HELLO", "PEER_INFO", "SYNC_REQUEST", "SYNC_RESPONSE", "EVENT_BATCH", "ACK",
   "LOCATION_HEARTBEAT", "PING", "PONG"}
Body(kind, n, name) == [kind |-> kind, items |-> n, name |-> name, unknown |-> {}]

\* A peer that is not trusted is told that it may enrol, and nothing else.
Capabilities(trusted) == IF trusted THEN 2 ELSE 1
Hello == Body("HELLO", Capabilities(TRUE), OwnName)
PeerInfos == {Body("PEER_INFO", Capabilities(trusted), OwnName) : trusted \in BOOLEAN}

\* A request names every origin in the log, its answer those the peer lacks.
Requests == {Body("SYNC_REQUEST", n, 0) : n \in Origins}
Responses == {Body("SYNC_RESPONSE", n, 0) : n \in Origins}

\* A batch holds at most MAX_SYNC_BATCH events and is not sent empty.
Batches ==
  {Body("EVENT_BATCH", IF n < MaxEventsPerBatch THEN n ELSE MaxEventsPerBatch, 0) :
     n \in Waiting \ {0}}

\* What has no collection.
Ack == Body("ACK", 0, 0)
Heartbeat == Body("LOCATION_HEARTBEAT", 0, 0)
Pong == Body("PONG", 0, 0)

\* What the sync engine of this build sends.
EngineBodies ==
  {Hello, Ack, Heartbeat, Pong} \cup PeerInfos \cup Requests \cup Responses \cup Batches

\* Another build also sends a ping and a kind that is new, and lets its
\* operator choose a name.
OtherBodies ==
  {Body("PING", 0, 0), Body("CHAT", 0, 0)}
  \cup {Body(kind, 2, n) : kind \in {"HELLO", "PEER_INFO"}, n \in {MaxName, MaxName + 1}}
  \cup {[body EXCEPT !.unknown = {"field"}] : body \in EngineBodies}

SigningBytes(version, id, node, key, body) == <<version, id, node, key, body>>

\* Envelope::create.
CreateEnvelope(key, version, body) ==
  [version |-> version, id |-> "uuid", node |-> IdOf(key), key |-> key, body |-> body,
   signature |-> [by |-> key,
                  over |-> SigningBytes(version, "uuid", IdOf(key), key, body)]]

\* from_slice: fields this build does not know are skipped, an unknown kind
\* is no envelope at all.
ReadBody(body) == [body EXCEPT !.unknown = {}]
Parses(body) == body.kind \in BodyKinds

\* Mutant of WithinBounds: a full batch is one too many.
WithinTighterBounds(body) ==
  CASE body.kind \in {"SYNC_REQUEST", "SYNC_RESPONSE"} -> body.items <= MaxWatermarks
    [] body.kind = "EVENT_BATCH" -> 0 < body.items /\ body.items < MaxEventsPerBatch
    [] body.kind \in {"HELLO", "PEER_INFO"} ->
         body.name <= MaxName /\ body.items <= MaxCapabilities
    [] OTHER -> TRUE

\* validate_body_bounds.
WithinBounds(body) ==
  CASE body.kind \in {"SYNC_REQUEST", "SYNC_RESPONSE"} -> body.items <= MaxWatermarks
    [] body.kind = "EVENT_BATCH" -> 0 < body.items /\ body.items <= MaxEventsPerBatch
    [] body.kind \in {"HELLO", "PEER_INFO"} ->
         body.name <= MaxName /\ body.items <= MaxCapabilities
    [] OTHER -> TRUE

\* Mutant of Validates: the node ID is taken from the envelope.
ValidatesAnyId(e) ==
  /\ e.version = ProtocolVersion
  /\ e.id = "uuid"
  /\ WithinBounds(e.body)
  /\ e.signature.by = e.key
  /\ e.signature.over = SigningBytes(e.version, e.id, e.node, e.key, e.body)

\* validate: the signature is checked over the body serialised again.
Validates(e) ==
  /\ e.version = ProtocolVersion
  /\ e.id = "uuid"
  /\ e.node = IdOf(e.key)
  /\ WithinBounds(e.body)
  /\ e.signature.by = e.key
  /\ e.signature.over = SigningBytes(e.version, e.id, e.node, e.key, e.body)

-------------------------------------------------------------------------------
EnvelopeInit ==
  letter = NoLetter /\ original = NoLetter /\ arrived = "waiting"

\* A node signs a body and encodes the envelope; one too large is not sent.
Post(key, version, body) ==
  LET e == CreateEnvelope(key, version, body) IN
  /\ letter = NoLetter
  /\ letter' = e /\ original' = e
  /\ arrived' = IF body.items > MaxMessage THEN "unsent" ELSE arrived

\* Whoever carries or relays an envelope changes one part of it, or puts its
\* own name and key on it.
Alter ==
  /\ letter # NoLetter /\ arrived = "waiting" /\ letter = original
  /\ \/ letter' = [letter EXCEPT !.body.items = @ + 1]
     \/ letter' = [letter EXCEPT !.id = "other"]
     \/ \E k \in Keys \ {letter.key} :
          \/ letter' = [letter EXCEPT !.node = IdOf(k)]
          \/ letter' = [letter EXCEPT !.key = k, !.node = IdOf(k)]
          \/ \* k signs in its own key what claims to come from the other node
             LET over == SigningBytes(letter.version, letter.id, letter.node, k, letter.body)
             IN  letter' = [letter EXCEPT !.key = k, !.signature = [by |-> k, over |-> over]]
  /\ UNCHANGED <<original, arrived>>

\* Envelope::decode.
DecodeEnvelope ==
  LET e == [letter EXCEPT !.body = ReadBody(@)] IN
  /\ letter # NoLetter /\ arrived = "waiting"
  /\ letter' = e
  /\ arrived' = IF Parses(e.body) /\ e.body.items <= MaxMessage /\ Validates(e)
                THEN "accepted" ELSE "refused"
  /\ UNCHANGED original

\* A node of this build, another build of the same protocol version, and a
\* build of another version.
EnvelopeNext ==
  \/ \E k \in Keys, body \in EngineBodies \cup OtherBodies : Post(k, ProtocolVersion, body)
  \/ \E k \in Keys, body \in EngineBodies : Post(k, ProtocolVersion + 1, body)
  \/ Alter
  \/ DecodeEnvelope

EnvelopeSpec == EnvelopeInit /\ [][EnvelopeNext]_letterVars

-------------------------------------------------------------------------------
(***************************************************************************)
(* Properties                                                              *)
(***************************************************************************)

\* What is accepted is word for word what the named node signed: no carrier
\* can alter it or pass under another node's name, and nothing of a body this
\* build cannot read is dropped on the way in.
SpeaksForItsSender ==
  arrived = "accepted" =>
    /\ letter.node = IdOf(letter.signature.by)
    /\ letter = original

\* Whatever the engine of this build sends, another node of this build reads,
\* so the two sides of every limit agree: what is refused unaltered is another
\* build's (of a kind that is new, with a field that is, or with a name that is
\* too long), or it names more than MAX_WATERMARKS origins.
MadeHereIsUnderstood ==
  arrived = "refused" /\ letter.version = ProtocolVersion =>
    \/ letter # original
    \/ /\ letter.body \notin EngineBodies
       /\ letter.body.kind \notin BodyKinds \/ letter.body.name > MaxName
    \/ /\ letter.body.kind \in {"SYNC_REQUEST", "SYNC_RESPONSE"}
       /\ letter.body.items > MaxWatermarks

\* An envelope read is its sender's, and one made here can be read.
EnvelopeIsSound == SpeaksForItsSender /\ MadeHereIsUnderstood
=============================================================================
