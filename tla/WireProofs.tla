------------------------------ MODULE WireProofs ------------------------------
(***************************************************************************)
(* The parts that read what another node, a file or the platform gave, for *)
(* every value of their limits: the age of a peer's position, the signed   *)
(* envelope and the request on the air, the map, the node's own position   *)
(* and the model server's reply.                                           *)
(*                                                                         *)
(* Each part has an invariant of its own that says where its steps are:    *)
(* what a carrier may have made of a frame, what the reader has left of a  *)
(* reply, when the last position a node holds must have been sent.         *)
(***************************************************************************)
EXTENDS WireParts, OwnPosition, LoopbackHttp, IncidentRecord, SequenceTheorems, FiniteSetTheorems,
  WellFoundedInduction, TLAPS

-----------------------------------------------------------------------------
(* Sets of integers *)

\* A set of integers with a lower bound has a least member, ...
LEMMA LeastInteger ==
  ASSUME NEW S \in SUBSET Int, S # {}, NEW bound \in Int, \A x \in S : bound <= x
  PROVE  \E x \in S : \A y \in S : x <= y
<1> DEFINE T == {x - bound : x \in S}
<1>1. T \in SUBSET Nat /\ T # {}
  <2>1. \A x \in S : x \in Int /\ bound <= x
    OBVIOUS
  <2>2. \A y \in T : y \in Nat
    BY <2>1
  <2> QED
    BY <2>2
<1>2. IsWellFoundedOn(OpToRel(<, Nat), Nat)
  BY NatLessThanWellFounded
<1>3. PICK m \in T : \A y \in T : ~ (<<y, m>> \in OpToRel(<, Nat))
  <2> HIDE DEF T
  <2> QED
    BY <1>1, <1>2, WFMin
<1>4. \A y \in T : ~ (y < m)
  BY <1>1, <1>3 DEF OpToRel
<1>5. PICK x \in S : m = x - bound
  BY <1>3
<1>6. \A y \in S : y - bound \in T
  OBVIOUS
<1> HIDE DEF T
<1>7. \A y \in S : x <= y
  BY <1>1, <1>4, <1>5, <1>6
<1> QED
  BY <1>7

\* ... and one with an upper bound a greatest.
LEMMA GreatestInteger ==
  ASSUME NEW S \in SUBSET Int, S # {}, NEW bound \in Int, \A x \in S : x <= bound
  PROVE  \E x \in S : \A y \in S : y <= x
<1> DEFINE T == {-x : x \in S}
<1>1. T \in SUBSET Int /\ T # {} /\ -bound \in Int /\ \A y \in T : -bound <= y
  <2>1. \A x \in S : x \in Int /\ x <= bound
    OBVIOUS
  <2>2. \A y \in T : y \in Int /\ -bound <= y
    BY <2>1
  <2>3. T # {}
    <3>1. PICK x \in S : TRUE
      OBVIOUS
    <3>2. -x \in T
      OBVIOUS
    <3> QED
      BY <3>2
  <2>4. -bound \in Int
    OBVIOUS
  <2> HIDE DEF T
  <2> QED
    BY <2>2, <2>3, <2>4
<1>2. PICK m \in T : \A y \in T : m <= y
  <2> HIDE DEF T
  <2> QED
    BY <1>1, LeastInteger
<1>3. PICK x \in S : m = -x
  BY <1>2
<1>4. \A y \in S : -y \in T
  OBVIOUS
<1> HIDE DEF T
<1>5. \A y \in S : y <= x
  BY <1>1, <1>2, <1>3, <1>4
<1> QED
  BY <1>5

\* The members of a set of numbers that are below one.
Below(S, s) == {t \in S : t < s}

\* Of a finite set of numbers, those with fewer than m below them are the least m, or all.
LEMMA LeastMany ==
  ASSUME NEW n \in Nat, NEW S \in SUBSET (1..n), NEW m \in Nat \ {0}, NEW A \in SUBSET S,
         \A s \in S : s \in A <=> Cardinality(Below(S, s)) < m
  PROVE  /\ Cardinality(A) \in Nat /\ Cardinality(A) <= m
         /\ \A s \in S \ A : (\A t \in A : t < s) /\ Cardinality(A) = m
         /\ \A s \in S : (\A t \in S : s <= t) => s \in A
<1>1. IsFiniteSet(S) /\ \A s \in S : s \in Nat /\ s <= n
  <2>1. IsFiniteSet(1..n)
    BY FS_Interval
  <2>2. IsFiniteSet(S)
    BY <2>1, FS_Subset
  <2>3. \A s \in S : s \in Nat /\ s <= n
    OBVIOUS
  <2> QED
    BY <2>2, <2>3
<1>2. IsFiniteSet(A) /\ Cardinality(A) \in Nat
  BY <1>1, FS_Subset, FS_CardinalityType
<1>3. ASSUME NEW s PROVE IsFiniteSet(Below(S, s)) /\ Cardinality(Below(S, s)) \in Nat
  <2>1. Below(S, s) \in SUBSET S
    BY DEF Below
  <2> QED
    BY <1>1, <2>1, FS_Subset, FS_CardinalityType
<1>4. ASSUME NEW s \in S, NEW u \in S, s <= u
      PROVE  Cardinality(Below(S, s)) <= Cardinality(Below(S, u))
  <2>1. \A t \in S : t < s => t < u
    BY <1>1, <1>4
  <2>2. Below(S, s) \in SUBSET Below(S, u)
    BY <2>1 DEF Below
  <2> QED
    BY <1>3, <2>2, FS_Subset
<1>5. ASSUME NEW t \in A, NEW s \in S \ A PROVE t < s
  <2>1. t \in S /\ t \in Nat /\ s \in Nat
    BY <1>1
  <2>2. Cardinality(Below(S, t)) < m /\ ~(Cardinality(Below(S, s)) < m)
    BY <2>1
  <2>3. Cardinality(Below(S, t)) \in Nat /\ Cardinality(Below(S, s)) \in Nat
    BY <1>3
  <2>4. s <= t => Cardinality(Below(S, s)) <= Cardinality(Below(S, t))
    BY <1>4, <2>1
  <2> QED
    BY <2>1, <2>2, <2>3, <2>4
<1>6. Cardinality(A) <= m
  <2>1. CASE A = {}
    <3>1. Cardinality(A) = 0
      BY <2>1, FS_EmptySet
    <3> QED
      BY <3>1
  <2>2. CASE A # {}
    <3>1. A \in SUBSET Int /\ n \in Int /\ \A x \in A : x <= n
      BY <1>1
    <3>2. PICK x \in A : \A y \in A : y <= x
      BY <2>2, <3>1, GreatestInteger
    <3>3. A \ {x} \in SUBSET Below(S, x)
      <4>1. \A y \in A \ {x} : y \in S /\ y < x
        BY <1>1, <3>2
      <4> QED
        BY <4>1 DEF Below
    <3>4. Cardinality(A \ {x}) <= Cardinality(Below(S, x)) /\ Cardinality(Below(S, x)) \in Nat
      BY <1>3, <3>3, FS_Subset
    <3>5. Cardinality(A \ {x}) = Cardinality(A) - 1
      BY <1>2, <3>2, FS_RemoveElement
    <3>6. Cardinality(Below(S, x)) < m
      BY <3>2
    <3> QED
      BY <1>2, <3>4, <3>5, <3>6
  <2> QED
    BY <2>1, <2>2
<1>7. ASSUME NEW s \in S \ A PROVE Cardinality(A) = m
  <2>1. S \ A \in SUBSET Int /\ S \ A # {} /\ 0 \in Int /\ \A x \in S \ A : 0 <= x
    BY <1>1
  <2>2. PICK u \in S \ A : \A y \in S \ A : u <= y
    BY <2>1, LeastInteger
  <2>3. Below(S, u) \in SUBSET A
    <3>1. \A t \in S : t < u => t \in A
      BY <1>1, <2>2
    <3> QED
      BY <3>1 DEF Below
  <2>4. Cardinality(Below(S, u)) <= Cardinality(A) /\ Cardinality(Below(S, u)) \in Nat
    BY <1>2, <1>3, <2>3, FS_Subset
  <2>5. ~(Cardinality(Below(S, u)) < m)
    BY <2>2
  <2> QED
    BY <1>2, <1>6, <2>4, <2>5
<1>8. ASSUME NEW s \in S, \A t \in S : s <= t PROVE s \in A
  <2>1. \A t \in S : ~(t < s)
    BY <1>1, <1>8
  <2>2. Below(S, s) = {}
    BY <2>1 DEF Below
  <2>3. Cardinality(Below(S, s)) = 0
    BY <2>2, FS_EmptySet
  <2> QED
    BY <2>3
<1> QED
  BY <1>2, <1>5, <1>6, <1>7, <1>8

-----------------------------------------------------------------------------
(* The age of a position *)

\* The latest a position can have been received, of a peer that goes on and has missed no
\* heartbeat since, or one: what it slept and looked for a fix adds up.
AgeIsAccounted ==
  held # 0 /\ ~ended =>
    /\ peer # "gone"
    /\ missed = 0 => age <= IF peer = "asleep" THEN Interval - left ELSE Interval + left
    /\ missed = 1 =>
         age <= IF peer = "asleep" THEN 2 * Interval + MaxFix - left
                                   ELSE 2 * Interval + MaxFix + left

\* Sleeping and looking take the time they may take; a peer that went on has
\* counted on from what is held of it.
LoopIsTimed ==
  /\ peer = "asleep" => left \in 0..Interval
  /\ peer = "fixing" => left \in 0..MaxFix
  /\ peer = "gone" => left = 0
  /\ ~ended => held <= number

\* What is known of a peer's loop and of what is held of it, whenever it stops.
AgeInv == AgeTypeOK /\ LoopIsTimed /\ AgeIsAccounted

\* The durations and the bounds are numbers.
LEMMA AgeBounds ==
  /\ Interval \in Nat \ {0} /\ ExpiresAfter \in Nat \ {0} /\ CurrentFor \in Nat
  /\ MaxFix \in Nat /\ MaxNumber \in Nat /\ MaxEnds \in Nat
  BY AgeAssumption

\* Nothing is held of a peer that has not spoken.
LEMMA AgeStarts == AgeInit => AgeInv
<1> SUFFICES ASSUME AgeInit PROVE AgeInv
  OBVIOUS
<1>1. AgeTypeOK
  <2>1. ended \in BOOLEAN
    BY DEF AgeInit
  <2>2. left \in 0..Interval \cup 0..MaxFix /\ age \in 0..ExpiresAfter /\ missed \in 0..2
    BY AgeBounds DEF AgeInit
  <2>3. number \in 0..MaxNumber /\ held \in 0..MaxNumber /\ ends \in 0..MaxEnds
    BY AgeBounds DEF AgeInit
  <2> QED
    BY <2>1, <2>2, <2>3 DEF AgeInit, AgeTypeOK
<1>2. LoopIsTimed /\ AgeIsAccounted
  BY AgeBounds DEF AgeInit, LoopIsTimed, AgeIsAccounted
<1> QED
  BY <1>1, <1>2 DEF AgeInv

\* Neither the peer's loop nor time breaks the account.
LEMMA AgeStays == AgeInv /\ [AgeNext]_ageVars => AgeInv'
<1> SUFFICES ASSUME AgeInv, [AgeNext]_ageVars PROVE AgeInv'
  OBVIOUS
<1> USE AgeBounds DEF AgeInv, AgeTypeOK, LoopIsTimed, AgeIsAccounted
<1>1. CASE Tick
  BY <1>1 DEF Tick
<1>2. CASE Wake
  BY <1>2 DEF Wake
<1>3. CASE FixFails
  BY <1>3 DEF FixFails, Miss, SleepFor
<1>4. CASE PublishLost
  BY <1>4 DEF PublishLost, Miss, SleepFor
<1>5. CASE PublishHeard
  <2>1. peer' = "asleep" /\ left' = Interval /\ number' = number + 1 /\ number' \in 0..MaxNumber
        /\ ends' = ends
    BY <1>5 DEF PublishHeard, SleepFor
  <2>2. CASE number' > held
    <3>1. held' = number' /\ age' = 0 /\ missed' = 0 /\ ended' = FALSE
      BY <1>5, <2>2 DEF PublishHeard
    <3>2. ended' \in BOOLEAN
      BY <3>1
    <3>3. held' = number' /\ age' = 0 /\ missed' = 0
      BY <3>1
    <3> QED
      BY <2>1, <3>2, <3>3
  <2>3. CASE ~(number' > held)
    <3>1. UNCHANGED <<held, age, missed, ended>> /\ ended
      BY <1>5, <2>1, <2>3 DEF PublishHeard
    <3> QED
      BY <2>1, <3>1
  <2> QED
    BY <2>2, <2>3
<1>6. CASE PeerEnds
  BY <1>6 DEF PeerEnds
<1>7. CASE PeerStarts
  BY <1>7 DEF PeerStarts
<1>8. CASE UNCHANGED ageVars
  BY <1>8 DEF ageVars
<1> QED
  BY <1>1, <1>2, <1>3, <1>4, <1>5, <1>6, <1>7, <1>8 DEF AgeNext

\* A position that expired is one its peer missed more than a heartbeat of.
LEMMA AgeTells == AgeInv => AgeTypeOK /\ ExpiredMeansMissed
  BY AgeBounds, ExpiryOutlastsTwo
  DEF AgeInv, AgeTypeOK, LoopIsTimed, AgeIsAccounted, ExpiredMeansMissed, Freshness

-----------------------------------------------------------------------------
(* What is signed: the envelope *)

\* The bodies a build of this protocol posts, of this build or another.
PostedBodies == EngineBodies \cup OtherBodies

\* What a carrier made of an envelope.
Tampered(e, o) ==
  \/ e = [o EXCEPT !.body.items = @ + 1]
  \/ e = [o EXCEPT !.id = "other"]
  \/ \E k \in Keys \ {o.key} :
       \/ e = [o EXCEPT !.node = IdOf(k)]
       \/ e = [o EXCEPT !.key = k, !.node = IdOf(k)]
       \/ e = [o EXCEPT !.key = k,
                 !.signature = [by |-> k,
                                over |-> SigningBytes(o.version, o.id, o.node, k, o.body)]]

\* The envelope as it is read.
AsRead(e) == [e EXCEPT !.body = ReadBody(@)]

\* An envelope is as it was signed or tampered with, once; and it is refused or accepted as
\* it is read.
EnvelopeInv ==
  \/ letter = NoLetter /\ original = NoLetter /\ arrived = "waiting"
  \/ \E k \in Keys, v \in {ProtocolVersion, ProtocolVersion + 1}, b \in PostedBodies :
       /\ original = CreateEnvelope(k, v, b) /\ "key" \in DOMAIN letter
       /\ \/ arrived = "unsent" /\ letter = original
          \/ /\ arrived = "waiting" /\ b.items <= MaxMessage
             /\ letter = original \/ Tampered(letter, original)
          \/ /\ arrived \in {"accepted", "refused"} /\ b.items <= MaxMessage
             /\ \E e : /\ e = original \/ Tampered(e, original)
                       /\ letter = AsRead(e)
                       /\ arrived = "accepted" <=>
                            Parses(letter.body) /\ letter.body.items <= MaxMessage
                              /\ Validates(letter)

\* A body of this build is a kind it knows, within what it checks of a name.
LEMMA EngineFields ==
  ASSUME NEW b \in EngineBodies
  PROVE  /\ b = Body(b.kind, b.items, b.name) /\ b.kind \in BodyKinds
         /\ b.items \in Nat /\ b.name \in Nat /\ b.name <= MaxName
         /\ b.kind \in {"HELLO", "PEER_INFO"} => b.items <= MaxCapabilities
         /\ b.kind = "EVENT_BATCH" => 0 < b.items /\ b.items <= MaxEventsPerBatch
<1>1. CASE b \in {Hello} \cup PeerInfos
  BY <1>1, EnvelopeAssumption, GreetingFits DEF Hello, PeerInfos, Capabilities, Body, BodyKinds
<1>2. CASE b \in Requests \cup Responses
  BY <1>2, EnvelopeAssumption DEF Requests, Responses, Body, BodyKinds
<1>3. CASE b \in Batches
  BY <1>3, EnvelopeAssumption DEF Batches, Body, BodyKinds
<1>4. CASE b \in {Ack, Heartbeat, Pong}
  BY <1>4, EnvelopeAssumption DEF Ack, Heartbeat, Pong, Body, BodyKinds
<1> QED
  BY <1>1, <1>2, <1>3, <1>4 DEF EngineBodies

\* A posted body has a number of items, and one that the signature covers and that this
\* build could not have written breaks no limit but that on a name.
LEMMA BodyFields ==
  ASSUME NEW b \in PostedBodies
  PROVE  /\ b = [kind |-> b.kind, items |-> b.items, name |-> b.name, unknown |-> b.unknown]
         /\ b.items \in Nat /\ b.name \in Nat
         /\ ReadBody(b) = [kind |-> b.kind, items |-> b.items, name |-> b.name, unknown |-> {}]
         /\ b.unknown = {} /\ b \notin EngineBodies =>
              \/ b.kind \notin BodyKinds
              \/ b.kind = "PING"
              \/ b.kind \in {"HELLO", "PEER_INFO"} /\ b.items <= MaxCapabilities
<1>1. CASE b \in EngineBodies
  BY <1>1, EngineFields DEF Body, ReadBody
<1>2. ASSUME NEW c \in EngineBodies, b = [c EXCEPT !.unknown = {"field"}]
      PROVE  /\ b = [kind |-> b.kind, items |-> b.items, name |-> b.name, unknown |-> b.unknown]
             /\ b.items \in Nat /\ b.name \in Nat /\ b.unknown # {}
  BY <1>2, EngineFields DEF Body
<1>3. ASSUME NEW kind, NEW items \in Nat, NEW n \in Nat, b = Body(kind, items, n),
             \/ kind \in {"PING", "CHAT"}
             \/ kind \in {"HELLO", "PEER_INFO"} /\ items <= MaxCapabilities
      PROVE  /\ b = [kind |-> b.kind, items |-> b.items, name |-> b.name, unknown |-> b.unknown]
             /\ b.items \in Nat /\ b.name \in Nat
             /\ \/ b.kind \notin BodyKinds
                \/ b.kind = "PING"
                \/ b.kind \in {"HELLO", "PEER_INFO"} /\ b.items <= MaxCapabilities
  BY <1>3 DEF Body, BodyKinds
<1>4. b \in EngineBodies \/ b \in OtherBodies
  BY DEF PostedBodies
<1>5. 0 \in Nat /\ 2 \in Nat /\ 2 <= MaxCapabilities /\ MaxName \in Nat /\ MaxName + 1 \in Nat
  BY GreetingFits, EnvelopeAssumption
<1>6. b \in OtherBodies =>
        \/ \E c \in EngineBodies : b = [c EXCEPT !.unknown = {"field"}]
        \/ b = Body("PING", 0, 0) \/ b = Body("CHAT", 0, 0)
        \/ \E kind \in {"HELLO", "PEER_INFO"}, n \in {MaxName, MaxName + 1} : b = Body(kind, 2, n)
  BY DEF OtherBodies
<1>7. ASSUME b = [kind |-> b.kind, items |-> b.items, name |-> b.name, unknown |-> b.unknown]
      PROVE  ReadBody(b) = [kind |-> b.kind, items |-> b.items, name |-> b.name, unknown |-> {}]
  BY <1>7 DEF ReadBody
<1> QED
  BY <1>1, <1>2, <1>3, <1>4, <1>5, <1>6, <1>7

\* The names of two keys differ.
LEMMA DifferentIds == \A k, other : IdOf(k) = IdOf(other) => k = other
  BY DEF IdOf

\* Whoever carried an envelope and changed it, its reader does not take it, and can tell
\* it from what was signed.
LEMMA TamperingShows ==
  ASSUME NEW k \in Keys, NEW v, NEW b \in PostedBodies, NEW o, NEW e,
         o = CreateEnvelope(k, v, b), Tampered(e, o)
  PROVE  ~Validates(AsRead(e)) /\ AsRead(e) # o
<1>1. /\ b = [kind |-> b.kind, items |-> b.items, name |-> b.name, unknown |-> b.unknown]
      /\ b.items \in Nat
  BY BodyFields
<1> DEFINE signed == [by |-> k, over |-> SigningBytes(v, "uuid", IdOf(k), k, b)]
<1>2. o = [version |-> v, id |-> "uuid", node |-> IdOf(k), key |-> k, body |-> b,
           signature |-> signed]
  BY DEF CreateEnvelope
<1> HIDE DEF signed
<1>3. signed.by = k /\ signed.over = <<v, "uuid", IdOf(k), k, b>>
  BY DEF signed, SigningBytes
<1>4. CASE e = [o EXCEPT !.body.items = @ + 1]
  <2>1. e = [version |-> v, id |-> "uuid", node |-> IdOf(k), key |-> k,
             body |-> [kind |-> b.kind, items |-> b.items + 1, name |-> b.name,
                       unknown |-> b.unknown],
             signature |-> signed]
    BY <1>1, <1>2, <1>4
  <2>2. AsRead(e) = [version |-> v, id |-> "uuid", node |-> IdOf(k), key |-> k,
                     body |-> [kind |-> b.kind, items |-> b.items + 1, name |-> b.name,
                               unknown |-> {}],
                     signature |-> signed]
    BY <2>1 DEF AsRead, ReadBody
  <2>3. [kind |-> b.kind, items |-> b.items + 1, name |-> b.name, unknown |-> {}] # b
    BY <1>1
  <2>4. AsRead(e).body # b /\ AsRead(e).signature = signed
    BY <2>2, <2>3
  <2>5. AsRead(e) # o
    BY <1>2, <2>4
  <2>6. AsRead(e).signature.over[5] # AsRead(e).body
    BY <1>3, <2>4
  <2> QED
    BY <2>5, <2>6 DEF Validates, SigningBytes
<1>5. CASE e = [o EXCEPT !.id = "other"]
  <2>1. AsRead(e).id = "other" /\ o.id = "uuid"
    BY <1>2, <1>5 DEF AsRead
  <2> QED
    BY <2>1 DEF Validates
<1>6. ASSUME NEW other \in Keys \ {o.key}, e = [o EXCEPT !.node = IdOf(other)]
      PROVE  ~Validates(AsRead(e)) /\ AsRead(e) # o
  <2>1. AsRead(e).node = IdOf(other) /\ AsRead(e).key = k /\ o.node = IdOf(k) /\ other # k
    BY <1>2, <1>6 DEF AsRead
  <2> QED
    BY <2>1, DifferentIds DEF Validates
<1>7. ASSUME NEW other \in Keys \ {o.key}, e = [o EXCEPT !.key = other, !.node = IdOf(other)]
      PROVE  ~Validates(AsRead(e)) /\ AsRead(e) # o
  <2>1. AsRead(e).key = other /\ AsRead(e).signature = signed /\ o.key = k /\ other # k
    BY <1>2, <1>7 DEF AsRead
  <2> QED
    BY <1>3, <2>1 DEF Validates
<1>8. ASSUME NEW other \in Keys \ {o.key},
             e = [o EXCEPT !.key = other,
                    !.signature = [by |-> other,
                                   over |-> SigningBytes(o.version, o.id, o.node, other, o.body)]]
      PROVE  ~Validates(AsRead(e)) /\ AsRead(e) # o
  <2>1. AsRead(e).key = other /\ AsRead(e).node = IdOf(k) /\ o.key = k /\ other # k
    BY <1>2, <1>8 DEF AsRead
  <2> QED
    BY <2>1, DifferentIds DEF Validates
<1> QED
  BY <1>4, <1>5, <1>6, <1>7, <1>8 DEF Tampered

\* An envelope that was not tampered with is read as it was signed, but for a field the
\* signature then does not cover.
LEMMA ReadAsSigned ==
  ASSUME NEW k \in Keys, NEW v, NEW b \in PostedBodies, NEW o, o = CreateEnvelope(k, v, b)
  PROVE  /\ AsRead(o) = o <=> b.unknown = {}
         /\ Validates(AsRead(o)) <=>
              v = ProtocolVersion /\ b.unknown = {} /\ WithinBounds(b)
         /\ AsRead(o).body.kind = b.kind /\ AsRead(o).body.items = b.items
<1>1. /\ b = [kind |-> b.kind, items |-> b.items, name |-> b.name, unknown |-> b.unknown]
      /\ ReadBody(b) = [kind |-> b.kind, items |-> b.items, name |-> b.name, unknown |-> {}]
  BY BodyFields
<1>2. o = [version |-> v, id |-> "uuid", node |-> IdOf(k), key |-> k, body |-> b,
           signature |-> [by |-> k, over |-> SigningBytes(v, "uuid", IdOf(k), k, b)]]
  BY DEF CreateEnvelope
<1>3. AsRead(o) = [o EXCEPT !.body = ReadBody(b)]
  BY <1>2 DEF AsRead
<1>4. ReadBody(b) = b <=> b.unknown = {}
  BY <1>1
<1>5. AsRead(o) = o <=> ReadBody(b) = b
  BY <1>2, <1>3
<1>6. Validates(AsRead(o)) <=> v = ProtocolVersion /\ ReadBody(b) = b /\ WithinBounds(ReadBody(b))
  <2>1. AsRead(o) = [version |-> v, id |-> "uuid", node |-> IdOf(k), key |-> k,
                     body |-> ReadBody(b),
                     signature |-> [by |-> k, over |-> SigningBytes(v, "uuid", IdOf(k), k, b)]]
    BY <1>2, <1>3
  <2>2. SigningBytes(v, "uuid", IdOf(k), k, b) = SigningBytes(v, "uuid", IdOf(k), k, ReadBody(b))
          <=> ReadBody(b) = b
    BY DEF SigningBytes
  <2> HIDE DEF SigningBytes
  <2> QED
    BY <2>1, <2>2 DEF Validates
<1>7. WithinBounds(ReadBody(b)) <=> WithinBounds(b)
  BY <1>1 DEF WithinBounds
<1>8. AsRead(o).body = ReadBody(b)
  BY <1>2, <1>3
<1> QED
  BY <1>1, <1>4, <1>5, <1>6, <1>7, <1>8

\* No envelope is none.
LEMMA NotYetWritten == "key" \notin DOMAIN NoLetter
  BY DEF NoLetter

\* Before anything is written nothing is claimed.
LEMMA EnvelopeStarts == EnvelopeInit => EnvelopeInv
  BY DEF EnvelopeInit, EnvelopeInv

\* No step of a sender, a carrier or a reader breaks the invariant.
LEMMA EnvelopeStays == EnvelopeInv /\ [EnvelopeNext]_letterVars => EnvelopeInv'
<1> SUFFICES ASSUME EnvelopeInv, [EnvelopeNext]_letterVars PROVE EnvelopeInv'
  OBVIOUS
<1>1. ASSUME NEW k \in Keys, NEW v \in {ProtocolVersion, ProtocolVersion + 1},
             NEW b \in PostedBodies, Post(k, v, b)
      PROVE  EnvelopeInv'
  <2>1. letter' = CreateEnvelope(k, v, b) /\ original' = CreateEnvelope(k, v, b)
    BY <1>1 DEF Post
  <2>2. arrived = "waiting"
    BY <1>1, NotYetWritten DEF Post, EnvelopeInv
  <2>4. arrived' = IF b.items > MaxMessage THEN "unsent" ELSE "waiting"
    BY <1>1, <2>2 DEF Post
  <2>5. "key" \in DOMAIN letter'
    BY <2>1 DEF CreateEnvelope
  <2>3. b.items \in Nat /\ MaxMessage \in Nat
    BY BodyFields, EnvelopeAssumption
  <2> QED
    BY <2>1, <2>3, <2>4, <2>5 DEF EnvelopeInv
<1>2. CASE Alter
  <2>1. letter # NoLetter /\ arrived = "waiting" /\ letter = original
        /\ original' = original /\ arrived' = arrived
    BY <1>2 DEF Alter
  <2>2. PICK k \in Keys, v \in {ProtocolVersion, ProtocolVersion + 1}, b \in PostedBodies :
          original = CreateEnvelope(k, v, b) /\ b.items <= MaxMessage
    BY <2>1 DEF EnvelopeInv
  <2>3. Tampered(letter', original)
    BY <1>2, <2>1 DEF Alter, Tampered
  <2>4. "key" \in DOMAIN letter'
    <3>1. DOMAIN letter' = DOMAIN original
      BY <2>3 DEF Tampered
    <3> QED
      BY <2>2, <3>1 DEF CreateEnvelope
  <2> QED
    BY <2>1, <2>2, <2>3, <2>4 DEF EnvelopeInv
<1>3. CASE DecodeEnvelope
  <2>1. /\ letter # NoLetter /\ arrived = "waiting" /\ letter' = AsRead(letter)
        /\ original' = original
        /\ arrived' = IF Parses(letter'.body) /\ letter'.body.items <= MaxMessage
                           /\ Validates(letter')
                      THEN "accepted" ELSE "refused"
    BY <1>3 DEF DecodeEnvelope, AsRead
  <2>2. PICK k \in Keys, v \in {ProtocolVersion, ProtocolVersion + 1}, b \in PostedBodies :
          /\ original = CreateEnvelope(k, v, b) /\ b.items <= MaxMessage
          /\ letter = original \/ Tampered(letter, original)
    BY <2>1 DEF EnvelopeInv
  <2>3. "key" \in DOMAIN letter'
    BY <2>1 DEF EnvelopeInv, AsRead
  <2> QED
    BY <2>1, <2>2, <2>3 DEF EnvelopeInv
<1>4. CASE UNCHANGED letterVars
  BY <1>4 DEF letterVars, EnvelopeInv
<1>5. ASSUME NEW k \in Keys, NEW b \in PostedBodies,
             Post(k, ProtocolVersion, b) \/ Post(k, ProtocolVersion + 1, b)
      PROVE  EnvelopeInv'
  BY <1>1, <1>5
<1>6. EngineBodies \in SUBSET PostedBodies /\ EngineBodies \cup OtherBodies = PostedBodies
  BY DEF PostedBodies
<1> QED
  BY <1>2, <1>3, <1>4, <1>5, <1>6, Zenon DEF EnvelopeNext

\* What this build posts is within the bounds it checks, but for the number of origins.
LEMMA EngineWithinBounds ==
  ASSUME NEW b \in EngineBodies
  PROVE  \/ WithinBounds(b)
         \/ b.kind \in {"SYNC_REQUEST", "SYNC_RESPONSE"} /\ b.items > MaxWatermarks
<1>1. /\ b.kind \in BodyKinds /\ b.items \in Nat /\ MaxWatermarks \in Nat /\ b.name <= MaxName
      /\ b.kind \in {"HELLO", "PEER_INFO"} => b.items <= MaxCapabilities
      /\ b.kind = "EVENT_BATCH" => 0 < b.items /\ b.items <= MaxEventsPerBatch
  BY EngineFields, EnvelopeAssumption
<1> QED
  BY <1>1 DEF WithinBounds, BodyKinds

\* The invariant says what a reader may conclude.
LEMMA EnvelopeTells == EnvelopeInv => EnvelopeIsSound
<1> SUFFICES ASSUME EnvelopeInv PROVE SpeaksForItsSender /\ MadeHereIsUnderstood
  BY DEF EnvelopeIsSound
<1>1. CASE arrived \notin {"accepted", "refused"}
  BY <1>1 DEF SpeaksForItsSender, MadeHereIsUnderstood
<1>2. CASE arrived \in {"accepted", "refused"}
  <2>1. PICK k \in Keys, v \in {ProtocolVersion, ProtocolVersion + 1}, b \in PostedBodies :
          /\ original = CreateEnvelope(k, v, b) /\ b.items <= MaxMessage
          /\ \E e : /\ e = original \/ Tampered(e, original)
                    /\ letter = AsRead(e)
                    /\ arrived = "accepted" <=>
                         Parses(letter.body) /\ letter.body.items <= MaxMessage
                           /\ Validates(letter)
    BY <1>2 DEF EnvelopeInv
  <2>2. PICK e : /\ e = original \/ Tampered(e, original)
                 /\ letter = AsRead(e)
                 /\ arrived = "accepted" <=>
                      Parses(letter.body) /\ letter.body.items <= MaxMessage /\ Validates(letter)
    BY <2>1
  <2>3. CASE Tampered(e, original)
    <3>1. ~Validates(letter) /\ letter # original
      BY <2>1, <2>2, <2>3, TamperingShows
    <3> QED
      BY <2>2, <3>1 DEF SpeaksForItsSender, MadeHereIsUnderstood
  <2>4. CASE e = original
    <3>1. /\ letter = original <=> b.unknown = {}
          /\ Validates(letter) <=> v = ProtocolVersion /\ b.unknown = {} /\ WithinBounds(b)
          /\ letter.body.kind = b.kind /\ letter.body.items = b.items
      BY <2>1, <2>2, <2>4, ReadAsSigned
    <3>2. /\ original.node = IdOf(k) /\ original.signature.by = k /\ original.version = v
          /\ original.body = b
      BY <2>1 DEF CreateEnvelope
    <3>3. SpeaksForItsSender
      BY <2>2, <3>1, <3>2 DEF SpeaksForItsSender
    <3>4. MadeHereIsUnderstood
      <4> SUFFICES ASSUME arrived = "refused", letter = original,
                          letter.version = ProtocolVersion
                   PROVE  \/ /\ b \notin EngineBodies
                             /\ b.kind \notin BodyKinds \/ b.name > MaxName
                          \/ /\ b.kind \in {"SYNC_REQUEST", "SYNC_RESPONSE"}
                             /\ b.items > MaxWatermarks
        BY <3>2 DEF MadeHereIsUnderstood
      <4>1. b.unknown = {} /\ (b.kind \notin BodyKinds \/ ~WithinBounds(b))
        BY <2>1, <2>2, <3>1, <3>2 DEF Parses
      <4>2. CASE b \in EngineBodies
        BY <4>1, <4>2, EngineFields, EngineWithinBounds
      <4>3. CASE b \notin EngineBodies /\ b.kind \in BodyKinds
        <5>1. \/ b.kind = "PING"
              \/ b.kind \in {"HELLO", "PEER_INFO"} /\ b.items <= MaxCapabilities
          BY <4>1, <4>3, BodyFields
        <5>2. ~(b.name <= MaxName)
          BY <4>1, <4>3, <5>1 DEF WithinBounds
        <5> QED
          BY <4>3, <5>2, BodyFields, EnvelopeAssumption
      <4> QED
        BY <4>1, <4>2, <4>3
    <3> QED
      BY <3>3, <3>4
  <2> QED
    BY <2>2, <2>3, <2>4
<1> QED
  BY <1>1, <1>2

-----------------------------------------------------------------------------
(* What is signed: the request on the air *)

\* The frame as its source sends it, and what may become of it.
Sent(node, request) == [source |-> node, payload |-> Payload(node, request)]

Distorted(f, sent) ==
  \/ \E n \in Station : f = [sent EXCEPT !.source = n]
  \/ \E w \in Words : f = [sent EXCEPT !.payload.request.watermark = w]
  \/ f = [sent EXCEPT !.payload.request.have = {}]
  \/ f = [sent EXCEPT !.payload.surplus = @ + 1]
  \/ f = [sent EXCEPT !.payload.version = @ + 1]

\* What a node that found a gap asks.
GapRequest == Asked(Origin, MarkOf(holds), BitsOf(holds, MarkOf(holds)), MaxAsk)
HasGap == \E s \in holds : s > MarkOf(holds) + 1

\* What stands of a request that a node signed.
Standing(node, request) ==
  /\ meant = [source |-> node, request |-> request]
  /\ signal = Sent(node, request) \/ Distorted(signal, Sent(node, request))
  /\ signal # Silence
  /\ asker \in {"asks", "odd"}
  /\ asker = "asks" => request = GapRequest /\ HasGap /\ node # Origin
  /\ verdict = "answered" => Accepted(signal) /\ answer = Selected(signal.payload.request)
  /\ verdict = "refused" => ~Accepted(signal)
  /\ verdict \in {"waiting", "answered", "refused"}

\* A frame is as it was sent or changed once, and answered as it is read.
RequestInv ==
  /\ own \in 0..MaxOwn /\ holds \in SUBSET (1..own)
  /\ \/ signal = Silence /\ verdict = "waiting"
     \/ \E node \in Station, t \in Station, w \in Nat, h \in SUBSET Nat, max \in Nat :
          Standing(node, Asked(t, w, h, max))

\* The watermark is a mark: nothing below it is missing, and it is the highest such.
LEMMA MarkIsHighest ==
  ASSUME NEW S
  PROVE  /\ MarkOf(S) \in 0..MaxOwn /\ 1..MarkOf(S) \subseteq S
         /\ MarkOf(S) + 1 \in 1..MaxOwn => MarkOf(S) + 1 \notin S
<1> DEFINE Marks == {m \in 0..MaxOwn : 1..m \subseteq S}
<1>1. MaxOwn \in Nat
  BY RequestAssumption
<1>2. 0 \in Marks
  BY <1>1
<1>3. Marks \in SUBSET Int /\ Marks # {} /\ MaxOwn \in Int /\ \A m \in Marks : m <= MaxOwn
  BY <1>1, <1>2
<1>4. \E m \in Marks : \A k \in Marks : k <= m
  <2> HIDE DEF Marks
  <2> QED
    BY <1>3, GreatestInteger
<1>5. MarkOf(S) \in Marks /\ \A k \in Marks : k <= MarkOf(S)
  <2>1. MarkOf(S) = CHOOSE x \in Marks : \A y \in Marks : x >= y
    BY DEF MarkOf, Max
  <2>2. \E m \in Marks : \A k \in Marks : m >= k
    <3> HIDE DEF Marks
    <3> QED
      BY <1>3, <1>4
  <2> HIDE DEF Marks
  <2> QED
    BY <1>3, <2>1, <2>2
<1>6. ASSUME MarkOf(S) + 1 \in 1..MaxOwn, MarkOf(S) + 1 \in S PROVE FALSE
  <2>1. \A i \in 1..(MarkOf(S) + 1) : i \in 1..MarkOf(S) \/ i = MarkOf(S) + 1
    BY <1>5
  <2>2. MarkOf(S) + 1 \in Marks
    BY <1>5, <1>6, <2>1
  <2> QED
    BY <1>5, <2>2
<1> QED
  BY <1>5, <1>6

\* What the origin may select from
Wanted(request) == {s \in OwnSince(request.watermark) \ TooLarge : Lacking(s, request)}

\* What the origin selects is at most what it is asked for, and above the watermark.
LEMMA SelectedFew ==
  ASSUME own \in 0..MaxOwn, NEW request, request.max \in 1..MaxAsk
  PROVE  /\ Selected(request) \in SUBSET Wanted(request)
         /\ Wanted(request) \in SUBSET (1..own)
         /\ Cardinality(Selected(request)) <= request.max
         /\ \A s \in Selected(request) : s > request.watermark
         /\ \A s \in Wanted(request) \ Selected(request) :
              /\ \A t \in Selected(request) : t < s
              /\ Cardinality(Selected(request)) = request.max
         /\ \A s \in Wanted(request) :
              (\A t \in Wanted(request) : s <= t) => s \in Selected(request)
<1>1. Wanted(request) \in SUBSET (1..own)
  BY DEF Wanted, OwnSince
<1>2. own \in Nat /\ request.max \in Nat \ {0}
  BY RequestAssumption
<1>3. \A s : s \in Selected(request) <=>
               s \in Wanted(request) /\ Cardinality(Below(Wanted(request), s)) < request.max
  BY DEF Selected, Wanted, Below
<1>4. \A s \in Wanted(request) : s > request.watermark
  BY DEF Wanted, Lacking
<1>5. Selected(request) \in SUBSET Wanted(request)
  BY <1>3
<1>6. /\ Cardinality(Selected(request)) <= request.max
      /\ \A s \in Wanted(request) \ Selected(request) :
           /\ \A t \in Selected(request) : t < s
           /\ Cardinality(Selected(request)) = request.max
      /\ \A s \in Wanted(request) : (\A t \in Wanted(request) : s <= t) => s \in Selected(request)
  <2>1. PICK n, S, m, A : n = own /\ S = Wanted(request) /\ m = request.max /\ A = Selected(request)
    OBVIOUS
  <2>2. n \in Nat /\ S \in SUBSET (1..n) /\ m \in Nat \ {0} /\ A \in SUBSET S
    BY <1>1, <1>2, <1>5, <2>1
  <2>3. \A s \in S : s \in A <=> Cardinality(Below(S, s)) < m
    BY <1>3, <2>1
  <2>4. /\ Cardinality(A) <= m
        /\ \A s \in S \ A : (\A t \in A : t < s) /\ Cardinality(A) = m
        /\ \A s \in S : (\A t \in S : s <= t) => s \in A
    BY <2>2, <2>3, LeastMany
  <2> QED
    BY <2>1, <2>4
<1>7. \A s \in Selected(request) : s > request.watermark
  BY <1>4, <1>5
<1> QED
  BY <1>1, <1>5, <1>6, <1>7

\* The run of the origin's events a gap is answered from.
LEMMA RunAfterMark ==
  ASSUME own \in 0..MaxOwn, NEW mark \in Nat, mark + 1 \in 1..own
  PROVE  OwnSince(mark) = {s \in 1..own : mark < s /\ s < mark + 1 + OwnBatch}
<1>1. /\ own \in Nat /\ Half \in Nat /\ Top \in Nat /\ Top > Half /\ own <= Half
      /\ OwnBatch \in Nat \ {0}
  BY RequestAssumption
<1>2. AsI64(mark) = mark
  BY <1>1 DEF AsI64
<1>3. (mark + 1) % (Top + 1) = mark + 1
  BY <1>1
<1>4. /\ mark + 1 \in {s \in 1..own : s > mark}
      /\ \A s \in {s \in 1..own : s > mark} : s >= mark + 1
  BY <1>1
<1>5. OwnSince(mark) = {s \in {u \in 1..own : u > mark} : s < (mark + 1) + OwnBatch}
  BY <1>2, <1>3, <1>4, Zenon DEF OwnSince
<1> QED
  BY <1>1, <1>5

\* The answer to a node with a gap fills it from where the node is.
LEMMA GapIsFilled ==
  ASSUME own \in 0..MaxOwn, holds \in SUBSET (1..own), HasGap, NEW request, request = GapRequest
  PROVE  LET mark == MarkOf(holds)
             lacks == {s \in 1..own : s > mark /\ s \notin holds \cup TooLarge}
             found == Selected(request)
         IN  /\ mark + 1 \notin TooLarge => mark + 1 \in found
             /\ \A s \in found : s \in lacks \/ s > mark + 1 + HaveWindow
             /\ \A s \in lacks \ found :
                  /\ \A t \in found : t < s
                  /\ Cardinality(found) = MaxAsk \/ s > mark + OwnBatch
<1> DEFINE mark == MarkOf(holds)
           lacks == {s \in 1..own : s > mark /\ s \notin holds \cup TooLarge}
           found == Selected(request)
           lacking == {s \in OwnSince(mark) \ TooLarge : Lacking(s, request)}
<1>1. /\ own \in Nat /\ HaveWindow \in Nat /\ MaxAsk \in Nat \ {0} /\ OwnBatch \in Nat \ {0}
      /\ own <= MaxOwn /\ MaxOwn \in Nat
  BY RequestAssumption
<1>2. /\ mark \in Nat /\ mark + 1 \in 1..own /\ mark + 1 \notin holds
  <2>1. mark \in 0..MaxOwn /\ (mark + 1 \in 1..MaxOwn => mark + 1 \notin holds)
    BY MarkIsHighest
  <2>2. PICK s \in holds : s > mark + 1
    BY DEF HasGap
  <2>3. s \in 1..own
    OBVIOUS
  <2> HIDE DEF mark
  <2> QED
    BY <1>1, <2>1, <2>2, <2>3
<1>3. /\ request.watermark = mark /\ request.max = MaxAsk
      /\ request.have = BitsOf(holds, mark)
  BY DEF GapRequest, Asked
<1> HIDE DEF mark
<1>4. OwnSince(mark) = {s \in 1..own : mark < s /\ s < mark + 1 + OwnBatch}
  BY <1>2, RunAfterMark
<1>5. \A i : i \in request.have <=> i \in 0..(HaveWindow - 1) /\ mark + 2 + i \in holds
  BY <1>3 DEF BitsOf
<1>6. ASSUME NEW s \in (1..own) \ TooLarge, s > mark
      PROVE  /\ Lacking(s, request) => s \in lacks \/ s > mark + 1 + HaveWindow
             /\ s \notin holds => Lacking(s, request)
  <2>1. s \in Nat /\ s - (mark + 2) \in Int /\ mark + 2 + (s - (mark + 2)) = s
    BY <1>1, <1>2
  <2>2. Lacking(s, request) <=>
          \/ s = mark + 1
          \/ s - (mark + 2) >= HaveWindow
          \/ s - (mark + 2) \notin request.have
    BY <1>3, <1>6 DEF Lacking
  <2>3. s - (mark + 2) \in request.have => s \in holds
    BY <1>5, <2>1
  <2>4. ASSUME s # mark + 1, s \in holds, s - (mark + 2) < HaveWindow
        PROVE  s - (mark + 2) \in request.have
    <3>1. s - (mark + 2) \in 0..(HaveWindow - 1)
      BY <1>1, <1>2, <1>6, <2>1, <2>4
    <3> QED
      BY <1>5, <2>1, <2>4, <3>1
  <2>5. s - (mark + 2) >= HaveWindow => s > mark + 1 + HaveWindow
    BY <1>1, <1>2, <2>1
  <2>6. s - (mark + 2) >= HaveWindow \/ s - (mark + 2) < HaveWindow
    BY <1>1, <2>1
  <2>7. s \notin holds => s \in lacks
    BY <1>6
  <2> HIDE DEF lacks
  <2> QED
    BY <1>2, <2>2, <2>3, <2>4, <2>5, <2>6, <2>7
<1>7. /\ found \in SUBSET lacking /\ lacking \in SUBSET (1..own)
      /\ \A s \in lacking \ found : (\A t \in found : t < s) /\ Cardinality(found) = MaxAsk
      /\ \A s \in lacking : (\A t \in lacking : s <= t) => s \in found
  BY <1>1, <1>3, SelectedFew DEF Wanted
<1>8. /\ \A s \in lacking :
           /\ s \in (1..own) \ TooLarge /\ s > mark /\ s < mark + 1 + OwnBatch
           /\ Lacking(s, request)
      /\ \A s \in (1..own) \ TooLarge :
           s > mark /\ s < mark + 1 + OwnBatch /\ Lacking(s, request) => s \in lacking
  BY <1>4
<1> HIDE DEF lacking, found
<1>9. ASSUME mark + 1 \notin TooLarge PROVE mark + 1 \in found
  <2>1. mark + 1 > mark /\ mark + 1 < mark + 1 + OwnBatch
    BY <1>1, <1>2
  <2>2. mark + 1 \in lacking
    BY <1>2, <1>6, <1>8, <1>9, <2>1
  <2>3. \A t \in lacking : mark + 1 <= t
    BY <1>1, <1>2, <1>8
  <2> QED
    BY <1>7, <2>2, <2>3
<1>10. \A s \in found : s \in lacks \/ s > mark + 1 + HaveWindow
  BY <1>6, <1>7, <1>8
<1>11. ASSUME NEW s \in lacks \ found
       PROVE  /\ \A t \in found : t < s
              /\ Cardinality(found) = MaxAsk \/ s > mark + OwnBatch
  <2>1. s \in (1..own) \ TooLarge /\ s > mark /\ Lacking(s, request)
    BY <1>6
  <2>2. CASE s \in lacking
    BY <1>7, <2>2
  <2>3. CASE s \notin lacking
    <3>1. ~(s < mark + 1 + OwnBatch)
      BY <1>8, <2>1, <2>3
    <3>2. \A t \in found : t \in Nat /\ t < mark + 1 + OwnBatch
      BY <1>1, <1>7, <1>8
    <3> QED
      BY <1>1, <1>2, <2>1, <3>1, <3>2
  <2> QED
    BY <2>2, <2>3
<1> QED
  BY <1>9, <1>10, <1>11 DEF mark, lacks, found

\* Whatever became of a frame, its signature is its signer's, over what it signed.
LEMMA SignatureStays ==
  ASSUME NEW node, NEW request, NEW f,
         f = Sent(node, request) \/ Distorted(f, Sent(node, request))
  PROVE  f.payload.signature = [by |-> node, over |-> RequestBytes(node, request)]
<1> DEFINE signed == [by |-> node, over |-> RequestBytes(node, request)]
<1>1. Sent(node, request) =
        [source |-> node,
         payload |-> [version |-> 1, surplus |-> 0, request |-> request, signature |-> signed]]
  BY DEF Sent, Payload
<1> HIDE DEF signed
<1> QED
  <2>1. CASE f = Sent(node, request)
    BY <1>1, <2>1 DEF signed
  <2>2. CASE Distorted(f, Sent(node, request))
    <3>1. f.payload.signature = Sent(node, request).payload.signature
      BY <1>1, <2>2 DEF Distorted
    <3> QED
      BY <1>1, <3>1 DEF signed
  <2> QED
    BY <2>1, <2>2

\* What is accepted is what was signed.
LEMMA AcceptedAsSigned ==
  ASSUME NEW node, NEW request, NEW f,
         f = Sent(node, request) \/ Distorted(f, Sent(node, request)), Accepted(f)
  PROVE  /\ f.source = node /\ f.payload.request = request
         /\ request.target = Origin /\ request.max \in 1..MaxAsk
<1>1. f.payload.signature = [by |-> node, over |-> RequestBytes(node, request)]
  BY SignatureStays
<1>2. /\ f.payload.signature.by = f.source
      /\ f.payload.signature.over = RequestBytes(f.source, f.payload.request)
      /\ f.payload.request.target = Origin /\ f.payload.request.max \in 1..MaxAsk
  BY DEF Accepted, Verified, Decodes
<1>3. RequestBytes(node, request) = RequestBytes(f.source, f.payload.request)
  BY <1>1, <1>2
<1>4. f.payload.request = request
  BY <1>3 DEF RequestBytes
<1> QED
  BY <1>1, <1>2, <1>4

\* A frame that was not changed is one the origin accepts, if it is asked for its own events
\* by another node.
LEMMA IntactIsAccepted ==
  ASSUME NEW node, NEW request, node # Origin, request = GapRequest
  PROVE  Accepted(Sent(node, request))
<1>1. request.target = Origin /\ request.max = MaxAsk /\ MaxAsk \in 1..MaxAsk
  BY RequestAssumption DEF GapRequest, Asked
<1>2. /\ Sent(node, request).source = node
      /\ Sent(node, request).payload.version = 1 /\ Sent(node, request).payload.surplus = 0
      /\ Sent(node, request).payload.request = request
      /\ Sent(node, request).payload.signature.by = node
      /\ Sent(node, request).payload.signature.over = RequestBytes(node, request)
  BY DEF Sent, Payload
<1> QED
  BY <1>1, <1>2 DEF Accepted, Decodes, Verified, ValidRequest

\* A frame is not silence.
LEMMA FrameIsHeard == \A f : "payload" \in DOMAIN f => f # Silence
  BY DEF Silence

\* No step on the air breaks the invariant.
LEMMA RequestStays == RequestInv /\ [RequestNext]_requestVars => RequestInv'
<1> SUFFICES ASSUME RequestInv, [RequestNext]_requestVars PROVE RequestInv'
  OBVIOUS
<1>0. own \in 0..MaxOwn /\ holds \in SUBSET (1..own)
  BY DEF RequestInv
<1>1. ASSUME NEW who \in {"asks", "odd"}, NEW node \in Station, NEW t \in Station, NEW w \in Nat,
             NEW h \in SUBSET Nat, NEW max \in Nat, Transmits(who, node, Asked(t, w, h, max)),
             who = "asks" => Asked(t, w, h, max) = GapRequest /\ HasGap /\ node # Origin
      PROVE  RequestInv'
  <2> DEFINE request == Asked(t, w, h, max)
  <2>1. /\ signal' = Sent(node, request) /\ asker' = who
        /\ meant' = [source |-> node, request |-> request]
        /\ UNCHANGED <<own, holds, verdict, answer>>
    BY <1>1 DEF Transmits, Sent
  <2>2. verdict = "waiting"
    BY <1>1 DEF Transmits, RequestInv, Standing
  <2>3. signal' # Silence
    BY <2>1, FrameIsHeard DEF Sent
  <2>4. GapRequest' = GapRequest /\ HasGap' = HasGap
    BY <2>1 DEF GapRequest, HasGap
  <2> HIDE DEF request
  <2>5. Standing(node, request)'
    BY <1>1, <2>1, <2>2, <2>3, <2>4 DEF Standing, request
  <2> QED
    BY <1>0, <2>1, <2>5 DEF RequestInv, request
<1>2. ASSUME NEW node \in Station, AskOrigin(node) PROVE RequestInv'
  <2>1. MarkOf(holds) \in Nat /\ MaxAsk \in Nat /\ Origin \in Station
    BY MarkIsHighest, RequestAssumption
  <2>2. BitsOf(holds, MarkOf(holds)) \in SUBSET Nat
    BY RequestAssumption DEF BitsOf
  <2>3. /\ HasGap /\ node # Origin
        /\ Transmits("asks", node, Asked(Origin, MarkOf(holds), BitsOf(holds, MarkOf(holds)), MaxAsk))
    BY <1>2 DEF AskOrigin, HasGap, ValidRequest, Asked
  <2> QED
    BY <1>1, <2>1, <2>2, <2>3 DEF GapRequest
<1>3. ASSUME NEW n \in Station, NEW t \in Station, NEW w \in {0, Half, Half + 1, Top - 1, Top},
             NEW max \in {0, 1, MaxAsk + 1}, NEW have \in {{}, {0}},
             AskOddly(n, Asked(t, w, have, max))
      PROVE  RequestInv'
  <2>1. w \in Nat /\ max \in Nat
    BY RequestAssumption
  <2>2. have \in SUBSET Nat
    OBVIOUS
  <2>3. Transmits("odd", n, Asked(t, w, have, max))
    BY <1>3 DEF AskOddly
  <2> QED
    BY <1>1, <2>1, <2>2, <2>3
<1>4. ASSUME signal # Silence, UNCHANGED <<own, holds, asker, meant>>,
             NEW node \in Station, NEW request, Standing(node, request)
      PROVE  /\ holds' \in SUBSET (1..own') /\ own' \in 0..MaxOwn
             /\ meant' = [source |-> node, request |-> request] /\ asker' \in {"asks", "odd"}
             /\ asker' = "asks" => request = GapRequest' /\ HasGap' /\ node # Origin
  <2>1. GapRequest' = GapRequest /\ HasGap' = HasGap
    BY <1>4 DEF GapRequest, HasGap
  <2> QED
    BY <1>0, <1>4, <2>1 DEF Standing
<1>5. signal # Silence =>
        \E node \in Station, t \in Station, w \in Nat, h \in SUBSET Nat, max \in Nat :
          Standing(node, Asked(t, w, h, max))
  BY DEF RequestInv
<1>6. CASE Distort
  <2>1. /\ signal # Silence /\ verdict = "waiting" /\ Intact
        /\ UNCHANGED <<own, holds, asker, meant>> /\ verdict' = "waiting"
    BY <1>6 DEF Distort
  <2>2. PICK node \in Station, t \in Station, w \in Nat, h \in SUBSET Nat, max \in Nat :
          Standing(node, Asked(t, w, h, max))
    BY <1>5, <2>1
  <2> DEFINE request == Asked(t, w, h, max)
  <2> HIDE DEF request
  <2>3. Standing(node, request)
    BY <2>2 DEF request
  <2>4. signal = Sent(node, request)
    BY <2>1, <2>3 DEF Intact, Sent, Standing
  <2>5. Distorted(signal', Sent(node, request))
    BY <1>6, <2>4 DEF Distort, Distorted
  <2>6. signal' # Silence
    <3>1. DOMAIN signal' = DOMAIN signal
      BY <2>4, <2>5 DEF Distorted
    <3>2. "payload" \in DOMAIN signal
      BY <2>4 DEF Sent
    <3> QED
      BY <3>1, <3>2, FrameIsHeard
  <2>7. Standing(node, request)'
    BY <1>4, <2>1, <2>3, <2>5, <2>6 DEF Standing
  <2> QED
    BY <1>0, <2>1, <2>7 DEF RequestInv, request
<1>7. CASE AnswerRequest
  <2>1. /\ signal # Silence /\ UNCHANGED <<own, holds, signal, asker, meant>>
        /\ verdict' = IF Accepted(signal) THEN "answered" ELSE "refused"
        /\ answer' = IF Accepted(signal) THEN Selected(signal.payload.request) ELSE {}
    BY <1>7 DEF AnswerRequest
  <2>2. PICK node \in Station, t \in Station, w \in Nat, h \in SUBSET Nat, max \in Nat :
          Standing(node, Asked(t, w, h, max))
    BY <1>5, <2>1
  <2> DEFINE request == Asked(t, w, h, max)
  <2> HIDE DEF request
  <2>3. Standing(node, request)
    BY <2>2 DEF request
  <2>4. /\ Selected(signal.payload.request)' = Selected(signal.payload.request)
        /\ Accepted(signal)' = Accepted(signal)
    BY <2>1 DEF Selected, OwnSince, Accepted, Decodes, Verified, ValidRequest
  <2>5. Standing(node, request)'
    BY <1>4, <2>1, <2>3, <2>4 DEF Standing
  <2> QED
    BY <1>0, <2>1, <2>5 DEF RequestInv, request
<1>8. CASE UNCHANGED requestVars
  <2>1. UNCHANGED <<own, holds, signal, asker, meant, verdict, answer>>
    BY <1>8 DEF requestVars
  <2>2. CASE signal = Silence
    <3>1. verdict = "waiting"
      BY <2>2 DEF RequestInv, Standing
    <3> QED
      BY <1>0, <2>1, <2>2, <3>1 DEF RequestInv
  <2>3. CASE signal # Silence
    <3>1. PICK node \in Station, t \in Station, w \in Nat, h \in SUBSET Nat, max \in Nat :
            Standing(node, Asked(t, w, h, max))
      BY <1>5, <2>3
    <3> DEFINE request == Asked(t, w, h, max)
    <3> HIDE DEF request
    <3>2. Standing(node, request)
      BY <3>1 DEF request
    <3>3. /\ Selected(signal.payload.request)' = Selected(signal.payload.request)
          /\ Accepted(signal)' = Accepted(signal)
      BY <2>1 DEF Selected, OwnSince, Accepted, Decodes, Verified, ValidRequest
    <3>4. Standing(node, request)'
      BY <1>4, <2>1, <2>3, <3>2, <3>3 DEF Standing
    <3> QED
      BY <1>0, <2>1, <3>4 DEF RequestInv, request
  <2> QED
    BY <2>2, <2>3
<1> QED
  BY <1>2, <1>3, <1>6, <1>7, <1>8 DEF RequestNext

\* The origin and a node start with what they have, and nothing on the air.
LEMMA RequestStarts == RequestInit => RequestInv
  BY DEF RequestInit, RequestInv

\* The invariant says what is answered, and with what.
LEMMA RequestTells == RequestInv => RequestIsMet
<1> SUFFICES ASSUME RequestInv PROVE RequestIsMet
  OBVIOUS
<1>1. CASE verdict = "waiting"
  BY <1>1 DEF RequestIsMet, AnswersWhatWasSigned, AnswerFillsTheGap
<1>2. CASE verdict # "waiting"
  <2>1. PICK node \in Station, t \in Station, w \in Nat, h \in SUBSET Nat, max \in Nat :
          Standing(node, Asked(t, w, h, max))
    BY <1>2 DEF RequestInv
  <2> DEFINE request == Asked(t, w, h, max)
  <2> HIDE DEF request
  <2>0. Standing(node, request)
    BY <2>1 DEF request
  <2>2. meant.source = node /\ meant.request = request
    BY <2>0 DEF Standing
  <2>3. CASE verdict = "answered"
    <3>1. /\ signal.source = node /\ signal.payload.request = request
          /\ request.target = Origin /\ request.max \in 1..MaxAsk
      BY <2>0, <2>3, AcceptedAsSigned DEF Standing
    <3>2. answer = Selected(request)
      BY <2>0, <2>3, <3>1 DEF Standing
    <3>3. own \in 0..MaxOwn /\ holds \in SUBSET (1..own)
      BY DEF RequestInv
    <3>4. /\ Cardinality(answer) <= request.max
          /\ \A s \in answer : s > request.watermark
      BY <3>1, <3>2, <3>3, SelectedFew
    <3>5. Cardinality(answer) <= MaxAsk
      <4>1. answer \in SUBSET (1..own) /\ own \in Int /\ MaxAsk \in Nat
        <5>1. answer \in SUBSET (1..own)
          BY <3>1, <3>2, <3>3, SelectedFew
        <5> QED
          BY <3>3, <5>1, RequestAssumption
      <4>2. IsFiniteSet(1..own)
        BY <4>1, FS_Interval
      <4>3. IsFiniteSet(answer)
        BY <4>1, <4>2, FS_Subset
      <4>4. Cardinality(answer) \in Nat
        BY <4>3, FS_CardinalityType
      <4> QED
        BY <3>1, <3>4, <4>1, <4>4
    <3>6. ASSUME asker = "asks"
          PROVE  LET mark == MarkOf(holds)
                     lacks == {s \in 1..own : s > mark /\ s \notin holds \cup TooLarge}
                 IN  /\ mark + 1 \notin TooLarge => mark + 1 \in answer
                     /\ \A s \in answer : s \in lacks \/ s > mark + 1 + HaveWindow
                     /\ \A s \in lacks \ answer :
                          /\ \A u \in answer : u < s
                          /\ Cardinality(answer) = MaxAsk \/ s > mark + OwnBatch
      <4>1. request = GapRequest /\ HasGap
        BY <2>0, <3>6 DEF Standing
      <4> QED
        BY <3>2, <3>3, <4>1, GapIsFilled
    <3>7. AnswersWhatWasSigned
      BY <2>2, <2>3, <3>1 DEF AnswersWhatWasSigned
    <3>8. AnswerFillsTheGap
      BY <2>2, <2>3, <3>4, <3>5, <3>6, Zenon DEF AnswerFillsTheGap
    <3> QED
      BY <3>7, <3>8 DEF RequestIsMet
  <2>4. CASE verdict = "refused"
    <3>1. ASSUME asker = "asks", Intact PROVE FALSE
      <4>1. signal = Sent(node, request)
        BY <2>2, <3>1 DEF Intact, Sent
      <4> QED
        BY <2>0, <2>4, <3>1, <4>1, IntactIsAccepted DEF Standing
    <3> QED
      BY <2>4, <3>1 DEF RequestIsMet, AnswersWhatWasSigned, AnswerFillsTheGap
  <2>5. verdict \in {"waiting", "answered", "refused"}
    BY <2>0 DEF Standing
  <2> QED
    BY <1>2, <2>3, <2>4, <2>5
<1> QED
  BY <1>1, <1>2

-----------------------------------------------------------------------------
(* The map: what it shows of the ground *)

\* What the window holds of a file is what the core read of it.
IsDescribed(shown) ==
  /\ shown.text \in Files /\ Usable(shown.text)
  /\ shown.bounds = Box(Bounded(shown.text))

\* The description and the geometry are of one file until the operator replaces it.
MapInv ==
  /\ replaced \in Nat /\ since \in Nat /\ since <= replaced
  /\ \A f \in file : f \in Files /\ file = {f}
  /\ drawn \subseteq Files
  /\ step # "done" => drawn = {}
  /\ \A shown \in basemap : IsDescribed(shown)
  /\ replaced = since =>
       \A shown \in basemap : file = {shown.text} /\ \A text \in drawn : shown.text = text

\* A window that has asked for nothing shows nothing.
LEMMA MapStarts == MapInit => MapInv
  BY DEF MapInit, MapInv

\* Neither the window's commands nor the operator break the invariant.
LEMMA MapStays == MapInv /\ [MapNext]_mapVars => MapInv'
<1> SUFFICES ASSUME MapInv, [MapNext]_mapVars PROVE MapInv'
  OBVIOUS
<1> USE DEF MapInv
<1>1. CASE Replace
  <2>1. \A f \in file' : f \in Files /\ file' = {f}
    BY <1>1 DEF Replace
  <2>2. replaced' \in Nat /\ since' \in Nat /\ since' <= replaced' /\ replaced' # since'
    BY <1>1 DEF Replace
  <2> QED
    BY <1>1, <2>1, <2>2 DEF Replace
<1>2. ASSUME NEW from, NEW to, from # "done", Stat(from, to) PROVE MapInv'
  <2>1. UNCHANGED <<file, replaced, since>>
    BY <1>2 DEF Stat
  <2>2. (UNCHANGED <<basemap, drawn>> /\ drawn = {}) \/ (basemap' = {} /\ drawn' = {})
    BY <1>2 DEF Stat, Give
  <2> QED
    BY <2>1, <2>2
<1>3. CASE ReadDescription
  <2>1. UNCHANGED <<file, replaced>> /\ drawn = {}
    BY <1>3 DEF ReadDescription
  <2>2. CASE Give /\ UNCHANGED since
    BY <2>1, <2>2 DEF Give
  <2>3. CASE ~(Give /\ UNCHANGED since)
    <3>1. /\ since' = replaced /\ drawn' = {} /\ step' = "described"
          /\ \E f \in file : Usable(f) /\ basemap' = {Describe(f, length)}
      BY <1>3, <2>1, <2>3 DEF ReadDescription
    <3>2. PICK f \in file : Usable(f) /\ basemap' = {Describe(f, length)}
      BY <3>1
    <3>3. f \in Files /\ file = {f}
      OBVIOUS
    <3>4. Describe(f, length).text = f /\ IsDescribed(Describe(f, length))
      BY <3>2, <3>3 DEF Describe, IsDescribed
    <3>5. \A shown \in basemap' : IsDescribed(shown) /\ shown.text = f
      BY <3>2, <3>4
    <3> QED
      BY <2>1, <3>1, <3>3, <3>5
  <2> QED
    BY <2>2, <2>3
<1>4. CASE ReadGeometry
  <2>1. UNCHANGED <<file, replaced, since>> /\ step' = "done"
    BY <1>4 DEF ReadGeometry, Give
  <2>2. CASE Give
    BY <2>1, <2>2 DEF Give
  <2>3. CASE ~Give
    <3>1. drawn' = file /\ UNCHANGED basemap
      BY <1>4, <2>3 DEF ReadGeometry
    <3>2. drawn' \subseteq Files
      BY <3>1
    <3>3. replaced = since => \A shown \in basemap : \A text \in drawn' : shown.text = text
      BY <3>1
    <3> QED
      BY <2>1, <3>1, <3>2, <3>3
  <2> QED
    BY <2>2, <2>3
<1>5. CASE UNCHANGED mapVars
  BY <1>5 DEF mapVars
<1> QED
  BY <1>1, <1>2, <1>3, <1>4, <1>5 DEF MapNext

\* Places on Earth
IsGround(S) == S \subseteq Int \X Int /\ \A p \in S : OnEarth(p)

\* The least and the greatest of a set of numbers between two bounds.
LEMMA Extremes ==
  ASSUME NEW S \in SUBSET Int, S # {}, NEW low \in Int, NEW high \in Int,
         \A x \in S : low <= x /\ x <= high
  PROVE  /\ Lowest(S) \in S /\ \A y \in S : Lowest(S) <= y
         /\ Highest(S) \in S /\ \A y \in S : Highest(S) >= y
<1>1. \E x \in S : \A y \in S : x <= y
  BY LeastInteger
<1>2. \E x \in S : \A y \in S : x >= y
  <2>1. PICK x \in S : \A y \in S : y <= x
    BY GreatestInteger
  <2> QED
    BY <2>1
<1> QED
  BY <1>1, <1>2 DEF Lowest, Highest

\* The box of places on Earth is on Earth, and holds every one of them.
LEMMA BoxHolds ==
  ASSUME NEW S, S # {}, IsGround(S)
  PROVE  LET box == Box(S) IN
         /\ {box.west, box.east} \subseteq -East..East
         /\ {box.south, box.north} \subseteq -North..North
         /\ \A p \in S : /\ box.west <= p[1] /\ p[1] <= box.east
                         /\ box.south <= p[2] /\ p[2] <= box.north
<1> DEFINE X == {p[1] : p \in S}
           Y == {p[2] : p \in S}
<1>1. East \in Int /\ North \in Int /\ -East \in Int /\ -North \in Int
  BY MapAssumption
<1>2. \A p \in S : /\ p[1] \in Int /\ p[2] \in Int
                   /\ -East <= p[1] /\ p[1] <= East /\ -North <= p[2] /\ p[2] <= North
  BY DEF IsGround, OnEarth
<1>3. /\ X \in SUBSET Int /\ X # {} /\ \A x \in X : -East <= x /\ x <= East
      /\ Y \in SUBSET Int /\ Y # {} /\ \A y \in Y : -North <= y /\ y <= North
  BY <1>2
<1>4. \A p \in S : p[1] \in X /\ p[2] \in Y
  OBVIOUS
<1>5. Box(S) = [west |-> Lowest(X), east |-> Highest(X), south |-> Lowest(Y), north |-> Highest(Y)]
  BY DEF Box
<1> HIDE DEF X, Y
<1>6. /\ Lowest(X) \in X /\ \A x \in X : Lowest(X) <= x
      /\ Highest(X) \in X /\ \A x \in X : Highest(X) >= x
  <2>1. PICK low \in Int, high \in Int : \A x \in X : low <= x /\ x <= high
    BY <1>1, <1>3, Zenon
  <2>2. X \in SUBSET Int /\ X # {}
    BY <1>3
  <2> QED
    BY <2>1, <2>2, Extremes
<1>7. /\ Lowest(Y) \in Y /\ \A y \in Y : Lowest(Y) <= y
      /\ Highest(Y) \in Y /\ \A y \in Y : Highest(Y) >= y
  <2>1. PICK low \in Int, high \in Int : \A y \in Y : low <= y /\ y <= high
    BY <1>1, <1>3, Zenon
  <2>2. Y \in SUBSET Int /\ Y # {}
    BY <1>3
  <2> QED
    BY <2>1, <2>2, Extremes
<1>8. {Lowest(X), Highest(X)} \subseteq -East..East /\ {Lowest(Y), Highest(Y)} \subseteq -North..North
  <2>1. \A x \in X : x \in -East..East
    BY <1>1, <1>3
  <2>2. \A y \in Y : y \in -North..North
    BY <1>1, <1>3
  <2> QED
    BY <1>6, <1>7, <2>1, <2>2
<1>9. \A p \in S : Lowest(X) <= p[1] /\ p[1] <= Highest(X) /\ Lowest(Y) <= p[2] /\ p[2] <= Highest(Y)
  BY <1>1, <1>2, <1>3, <1>4, <1>6, <1>7
<1> QED
  BY <1>5, <1>8, <1>9

\* A box covers a place when the place is within its sides.
LEMMA CoversPlace ==
  ASSUME NEW box, NEW x \in Int, NEW y \in Int
  PROVE  Covers(box, Around(<<x, y>>)) <=>
           box.west <= x /\ box.east >= x /\ box.south <= y /\ box.north >= y
<1>1. {p[1] : p \in {<<x, y>>}} = {x} /\ {p[2] : p \in {<<x, y>>}} = {y}
  OBVIOUS
<1>2. \A z \in Int : Lowest({z}) = z /\ Highest({z}) = z
  BY DEF Lowest, Highest
<1>3. Around(<<x, y>>) = [west |-> x, east |-> x, south |-> y, north |-> y]
  BY <1>1, <1>2 DEF Around, Box
<1>4. PICK a : a = Around(<<x, y>>)
  OBVIOUS
<1>5. a.west = x /\ a.east = x /\ a.south = y /\ a.north = y
  BY <1>3, <1>4
<1> QED
  BY <1>4, <1>5 DEF Covers

\* The places a file's bounds are of
LEMMA BoundedIsGround ==
  ASSUME NEW text \in Files
  PROVE  IsGround(Bounded(text))
  BY FeatureAssumption DEF Bounded, IsGround

\* What is drawn and on Earth lies inside the frame.
LEMMA MapTellsChecksum == MapInv => ChecksumDescribes
<1> SUFFICES ASSUME MapInv, NEW text \in drawn, NEW shown \in basemap, replaced = since
             PROVE  /\ shown.text = text
                    /\ \A p \in Drawn(text) :
                         OnEarth(p) => Covers(shown.bounds, Around(p)) \/ TooDeep(text)
  BY Zenon DEF ChecksumDescribes
<1>1. shown.text = text /\ text \in Files /\ shown.bounds = Box(Bounded(text)) /\ Bounded(text) # {}
  BY DEF MapInv, IsDescribed, Usable
<1>2. ASSUME NEW p \in Drawn(text), OnEarth(p), ~TooDeep(text)
      PROVE  Covers(shown.bounds, Around(p))
  <2>1. PICK f \in text.features : p \in f.places
    BY DEF Drawn
  <2>2. f.nested \in Nat /\ f.type \in DOMAIN Levels /\ p \in Int \X Int
    BY <1>1, <2>1, FeatureAssumption
  <2>3. Levels[f.type] \in Nat /\ MaxDepth \in Nat
    BY <2>2, MapAssumption DEF Levels
  <2>4. Reached(f)
    BY <1>2, <2>2, <2>3 DEF TooDeep, Reached
  <2>5. p \in Bounded(text)
    BY <1>2, <2>1, <2>4 DEF Bounded
  <2>6. PICK x \in Int, y \in Int : p = <<x, y>>
    BY <2>2
  <2>7. /\ Box(Bounded(text)).west <= x /\ x <= Box(Bounded(text)).east
        /\ Box(Bounded(text)).south <= y /\ y <= Box(Bounded(text)).north
        /\ {Box(Bounded(text)).west, Box(Bounded(text)).east} \subseteq -East..East
        /\ {Box(Bounded(text)).south, Box(Bounded(text)).north} \subseteq -North..North
    BY <1>1, <2>5, <2>6, BoundedIsGround, BoxHolds
  <2> QED
    <3>1. PICK bounds : bounds = shown.bounds
      OBVIOUS
    <3>2. bounds.west <= x /\ bounds.east >= x /\ bounds.south <= y /\ bounds.north >= y
      BY <1>1, <2>7, <3>1, MapAssumption
    <3> QED
      BY <2>6, <3>1, <3>2, CoversPlace
<1> QED
  BY <1>1, <1>2

\* A box with its margin, cut at the ends of the Earth.
LEMMA MarginHolds ==
  ASSUME NEW box, {box.west, box.east} \subseteq -East..East,
         {box.south, box.north} \subseteq -North..North
  PROVE  LET wide == Wider((box.south + box.north) \div 2) IN
         /\ wide \in Nat
         /\ Expanded(box).west = AtLeast(box.west - wide, -East)
         /\ Expanded(box).east = AtMost(box.east + wide, East)
         /\ Expanded(box).south = AtLeast(box.south - Margin, -North)
         /\ Expanded(box).north = AtMost(box.north + Margin, North)
<1>1. North \in Nat
  BY MapAssumption
<1>2. \A a, b \in -North..North : (a + b) \div 2 \in -North..North
  BY <1>1
<1>3. Wider((box.south + box.north) \div 2) \in Nat
  BY <1>2, MapAssumption
<1> QED
  BY <1>3 DEF Expanded

\* What is found to cover the incidents covers each with its margin.
LEMMA MapTellsCoverage == MapInv => CoverageCoversIncidents
<1> SUFFICES ASSUME MapInv, NEW shown \in basemap, NEW sites \in SUBSET Sites,
                    NEW box \in Required(sites), Covers(shown.bounds, box),
                    NEW s \in sites, OnEarth(s)
             PROVE  /\ Covers(shown.bounds, Around(s))
                    /\ Covers(shown.bounds, Around(<<s[1], AtMost(s[2] + Margin, North)>>))
                    /\ Covers(shown.bounds, Around(<<s[1], AtLeast(s[2] - Margin, -North)>>))
  BY Zenon DEF CoverageCoversIncidents
<1> DEFINE on == {p \in sites : OnEarth(p)}
<1>1. East \in Nat /\ North \in Nat /\ Margin \in Nat
  BY MapAssumption
<1>2. PICK x \in Int, y \in Int : s = <<x, y>>
  BY MapAssumption
<1>3. -East <= x /\ x <= East /\ -North <= y /\ y <= North
  BY <1>2 DEF OnEarth
<1>4. IsGround(on) /\ on # {} /\ s \in on
  BY MapAssumption DEF IsGround
<1>5. box = Expanded(Box(on))
  BY <1>4 DEF Required
<1> HIDE DEF on
<1>6. PICK inner : inner = Box(on)
  OBVIOUS
<1>7. /\ {inner.west, inner.east} \subseteq -East..East
      /\ {inner.south, inner.north} \subseteq -North..North
      /\ inner.west <= x /\ x <= inner.east /\ inner.south <= y /\ y <= inner.north
  BY <1>2, <1>4, <1>6, BoxHolds
<1>8. PICK wide \in Nat :
        /\ box.west = AtLeast(inner.west - wide, -East) /\ box.east = AtMost(inner.east + wide, East)
        /\ box.south = AtLeast(inner.south - Margin, -North)
        /\ box.north = AtMost(inner.north + Margin, North)
  BY <1>5, <1>6, <1>7, MarginHolds
<1>9. /\ shown.bounds.west \in Int /\ shown.bounds.east \in Int
      /\ shown.bounds.south \in Int /\ shown.bounds.north \in Int
  <2>1. /\ shown.bounds = Box(Bounded(shown.text)) /\ shown.text \in Files
        /\ Bounded(shown.text) # {}
    BY DEF MapInv, IsDescribed, Usable
  <2>2. IsGround(Bounded(shown.text))
    BY <2>1, BoundedIsGround
  <2>3. /\ {shown.bounds.west, shown.bounds.east} \subseteq -East..East
        /\ {shown.bounds.south, shown.bounds.north} \subseteq -North..North
    BY <2>1, <2>2, BoxHolds
  <2> QED
    BY <1>1, <2>3
<1>10. /\ shown.bounds.west <= box.west /\ box.east <= shown.bounds.east
       /\ shown.bounds.south <= box.south /\ box.north <= shown.bounds.north
       /\ box.west \in Int /\ box.east \in Int /\ box.south \in Int /\ box.north \in Int
  <2>1. box.west \in Int /\ box.east \in Int /\ box.south \in Int /\ box.north \in Int
    BY <1>1, <1>7, <1>8 DEF AtLeast, AtMost
  <2> QED
    BY <1>9, <2>1 DEF Covers
<1>11. shown.bounds.west <= x /\ x <= shown.bounds.east
  BY <1>1, <1>3, <1>7, <1>8, <1>9, <1>10 DEF AtLeast, AtMost
<1>12. ASSUME NEW z \in {y, AtMost(y + Margin, North), AtLeast(y - Margin, -North)}
       PROVE  z \in Int /\ Covers(shown.bounds, Around(<<x, z>>))
  <2>1. z \in Int
    BY <1>1 DEF AtLeast, AtMost
  <2>2. box.south <= z /\ z <= box.north
    BY <1>1, <1>3, <1>7, <1>8 DEF AtLeast, AtMost
  <2>3. shown.bounds.south <= z /\ z <= shown.bounds.north
    BY <1>9, <1>10, <2>1, <2>2
  <2> QED
    BY <1>1, <1>3, <1>9, <1>11, <2>1, <2>3, CoversPlace
<1> QED
  BY <1>2, <1>12

-----------------------------------------------------------------------------
(* A position: what is told of a reading *)

\* A quotient and what is left of it.
LEMMA Quotient ==
  ASSUME NEW a \in Int, NEW F \in Nat \ {0}
  PROVE  a \div F \in Int /\ (a \div F) * F <= a /\ a < (a \div F) * F + F
<1>1. a = F * (a \div F) + (a % F) /\ a % F \in 0..(F - 1) /\ a \div F \in Int
  OBVIOUS
<1> QED
  BY <1>1

\* Different multiples are at least one apart.
LEMMA Multiples ==
  ASSUME NEW a \in Int, NEW b \in Int, NEW F \in Nat \ {0}, a < b
  PROVE  a * F \in Int /\ b * F \in Int /\ a * F + F <= b * F
<1>1. PICK d \in Nat : b = a + 1 + d
  <2>1. b - a - 1 \in Nat /\ b = a + 1 + (b - a - 1)
    OBVIOUS
  <2> QED
    BY <2>1
<1>2. (a + 1 + d) * F = a * F + F + d * F
  OBVIOUS
<1>3. d * F \in Nat /\ a * F \in Int
  OBVIOUS
<1> QED
  BY <1>1, <1>2, <1>3

\* Rounding goes half a unit at most, keeps the sign, and no multiple of a unit is passed.
LEMMA RoundHolds ==
  ASSUME NEW x \in Int, NEW B \in Nat, B % Fine = 0, -B <= x, x <= B
  PROVE  /\ Round(x) \in Int /\ Round(x) * Fine \in Int
         /\ 2 * Apart(Round(x) * Fine, x) <= Fine
         /\ -B <= Round(x) * Fine /\ Round(x) * Fine <= B
         /\ -(B \div Fine) <= Round(x) /\ Round(x) <= B \div Fine
         /\ x >= 0 => Round(x) * Fine >= 0
<1> DEFINE half == Fine \div 2
           top == B \div Fine
<1>1. Fine \in Nat \ {0}
  BY PositionAssumption
<1>2. half \in Nat /\ 2 * half <= Fine /\ Fine <= 2 * half + 1
  BY <1>1
<1>3. top \in Int /\ B = top * Fine
  BY <1>1
<1> HIDE DEF half, top
<1>4. ASSUME NEW y \in Nat, y <= B
      PROVE  LET q == (y + half) \div Fine IN
             /\ q \in Int /\ q * Fine \in Int /\ 0 <= q * Fine /\ q * Fine <= B /\ 0 <= q /\ q <= top
             /\ q * Fine - y <= half /\ y - q * Fine <= half
  <2>1. PICK q \in Int : q = (y + half) \div Fine
    BY <1>1, <1>2, Quotient
  <2>2. q * Fine <= y + half /\ y + half < q * Fine + Fine /\ q * Fine \in Int
    BY <1>1, <1>2, <2>1, Quotient
  <2>3. ~(top < q)
    <3>1. top < q => top * Fine + Fine <= q * Fine /\ top * Fine \in Int
      BY <1>1, <1>3, Multiples
    <3> QED
      BY <1>1, <1>2, <1>3, <1>4, <2>2, <3>1
  <2>4. ~(q < 0)
    <3>1. q < 0 => q * Fine + Fine <= 0 * Fine
      BY <1>1, Multiples
    <3> QED
      BY <1>1, <1>2, <2>2, <3>1
  <2>5. q * Fine <= B
    <3>1. q < top => q * Fine + Fine <= top * Fine
      BY <1>1, <1>3, Multiples
    <3> QED
      BY <1>1, <1>3, <2>2, <2>3, <3>1
  <2>6. 0 <= q * Fine
    BY <1>1, <2>4
  <2> QED
    BY <1>1, <1>2, <1>3, <2>1, <2>2, <2>3, <2>4, <2>5, <2>6
<1>5. CASE x >= 0
  <2>1. Round(x) = (x + half) \div Fine
    BY <1>5 DEF Round, half
  <2>2. x \in Nat
    BY <1>5
  <2> QED
    BY <1>1, <1>2, <1>3, <1>4, <2>1, <2>2 DEF Apart, top
<1>6. CASE ~(x >= 0)
  <2>1. PICK q : q = (-x + half) \div Fine
    OBVIOUS
  <2>2. Round(x) = -q
    <3>1. half - x = -x + half
      BY <1>2
    <3> QED
      BY <1>6, <2>1, <3>1 DEF Round, half
  <2>3. -x \in Nat /\ -x <= B
    BY <1>6
  <2>4. /\ q \in Int /\ q * Fine \in Int /\ 0 <= q * Fine /\ q * Fine <= B /\ 0 <= q /\ q <= top
        /\ q * Fine - (-x) <= half /\ (-x) - q * Fine <= half
    BY <1>4, <2>1, <2>3
  <2>5. Round(x) * Fine = -(q * Fine)
    BY <1>1, <2>2, <2>4
  <2> QED
    BY <1>1, <1>2, <1>3, <1>6, <2>2, <2>4, <2>5 DEF Apart, top
<1> QED
  BY <1>5, <1>6

\* A reading as publish_location has it
Fix(r) == [Device(r) EXCEPT !.source = RecordSource(@)]

\* The radius a reading is told with
Kept(r) == IF \A i \in DOMAIN r.radius : r.radius[i] # NotFinite /\ r.radius[i] >= 0
           THEN r.radius ELSE <<>>

\* What a receiver hears of a reading, field by field.
LEMMA HeardIs ==
  ASSUME NEW r \in Readings, NEW n
  PROVE  LET body == ToWire(Report(Fix(r), n))
             heard == FromWire(body)
         IN  /\ body.sequence = n /\ heard.sequence = n
             /\ heard.lat = Saturate(Round(r.lat)) * Fine
             /\ heard.lon = Saturate(Round(r.lon)) * Fine
             /\ heard.radius = [i \in DOMAIN Kept(r) |-> Round(Kept(r)[i]) * Fine]
             /\ heard.source = RecordSource(r.source)
             /\ heard.captured = (r.captured \div Milli) * Milli
<1>1. r \in [lat : Int \cup {NotFinite}, lon : Int \cup {NotFinite},
             radius : Seq(Int \cup {NotFinite}), source : STRING, captured : Int]
  BY ReadingAssumption
<1>2. Device(r) = [lat |-> r.lat, lon |-> r.lon, radius |-> Kept(r), source |-> r.source,
                   captured |-> r.captured]
  BY <1>1 DEF Device, Kept
<1>3. Fix(r) = [lat |-> r.lat, lon |-> r.lon, radius |-> Kept(r),
                source |-> RecordSource(r.source), captured |-> r.captured]
  BY <1>2 DEF Fix
<1>4. Report(Fix(r), n) =
        [lat |-> r.lat, lon |-> r.lon, radius |-> Kept(r), source |-> RecordSource(r.source),
         captured |-> (r.captured \div Milli) * Milli, sequence |-> n]
  BY <1>3 DEF Report
<1>5. PICK body : body = ToWire(Report(Fix(r), n))
  OBVIOUS
<1>6. body = [lat |-> Saturate(Round(r.lat)), lon |-> Saturate(Round(r.lon)),
              radius |-> [i \in DOMAIN Kept(r) |-> Round(Kept(r)[i])],
              source |-> RecordSource(r.source),
              captured |-> (r.captured \div Milli) * Milli, sequence |-> n]
  <2>1. PICK report : report = Report(Fix(r), n)
    OBVIOUS
  <2>2. report = [lat |-> r.lat, lon |-> r.lon, radius |-> Kept(r),
                  source |-> RecordSource(r.source),
                  captured |-> (r.captured \div Milli) * Milli, sequence |-> n]
    BY <1>4, <2>1
  <2>3. /\ report.lat = r.lat /\ report.lon = r.lon /\ report.radius = Kept(r)
        /\ report.source = RecordSource(r.source) /\ report.sequence = n
        /\ report.captured = (r.captured \div Milli) * Milli
    BY <2>2
  <2>4. body = [report EXCEPT !.lat = Saturate(Round(report.lat)),
                              !.lon = Saturate(Round(report.lon)),
                              !.radius = [i \in DOMAIN report.radius |-> Round(report.radius[i])]]
    BY <1>5, <2>1 DEF ToWire
  <2>5. body = [report EXCEPT !.lat = Saturate(Round(r.lat)), !.lon = Saturate(Round(r.lon)),
                              !.radius = [i \in DOMAIN Kept(r) |-> Round(Kept(r)[i])]]
    BY <2>3, <2>4
  <2> QED
    BY <2>2, <2>5
<1>7. PICK heard : heard = FromWire(body)
  OBVIOUS
<1>8. heard = [lat |-> Saturate(Round(r.lat)) * Fine, lon |-> Saturate(Round(r.lon)) * Fine,
               radius |-> [i \in DOMAIN Kept(r) |-> Round(Kept(r)[i]) * Fine],
               source |-> RecordSource(r.source),
               captured |-> (r.captured \div Milli) * Milli, sequence |-> n]
  BY <1>6, <1>7 DEF FromWire
<1>9. body.sequence = n
  BY <1>6
<1>10. /\ heard.sequence = n
       /\ heard.lat = Saturate(Round(r.lat)) * Fine
       /\ heard.lon = Saturate(Round(r.lon)) * Fine
       /\ heard.radius = [i \in DOMAIN Kept(r) |-> Round(Kept(r)[i]) * Fine]
       /\ heard.source = RecordSource(r.source)
       /\ heard.captured = (r.captured \div Milli) * Milli
  BY <1>8
<1> QED
  BY <1>5, <1>7, <1>9, <1>10

\* A report depends on these fields only, and on its number.
LEMMA FixValid ==
  ASSUME NEW r \in Readings, DeviceValid(r), NEW n, n >= 1
  PROVE  /\ r.lat \in Int /\ -MaxLat <= r.lat /\ r.lat <= MaxLat
         /\ r.lon \in Int /\ -MaxLon <= r.lon /\ r.lon <= MaxLon
         /\ ReportValid(Fix(r), n) <=>
              \A i \in DOMAIN Kept(r) : IsWithin(Kept(r)[i], MaxRadius) /\ Kept(r)[i] >= 0
         /\ ReportValid(Device(r), 1) <=> ReportValid(Fix(r), n)
<1>1. r \in [lat : Int \cup {NotFinite}, lon : Int \cup {NotFinite},
             radius : Seq(Int \cup {NotFinite}), source : STRING, captured : Int]
  BY ReadingAssumption
<1>2. Device(r) = [lat |-> r.lat, lon |-> r.lon, radius |-> Kept(r), source |-> r.source,
                   captured |-> r.captured]
  BY <1>1 DEF Device, Kept
<1>3. Fix(r) = [lat |-> r.lat, lon |-> r.lon, radius |-> Kept(r),
                source |-> RecordSource(r.source), captured |-> r.captured]
  BY <1>2 DEF Fix
<1>4. IsWithin(r.lat, MaxLat) /\ IsWithin(r.lon, MaxLon)
  BY DEF DeviceValid
<1>5. /\ Device(r).lat = r.lat /\ Device(r).lon = r.lon /\ Device(r).radius = Kept(r)
      /\ Fix(r).lat = r.lat /\ Fix(r).lon = r.lon /\ Fix(r).radius = Kept(r)
  BY <1>2, <1>3
<1>6. /\ r.lat \in Int /\ -MaxLat <= r.lat /\ r.lat <= MaxLat
      /\ r.lon \in Int /\ -MaxLon <= r.lon /\ r.lon <= MaxLon
  BY <1>1, <1>4 DEF IsWithin
<1>7. \A m : m >= 1 =>
        /\ ReportValid(Fix(r), m) <=>
             \A i \in DOMAIN Kept(r) : IsWithin(Kept(r)[i], MaxRadius) /\ Kept(r)[i] >= 0
        /\ ReportValid(Device(r), m) <=>
             \A i \in DOMAIN Kept(r) : IsWithin(Kept(r)[i], MaxRadius) /\ Kept(r)[i] >= 0
  BY <1>4, <1>5 DEF ReportValid
<1> QED
  BY <1>6, <1>7

\* A coordinate within the Earth is not saturated on its way.
LEMMA CoordinateArrives ==
  ASSUME NEW x \in Int, NEW B \in {MaxLat, MaxLon}, -B <= x, x <= B
  PROVE  LET y == Saturate(Round(x)) * Fine IN
         y \in Int /\ 2 * Apart(y, x) <= Fine /\ IsWithin(y, B)
<1>1. /\ B \in Nat /\ B % Fine = 0 /\ B <= MaxLon /\ MaxLon \in Nat /\ MaxLon % Fine = 0
      /\ MaxLon \div Fine <= MaxWire /\ MaxWire \in Nat /\ Fine \in Nat \ {0}
      /\ NotFinite \notin Int
  BY PositionAssumption, ReadingAssumption
<1>2. /\ Round(x) \in Int /\ Round(x) * Fine \in Int
      /\ 2 * Apart(Round(x) * Fine, x) <= Fine
      /\ -B <= Round(x) * Fine /\ Round(x) * Fine <= B
  BY <1>1, RoundHolds
<1>3. -(MaxLon \div Fine) <= Round(x) /\ Round(x) <= MaxLon \div Fine
  <2>1. -MaxLon <= x /\ x <= MaxLon
    BY <1>1
  <2> QED
    BY <1>1, <2>1, RoundHolds
<1>4. MaxLon \div Fine \in Int
  BY <1>1
<1>5. Saturate(Round(x)) = Round(x)
  BY <1>1, <1>2, <1>3, <1>4 DEF Saturate
<1> QED
  BY <1>1, <1>2, <1>5 DEF IsWithin

\* What is told of a reading is read as it was taken.
LEMMA ToldIsRead ==
  ASSUME NEW r \in Readings, DeviceValid(r), NEW n \in Nat, n >= 1, ReportValid(Fix(r), n)
  PROVE  ReadsAsTaken(r, ToWire(Report(Fix(r), n)))
<1>1. PICK heard : heard = FromWire(ToWire(Report(Fix(r), n)))
  OBVIOUS
<1>2. /\ heard.sequence = n
      /\ heard.lat = Saturate(Round(r.lat)) * Fine
      /\ heard.lon = Saturate(Round(r.lon)) * Fine
      /\ heard.radius = [i \in DOMAIN Kept(r) |-> Round(Kept(r)[i]) * Fine]
      /\ heard.source = RecordSource(r.source)
      /\ heard.captured = (r.captured \div Milli) * Milli
  BY <1>1, HeardIs
<1>3. /\ r.lat \in Int /\ -MaxLat <= r.lat /\ r.lat <= MaxLat
      /\ r.lon \in Int /\ -MaxLon <= r.lon /\ r.lon <= MaxLon
      /\ \A i \in DOMAIN Kept(r) : IsWithin(Kept(r)[i], MaxRadius) /\ Kept(r)[i] >= 0
  BY FixValid
<1>4. /\ heard.lat \in Int /\ 2 * Apart(heard.lat, r.lat) <= Fine /\ IsWithin(heard.lat, MaxLat)
      /\ heard.lon \in Int /\ 2 * Apart(heard.lon, r.lon) <= Fine /\ IsWithin(heard.lon, MaxLon)
  BY <1>2, <1>3, CoordinateArrives
<1>5. r.radius \in Seq(Int \cup {NotFinite}) /\ Len(r.radius) <= 1 /\ NotFinite \notin Int
      /\ r.captured \in Int
  BY ReadingAssumption
<1>6. ASSUME NEW i \in DOMAIN Kept(r)
      PROVE  /\ heard.radius[i] \in Int /\ heard.radius[i] >= 0
             /\ IsWithin(heard.radius[i], MaxRadius)
             /\ 2 * Apart(heard.radius[i], Kept(r)[i]) <= Fine
  <2>1. Kept(r)[i] \in Int
    <3>1. Kept(r) \in Seq(Int \cup {NotFinite})
      BY <1>5 DEF Kept
    <3>2. Kept(r)[i] \in Int \cup {NotFinite}
      BY <3>1
    <3> QED
      BY <1>3, <3>2 DEF IsWithin
  <2>2. -MaxRadius <= Kept(r)[i] /\ Kept(r)[i] <= MaxRadius /\ Kept(r)[i] >= 0
    BY <1>3 DEF IsWithin
  <2>3. MaxRadius \in Nat /\ MaxRadius % Fine = 0
    BY PositionAssumption
  <2>4. PICK x \in Int : x = Kept(r)[i] /\ heard.radius[i] = Round(x) * Fine
    BY <1>2, <2>1
  <2> HIDE DEF Kept
  <2>5. /\ Round(x) * Fine \in Int /\ 2 * Apart(Round(x) * Fine, x) <= Fine
        /\ -MaxRadius <= Round(x) * Fine /\ Round(x) * Fine <= MaxRadius /\ Round(x) * Fine >= 0
    BY <2>2, <2>3, <2>4, RoundHolds
  <2> QED
    BY <1>5, <2>4, <2>5 DEF IsWithin
<1>7. DOMAIN heard.radius = DOMAIN Kept(r)
  BY <1>2
<1>8. ReportValid(heard, heard.sequence)
  BY <1>2, <1>4, <1>6, <1>7 DEF ReportValid
<1>9. ASSUME NEW i \in DOMAIN r.radius
      PROVE  IF r.radius[i] # NotFinite /\ r.radius[i] >= 0
             THEN heard.radius # <<>> /\ 2 * Apart(heard.radius[1], r.radius[i]) <= Fine
             ELSE heard.radius = <<>>
  <2>1. DOMAIN r.radius = {1} /\ i = 1
    <3>1. DOMAIN r.radius = 1..Len(r.radius) /\ Len(r.radius) \in Nat
      BY <1>5
    <3> QED
      BY <1>5, <3>1
  <2>2. CASE r.radius[i] # NotFinite /\ r.radius[i] >= 0
    <3>1. Kept(r) = r.radius
      BY <2>1, <2>2 DEF Kept
    <3>2. DOMAIN heard.radius = {1}
      BY <1>7, <2>1, <3>1
    <3>3. heard.radius # <<>>
      <4>1. PICK radius : radius = heard.radius
        OBVIOUS
      <4>2. DOMAIN radius = {1}
        BY <3>2, <4>1
      <4>3. DOMAIN <<>> # {1}
        OBVIOUS
      <4>4. radius # <<>>
        BY <4>2, <4>3
      <4> QED
        BY <4>1, <4>4
    <3> QED
      BY <1>6, <2>1, <2>2, <3>1, <3>3
  <2>3. CASE ~(r.radius[i] # NotFinite /\ r.radius[i] >= 0)
    <3>1. Kept(r) = <<>>
      BY <2>1, <2>3 DEF Kept
    <3>2. heard.radius = [j \in {} |-> Round(Kept(r)[j]) * Fine]
      BY <1>2, <3>1
    <3>3. heard.radius = <<>>
      BY <3>2
    <3> QED
      BY <2>3, <3>3
  <2> QED
    BY <2>2, <2>3
<1>10. heard.captured \in (r.captured - Milli + 1)..r.captured
  <2>1. Milli \in Nat \ {0}
    BY PositionAssumption
  <2>2. /\ (r.captured \div Milli) * Milli <= r.captured
        /\ r.captured < (r.captured \div Milli) * Milli + Milli
        /\ (r.captured \div Milli) * Milli \in Int
    <3>1. PICK q \in Int : q = r.captured \div Milli
      BY <1>5, <2>1, Quotient
    <3>2. q * Milli \in Int
      BY <2>1
    <3>3. q * Milli <= r.captured /\ r.captured < q * Milli + Milli
      BY <1>5, <2>1, <3>1, Quotient
    <3> QED
      BY <3>1, <3>2, <3>3
  <2> QED
    BY <1>2, <1>5, <2>1, <2>2
<1>11. heard.source = "GNSS" <=> r.source = "Satellite"
  BY <1>2 DEF RecordSource
<1> QED
  BY <1>1, <1>4, <1>8, <1>9, <1>10, <1>11 DEF ReadsAsTaken

\* What each thread holds, and what has become of every number used up.
PositionInv ==
  /\ PositionTypeOK
  /\ at = [t \in Thread |-> at[t]]
  /\ counter = told + burnt
  /\ burnt > 0 => \E r \in Readings : ~ReportValid(Device(r), 1) /\ DeviceValid(r)
  /\ \A t \in Thread : at[t].stage = "answered" => at[t].answer \in Answers
  /\ at[Beat].stage = "fixed" =>
       /\ counter < MaxHeartbeats
       /\ at[Beat].raw \in Readings /\ DeviceValid(at[Beat].raw)
       /\ at[Beat].fix = Fix(at[Beat].raw)
  /\ at[Beat].stage = "told" =>
       /\ ReadsAsTaken(at[Beat].raw, at[Beat].body)
       /\ at[Beat].body.sequence = counter

\* A node starts with nothing asked and nothing told.
LEMMA PositionStarts == PositionInit => PositionInv
<1> SUFFICES ASSUME PositionInit PROVE PositionInv
  OBVIOUS
<1>1. counter = 0 /\ told = 0 /\ burnt = 0 /\ MaxHeartbeats \in Nat
  BY PositionAssumption DEF PositionInit
<1>2. at = [t \in Thread |-> at[t]] /\ \A t \in Thread : at[t].stage = "idle"
  BY DEF PositionInit, Idle
<1>3. Beat \in Thread
  BY DEF Thread
<1>4. PositionTypeOK
  BY <1>1, <1>2 DEF PositionInit, PositionTypeOK, Answers
<1> QED
  BY <1>1, <1>2, <1>3, <1>4 DEF PositionInv

\* What holds of the numbers and of the heartbeat's thread holds when neither moves.
LEMMA PermissionSteps ==
  ASSUME PositionInv, NEW t \in Thread, NEW new,
         at' = [at EXCEPT ![t] = new], UNCHANGED counts,
         provider' \in {"windows", "none"}, meshed' \in BOOLEAN,
         platform' \in {"ALLOWED", "DENIED", "UNSPECIFIED", "GONE"}, known' \in Answers,
         new.stage \in {"idle", "asking", "answered", "fixing"},
         new.stage = "answered" => new.answer \in Answers
  PROVE  PositionInv'
<1> USE DEF PositionInv
<1>1. /\ at' = [u \in Thread |-> at'[u]] /\ at'[t] = new
      /\ \A u \in Thread : u # t => at'[u] = at[u]
  <2>1. at = [u \in Thread |-> at[u]]
    OBVIOUS
  <2> QED
    BY <2>1
<1>2. UNCHANGED <<counter, told, burnt>> /\ Beat \in Thread
  BY DEF counts, Thread
<1>3. PositionTypeOK'
  BY <1>1, <1>2 DEF PositionTypeOK
<1>4. \A u \in Thread : at'[u].stage = "answered" => at'[u].answer \in Answers
  BY <1>1
<1>5. at'[Beat] = at[Beat] \/ at'[Beat].stage \notin {"fixed", "told"}
  BY <1>1, <1>2
<1> QED
  BY <1>1, <1>2, <1>3, <1>4, <1>5

\* No step of a thread or of Settings breaks the invariant.
LEMMA PositionStays == PositionInv /\ [PositionNext]_positionVars => PositionInv'
<1> SUFFICES ASSUME PositionInv, [PositionNext]_positionVars PROVE PositionInv'
  OBVIOUS
<1>1. /\ provider \in {"windows", "none"} /\ meshed \in BOOLEAN /\ known \in Answers
      /\ platform \in {"ALLOWED", "DENIED", "UNSPECIFIED", "GONE"}
      /\ Beat \in Thread /\ Command \in Thread /\ Beat # Command
  BY PositionAssumption DEF PositionInv, PositionTypeOK, Thread
<1>2. CASE ChangeSettings
  <2>1. UNCHANGED <<provider, meshed, known, at, counter, told, burnt>>
        /\ platform' \in {"ALLOWED", "DENIED", "UNSPECIFIED", "GONE"}
    BY <1>2 DEF ChangeSettings, counts
  <2> QED
    BY <2>1 DEF PositionInv, PositionTypeOK
<1>3. CASE PressRequest
  BY <1>1, <1>3, PermissionSteps DEF PressRequest, Asking
<1>4. ASSUME NEW t \in Thread, StartFix(t) PROVE PositionInv'
  <2>1. PICK new : new = IF known = "GRANTED" THEN Fixing ELSE Asking("fix")
    OBVIOUS
  <2>2. new.stage \in {"fixing", "asking"}
    BY <2>1 DEF Fixing, Asking
  <2> QED
    BY <1>1, <1>4, <2>1, <2>2, PermissionSteps DEF StartFix
<1>5. ASSUME NEW t \in Thread, Answer(t) PROVE PositionInv'
  <2>1. PICK new : new = Answered(at[t].purpose, CASE platform' = "ALLOWED" -> "GRANTED"
                                    [] platform' = "DENIED" -> "DENIED"
                                    [] platform' = "GONE" -> "UNAVAILABLE"
                                    [] OTHER -> "NOT_REQUESTED")
    OBVIOUS
  <2>2. new.stage = "answered" /\ new.answer \in Answers
    BY <2>1 DEF Answered, Answers
  <2>3. at' = [at EXCEPT ![t] = new] /\ UNCHANGED <<provider, meshed, known, counts>>
    BY <1>5, <2>1 DEF Answer
  <2>4. platform' \in {"ALLOWED", "DENIED", "UNSPECIFIED", "GONE"}
    BY <1>1, <1>5 DEF Answer
  <2> QED
    BY <1>1, <2>2, <2>3, <2>4, PermissionSteps
<1>6. ASSUME NEW t \in Thread, Remember(t) PROVE PositionInv'
  <2>1. PICK new : new = IF at[t].purpose = "fix" /\ at[t].answer = "GRANTED" THEN Fixing ELSE Idle
    OBVIOUS
  <2>2. new.stage \in {"fixing", "idle"}
    BY <2>1 DEF Fixing, Idle
  <2>3. at' = [at EXCEPT ![t] = new] /\ UNCHANGED <<provider, meshed, platform, counts>>
    BY <1>6, <2>1 DEF Remember
  <2>4. known' \in Answers
    BY <1>6 DEF Remember, PositionInv
  <2> QED
    BY <1>1, <2>2, <2>3, <2>4, PermissionSteps
<1>7. ASSUME NEW t \in Thread, NoFix(t) PROVE PositionInv'
  <2>1. Idle.stage = "idle"
    BY DEF Idle
  <2> QED
    BY <1>1, <1>7, <2>1, PermissionSteps DEF NoFix
<1>8. ASSUME NEW r \in Readings, TakeFix(Command, r) PROVE PositionInv'
  <2>1. Idle.stage = "idle"
    BY DEF Idle
  <2> QED
    BY <1>1, <1>8, <2>1, PermissionSteps DEF TakeFix
<1>9. /\ at = [t \in Thread |-> at[t]]
      /\ \A new : at' = [at EXCEPT ![Beat] = new] =>
           /\ at' = [t \in Thread |-> at'[t]] /\ at'[Beat] = new
           /\ \A t \in Thread : t # Beat => at'[t] = at[t]
  <2>1. at = [u \in Thread |-> at[u]]
    BY DEF PositionInv
  <2> QED
    BY <1>1, <2>1
<1>10. ASSUME NEW r \in Readings, TakeFix(Beat, r) PROVE PositionInv'
  <2>1. PICK new : new = [stage |-> "fixed", raw |-> r, fix |-> Fix(r)]
    OBVIOUS
  <2>2. new.stage = "fixed" /\ new.raw = r /\ new.fix = Fix(r)
    BY <2>1
  <2>3. /\ at' = [at EXCEPT ![Beat] = new] /\ DeviceValid(r) /\ counter < MaxHeartbeats
        /\ UNCHANGED <<provider, meshed, platform, known, counter, told, burnt>>
    BY <1>10, <2>1 DEF TakeFix, Fix, counts
  <2>4. PositionTypeOK'
    BY <1>9, <2>2, <2>3 DEF PositionInv, PositionTypeOK
  <2> QED
    BY <1>9, <2>2, <2>3, <2>4 DEF PositionInv
<1>11. CASE Publish
  <2>1. /\ at[Beat].stage = "fixed" /\ counter' = counter + 1 /\ counter \in Nat
        /\ UNCHANGED <<provider, meshed, platform, known>>
    BY <1>11, PositionAssumption DEF Publish, PositionInv, PositionTypeOK
  <2>2. PICK r \in Readings : r = at[Beat].raw /\ DeviceValid(r) /\ at[Beat].fix = Fix(r)
    BY <2>1 DEF PositionInv
  <2>3. PICK n \in Nat : n = counter' /\ n >= 1
    BY <2>1
  <2>4. /\ counter' \in 0..MaxHeartbeats /\ told \in Nat /\ burnt \in Nat
        /\ counter = told + burnt /\ MaxHeartbeats \in Nat
    BY <2>1, PositionAssumption DEF PositionInv, PositionTypeOK
  <2>5. CASE ReportValid(Fix(r), n)
    <3>1. PICK new : new = [stage |-> "told", raw |-> r, body |-> ToWire(Report(Fix(r), n))]
      OBVIOUS
    <3>2. new.stage = "told" /\ new.raw = r /\ new.body = ToWire(Report(Fix(r), n))
      BY <3>1
    <3>3. at' = [at EXCEPT ![Beat] = new] /\ told' = told + 1 /\ burnt' = burnt
      BY <1>11, <2>2, <2>3, <2>5, <3>1 DEF Publish
    <3>4. ReadsAsTaken(r, new.body) /\ new.body.sequence = n
      BY <2>2, <2>3, <2>5, <3>2, ToldIsRead, HeardIs
    <3>5. told' \in 0..counter' /\ burnt' \in 0..counter' /\ counter' = told' + burnt'
      BY <2>1, <2>4, <3>3
    <3>6. PositionTypeOK'
      BY <1>9, <2>1, <2>4, <3>2, <3>3, <3>5 DEF PositionInv, PositionTypeOK
    <3>7. \A t \in Thread : at'[t].stage = "answered" => at'[t].answer \in Answers
      BY <1>9, <3>2, <3>3 DEF PositionInv
    <3> QED
      BY <1>9, <2>3, <3>2, <3>3, <3>4, <3>5, <3>6, <3>7 DEF PositionInv
  <2>6. CASE ~ReportValid(Fix(r), n)
    <3>1. at' = [at EXCEPT ![Beat] = Idle] /\ burnt' = burnt + 1 /\ told' = told
      BY <1>11, <2>2, <2>3, <2>6 DEF Publish
    <3>2. Idle.stage = "idle"
      BY DEF Idle
    <3>3. ~ReportValid(Device(r), 1) /\ DeviceValid(r)
      BY <2>2, <2>3, <2>6, FixValid
    <3>4. told' \in 0..counter' /\ burnt' \in 0..counter' /\ counter' = told' + burnt'
      BY <2>1, <2>4, <3>1
    <3>5. PositionTypeOK'
      BY <1>9, <2>1, <2>4, <3>1, <3>2, <3>4 DEF PositionInv, PositionTypeOK
    <3>6. \A t \in Thread : at'[t].stage = "answered" => at'[t].answer \in Answers
      BY <1>9, <3>1, <3>2 DEF PositionInv
    <3> QED
      BY <1>9, <3>1, <3>2, <3>3, <3>4, <3>5, <3>6 DEF PositionInv
  <2> QED
    BY <2>5, <2>6
<1>12. CASE Sleep
  <2>1. Idle.stage = "idle"
    BY DEF Idle
  <2> QED
    BY <1>1, <1>12, <2>1, PermissionSteps DEF Sleep
<1>13. CASE UNCHANGED positionVars
  BY <1>13 DEF positionVars, PositionInv, PositionTypeOK
<1> QED
  BY <1>1, <1>2, <1>3, <1>4, <1>5, <1>6, <1>7, <1>8, <1>10, <1>11, <1>12, <1>13
     DEF PositionNext, BeatStep

\* The invariant says what is told, and where the numbers went.
LEMMA PositionTells == PositionInv => PublishedIsFaithful
  BY DEF PositionInv, PublishedIsFaithful

-----------------------------------------------------------------------------
(* The reply of the model server *)

LineNames == {"status", "other", "length", "chunked", "size", ""}
Symbol ==
  {Line(name, value) : name \in LineNames, value \in Nat}
  \cup {Byte(b) : b \in STRING \cup {"cr", "lf"}} \cup {Cut}

\* A line is no byte and no cut, and what it says can be read from it.
LEMMA Symbols ==
  /\ \A name, value : /\ IsLine(Line(name, value)) /\ Line(name, value) # Cut
                      /\ Line(name, value).line = name /\ Line(name, value).value = value
  /\ \A b : Byte(b).byte = b /\ ~IsLine(Byte(b))
  /\ ~IsLine(Cut)
<1>1. \A name, value : /\ DOMAIN Line(name, value) = {"line", "value"}
                       /\ Line(name, value).line = name /\ Line(name, value).value = value
  BY DEF Line
<1>2. \A b : DOMAIN Byte(b) = {"byte"} /\ Byte(b).byte = b
  BY DEF Byte
<1>3. DOMAIN Cut = {"cut"}
  BY DEF Cut
<1>4. "line" # "byte" /\ "line" # "cut"
  OBVIOUS
<1>5. \A name, value : IsLine(Line(name, value)) /\ Line(name, value) # Cut
  BY <1>1, <1>3, <1>4 DEF IsLine
<1>6. (\A b : ~IsLine(Byte(b))) /\ ~IsLine(Cut)
  BY <1>2, <1>3, <1>4 DEF IsLine
<1> QED
  BY <1>1, <1>2, <1>5, <1>6

\* What is on the wire is symbols.
LEMMA InSymbol ==
  /\ \A name \in LineNames, value \in Nat : Line(name, value) \in Symbol
  /\ \A b \in STRING \cup {"cr", "lf"} : Byte(b) \in Symbol
  /\ Cut \in Symbol
<1>1. \A name \in LineNames, value \in Nat :
        Line(name, value) \in {Line(m, v) : m \in LineNames, v \in Nat}
  OBVIOUS
<1>2. \A b \in STRING \cup {"cr", "lf"} : Byte(b) \in {Byte(c) : c \in STRING \cup {"cr", "lf"}}
  OBVIOUS
<1>3. Cut \in {Cut}
  OBVIOUS
<1> QED
  BY <1>1, <1>2, <1>3 DEF Symbol

\* One sequence after another
LEMMA Joined ==
  ASSUME NEW S, NEW s \in Seq(S), NEW t \in Seq(S), NEW u, u = s \o t
  PROVE  /\ u \in Seq(S) /\ Len(u) = Len(s) + Len(t)
         /\ \A i \in 1..Len(s) : u[i] = s[i]
         /\ \A i \in 1..Len(t) : u[Len(s) + i] = t[i]
  OBVIOUS

\* A function on the first numbers is a sequence.
LEMMA Listed ==
  ASSUME NEW S, NEW n \in Nat, NEW f \in [1..n -> S]
  PROVE  f \in Seq(S) /\ Len(f) = n
  OBVIOUS

\* A body on the wire
LEMMA BytesAre ==
  ASSUME NEW body \in Seq(STRING)
  PROVE  /\ Bytes(body) \in Seq(Symbol) /\ Len(Bytes(body)) = Len(body)
         /\ \A i \in 1..Len(body) : Bytes(body)[i] = Byte(body[i])
<1>1. Len(body) \in Nat /\ \A i \in 1..Len(body) : body[i] \in STRING
  OBVIOUS
<1>2. \A i \in 1..Len(body) : Byte(body[i]) \in Symbol
  BY <1>1 DEF Symbol
<1>3. Bytes(body) \in [1..Len(body) -> Symbol]
  BY <1>2 DEF Bytes
<1>4. \A i \in 1..Len(body) : Bytes(body)[i] = Byte(body[i])
  BY DEF Bytes
<1> QED
  BY <1>1, <1>3, <1>4, Listed

\* What holds of n, and of a number whenever it holds of all between it and n, holds of all.
LEMMA Downwards ==
  ASSUME NEW n \in Nat \ {0}, NEW M \in SUBSET (1..n),
         \A m \in 1..n : (\A i \in 1..n : i > m => i \in M) => m \in M
  PROVE  M = 1..n
<1>1. SUFFICES ASSUME (1..n) \ M # {} PROVE FALSE
  OBVIOUS
<1>2. (1..n) \ M \in SUBSET Int /\ n \in Int /\ \A x \in (1..n) \ M : x <= n
  OBVIOUS
<1>3. PICK m \in (1..n) \ M : \A y \in (1..n) \ M : y <= m
  BY <1>1, <1>2, GreatestInteger
<1>4. \A i \in 1..n : i > m => i \in M
  BY <1>3
<1> QED
  BY <1>3, <1>4

\* How many bytes the chunk from here on has
ChunkSize(body, n, from) ==
  LET rest == Len(body) + 1 - from IN IF n < rest THEN n ELSE rest

\* The chunk from here on, and those after it as f has them
Piece(body, n, from, f) ==
  LET k == ChunkSize(body, n, from)
  IN  IF k = 0 THEN <<Line("size", 0)>>
      ELSE <<Line("size", k)>> \o Bytes(SubSeq(body, from, from + k - 1))
           \o <<Byte("cr"), Byte("lf")>> \o f[from + k]

\* A chunk of k bytes, the first one of them at from in the body, and what follows it
IsChunk(all, k, body, from, rest) ==
  /\ Len(all) = k + 3 + Len(rest)
  /\ all[1] = Line("size", k)
  /\ \A i \in 1..k : all[1 + i] = Byte(body[from + i - 1])
  /\ \A i \in 1..Len(rest) : all[k + 3 + i] = rest[i]

\* The size of a chunk
LEMMA SizeOfChunk ==
  ASSUME NEW body \in Seq(STRING), NEW n \in Nat \ {0}, NEW from \in 1..(Len(body) + 1)
  PROVE  /\ ChunkSize(body, n, from) \in Nat
         /\ ChunkSize(body, n, from) = 0 <=> from = Len(body) + 1
         /\ from + ChunkSize(body, n, from) \in 1..(Len(body) + 1)
  BY DEF ChunkSize

\* Cutting a body into chunks ends, whatever their size.
LEMMA ChunksExist ==
  ASSUME NEW body \in Seq(STRING), NEW n \in Nat \ {0}
  PROVE  \E f : f = [from \in 1..(Len(body) + 1) |-> Piece(body, n, from, f)]
<1> DEFINE top == Len(body) + 1
           Good(f, m) == \A i \in 1..top : i >= m => f[i] = Piece(body, n, i, f)
           M == {m \in 1..top : \E f : Good(f, m)}
<1>1. top \in Nat \ {0}
  OBVIOUS
<1>2. ASSUME NEW m \in 1..top, \A i \in 1..top : i > m => i \in M PROVE m \in M
  <2>1. PICK f : \A i \in 1..top : i > m => f[i] = Piece(body, n, i, f)
    <3>1. CASE m = top
      BY <1>1, <3>1
    <3>2. CASE m # top
      <4>1. m + 1 \in 1..top /\ m + 1 > m
        BY <1>1, <3>2
      <4>2. PICK f : Good(f, m + 1)
        BY <1>2, <4>1
      <4>3. \A i \in 1..top : i > m => i >= m + 1
        BY <1>1
      <4> QED
        BY <4>2, <4>3
    <3> QED
      BY <3>1, <3>2
  <2> DEFINE g == [i \in 1..top |-> IF i = m THEN Piece(body, n, m, f) ELSE f[i]]
  <2>2. ASSUME NEW i \in 1..top, i >= m PROVE g[i] = Piece(body, n, i, g)
    <3>1. PICK k \in Nat : k = ChunkSize(body, n, i) /\ i + k \in 1..top
      BY SizeOfChunk
    <3>2. k # 0 => g[i + k] = f[i + k]
      BY <1>1, <2>2, <3>1
    <3>3. Piece(body, n, i, g) = Piece(body, n, i, f)
      <4> HIDE DEF g
      <4> QED
        BY <3>1, <3>2 DEF Piece
    <3>4. i = m \/ i > m
      BY <1>1, <2>2
    <3> QED
      BY <2>1, <3>3, <3>4
  <2> HIDE DEF g
  <2>3. Good(g, m)
    BY <2>2
  <2> QED
    BY <2>3
<1>3. M = 1..top
  <2> HIDE DEF M, top
  <2>1. M \in SUBSET (1..top)
    BY DEF M
  <2> QED
    BY <1>1, <1>2, <2>1, Downwards
<1>4. PICK f : Good(f, 1)
  BY <1>1, <1>3
<1> DEFINE g == [i \in 1..top |-> f[i]]
<1>5. ASSUME NEW i \in 1..top PROVE g[i] = Piece(body, n, i, g)
  <2>1. PICK k \in Nat : k = ChunkSize(body, n, i) /\ i + k \in 1..top
    BY SizeOfChunk
  <2>2. g[i + k] = f[i + k]
    BY <2>1
  <2>3. Piece(body, n, i, g) = Piece(body, n, i, f)
    <3> HIDE DEF g
    <3> QED
      BY <2>1, <2>2 DEF Piece
  <2> QED
    BY <1>1, <1>4, <2>3
<1>6. g = [from \in 1..top |-> Piece(body, n, from, g)]
  <2>1. g = [i \in 1..top |-> g[i]]
    OBVIOUS
  <2> HIDE DEF g
  <2> QED
    BY <1>5, <2>1
<1> HIDE DEF g
<1> QED
  BY <1>6

\* The chunks from every byte on are a chunk and the chunks after it.
LEMMA ChunksAre ==
  ASSUME NEW body \in Seq(STRING), NEW n \in Nat \ {0}, NEW from \in 1..(Len(body) + 1)
  PROVE  ChunksFrom(body, n)[from] = Piece(body, n, from, ChunksFrom(body, n))
<1> DEFINE top == Len(body) + 1
<1>1. ChunksFrom(body, n) = CHOOSE f : f = [i \in 1..top |-> Piece(body, n, i, f)]
  BY DEF ChunksFrom, Piece, ChunkSize
<1>2. \E f : f = [i \in 1..top |-> Piece(body, n, i, f)]
  BY ChunksExist
<1>3. ChunksFrom(body, n) = [i \in 1..top |-> Piece(body, n, i, ChunksFrom(body, n))]
  BY <1>1, <1>2
<1> QED
  BY <1>3

\* The symbols of a chunk and of what follows it.
LEMMA PieceIs ==
  ASSUME NEW body \in Seq(STRING), NEW n \in Nat \ {0}, NEW from \in 1..Len(body), NEW f,
         NEW k, k = ChunkSize(body, n, from), NEW next, next = from + k,
         NEW rest \in Seq(Symbol), rest = f[next], NEW piece, piece = Piece(body, n, from, f)
  PROVE  piece \in Seq(Symbol) /\ IsChunk(piece, k, body, from, rest)
<1>1. k \in Nat \ {0} /\ from + k \in 1..(Len(body) + 1) /\ Len(body) \in Nat
  <2>1. from \in 1..(Len(body) + 1) /\ from # Len(body) + 1 /\ Len(body) \in Nat
    OBVIOUS
  <2> QED
    BY <2>1, SizeOfChunk
<1>2. PICK part : part = SubSeq(body, from, from + k - 1)
  OBVIOUS
<1>3. part \in Seq(STRING) /\ Len(part) = k /\ \A i \in 1..k : part[i] = body[from + i - 1]
  <2>1. \A i \in from..(from + k - 1) : body[i] \in STRING
    <3>1. ASSUME NEW i \in from..(from + k - 1) PROVE i \in 1..Len(body)
      BY <1>1
    <3>2. \A i \in 1..Len(body) : body[i] \in STRING
      OBVIOUS
    <3> QED
      BY <3>1, <3>2
  <2>2. from \in Int /\ from + k - 1 \in Int /\ from <= from + k - 1
        /\ (from + k - 1) - from + 1 = k
    BY <1>1
  <2>3. /\ part \in Seq(STRING) /\ Len(part) = (from + k - 1) - from + 1
        /\ \A i \in 1..((from + k - 1) - from + 1) : part[i] = body[from + i - 1]
    BY <1>2, <2>1, <2>2, SubSeqProperties
  <2> QED
    BY <2>2, <2>3
<1>4. PICK bytes : bytes = Bytes(part)
  OBVIOUS
<1>5. /\ bytes \in Seq(Symbol) /\ Len(bytes) = k
      /\ \A i \in 1..k : bytes[i] = Byte(body[from + i - 1])
  BY <1>3, <1>4, BytesAre
<1>6. PICK front : front = <<Line("size", k)>>
  OBVIOUS
<1>7. PICK end : end = <<Byte("cr"), Byte("lf")>>
  OBVIOUS
<1>8. front \in Seq(Symbol) /\ Len(front) = 1 /\ front[1] = Line("size", k)
  <2>1. Line("size", k) \in Symbol
    BY <1>1, InSymbol DEF LineNames
  <2> QED
    BY <1>6, <2>1
<1>9. end \in Seq(Symbol) /\ Len(end) = 2
  <2>1. Byte("cr") \in Symbol /\ Byte("lf") \in Symbol
    BY InSymbol
  <2> QED
    BY <1>7, <2>1
<1>10. PICK one : one = front \o bytes
  OBVIOUS
<1>11. /\ one \in Seq(Symbol) /\ Len(one) = 1 + k /\ one[1] = Line("size", k)
       /\ \A i \in 1..k : one[1 + i] = Byte(body[from + i - 1])
  <2>1. front \in Seq(Symbol) /\ bytes \in Seq(Symbol)
    BY <1>5, <1>8
  <2>2. /\ one \in Seq(Symbol) /\ Len(one) = Len(front) + Len(bytes)
        /\ \A i \in 1..Len(front) : one[i] = front[i]
        /\ \A i \in 1..Len(bytes) : one[Len(front) + i] = bytes[i]
    BY <1>10, <2>1, Joined
  <2>3. one[1] = front[1]
    BY <1>8, <2>2
  <2> QED
    BY <1>1, <1>5, <1>8, <2>2, <2>3
<1>12. PICK two : two = one \o end
  OBVIOUS
<1>13. /\ two \in Seq(Symbol) /\ Len(two) = k + 3
       /\ \A i \in 1..(1 + k) : two[i] = one[i]
  <2>1. one \in Seq(Symbol) /\ end \in Seq(Symbol)
    BY <1>9, <1>11
  <2>2. /\ two \in Seq(Symbol) /\ Len(two) = Len(one) + Len(end)
        /\ \A i \in 1..Len(one) : two[i] = one[i]
    BY <1>12, <2>1, Joined
  <2>3. Len(one) = 1 + k /\ Len(end) = 2
    BY <1>9, <1>11
  <2> QED
    BY <1>1, <2>2, <2>3
<1>14. PICK three : three = two \o rest
  OBVIOUS
<1>15. /\ three \in Seq(Symbol) /\ Len(three) = k + 3 + Len(rest)
       /\ \A i \in 1..(k + 3) : three[i] = two[i]
       /\ \A i \in 1..Len(rest) : three[k + 3 + i] = rest[i]
  <2>1. two \in Seq(Symbol)
    BY <1>13
  <2>2. /\ three \in Seq(Symbol) /\ Len(three) = Len(two) + Len(rest)
        /\ \A i \in 1..Len(two) : three[i] = two[i]
        /\ \A i \in 1..Len(rest) : three[Len(two) + i] = rest[i]
    BY <1>14, <2>1, Joined
  <2>3. Len(two) = k + 3
    BY <1>13
  <2> QED
    BY <1>1, <2>2, <2>3
<1>16. piece = three
  BY <1>1, <1>2, <1>4, <1>6, <1>7, <1>10, <1>12, <1>14 DEF Piece
<1>17. /\ 1 \in 1..(1 + k) /\ 1 \in 1..(k + 3)
       /\ \A i \in 1..k : 1 + i \in 1..(1 + k) /\ 1 + i \in 1..(k + 3)
  BY <1>1
<1>18. three[1] = Line("size", k) /\ \A i \in 1..k : three[1 + i] = Byte(body[from + i - 1])
  <2>1. three[1] = one[1]
    BY <1>13, <1>15, <1>17
  <2>2. \A i \in 1..k : three[1 + i] = one[1 + i]
    BY <1>13, <1>15, <1>17
  <2> QED
    BY <1>11, <2>1, <2>2
<1> QED
  BY <1>15, <1>16, <1>18 DEF IsChunk

\* A chunked body, from every byte on, is a sequence of symbols: a chunk and what follows it,
\* or the empty chunk.
LEMMA ChunkIs ==
  ASSUME NEW body \in Seq(STRING), NEW n \in Nat \ {0}, NEW from \in 1..(Len(body) + 1),
         NEW k, k = ChunkSize(body, n, from),
         NEW all, all = ChunksFrom(body, n)[from],
         NEW rest, rest = ChunksFrom(body, n)[from + k]
  PROVE  /\ all \in Seq(Symbol) /\ rest \in Seq(Symbol) /\ Len(all) >= 1
         /\ all[1] = Line("size", k)
         /\ k # 0 => IsChunk(all, k, body, from, rest)
<1> DEFINE top == Len(body) + 1
           M == {m \in 1..top : ChunksFrom(body, n)[m] \in Seq(Symbol)}
<1>1. top \in Nat \ {0}
  OBVIOUS
<1>2. ASSUME NEW m \in 1..top, ChunkSize(body, n, m) = 0
      PROVE  /\ ChunksFrom(body, n)[m] = <<Line("size", 0)>> /\ ChunksFrom(body, n)[m] \in Seq(Symbol)
             /\ Len(ChunksFrom(body, n)[m]) = 1 /\ ChunksFrom(body, n)[m][1] = Line("size", 0)
  <2>1. ChunksFrom(body, n)[m] = <<Line("size", 0)>>
    BY <1>2, ChunksAre DEF Piece
  <2>2. Line("size", 0) \in Symbol
    BY InSymbol DEF LineNames
  <2> QED
    BY <2>1, <2>2
<1>3. ASSUME NEW m \in 1..top, \A i \in 1..top : i > m => i \in M PROVE m \in M
  <2>1. CASE ChunkSize(body, n, m) = 0
    BY <1>2, <2>1
  <2>2. CASE ChunkSize(body, n, m) # 0
    <3>1. PICK g : g = ChunkSize(body, n, m)
      OBVIOUS
    <3>2. g \in Nat \ {0} /\ m + g \in 1..top /\ m # top
      BY <2>2, <3>1, SizeOfChunk
    <3>3. m + g > m /\ m \in 1..Len(body)
      BY <3>2
    <3>4. PICK after \in Seq(Symbol) : after = ChunksFrom(body, n)[m + g]
      BY <1>3, <3>2, <3>3
    <3>5. PICK f : f = ChunksFrom(body, n)
      OBVIOUS
    <3>6. PICK piece : piece = Piece(body, n, m, f)
      OBVIOUS
    <3>8. PICK next : next = m + g
      OBVIOUS
    <3>9. after = f[next]
      BY <3>4, <3>5, <3>8
    <3>7. piece \in Seq(Symbol)
      BY <3>1, <3>3, <3>6, <3>8, <3>9, PieceIs
    <3> QED
      BY <3>5, <3>6, <3>7, ChunksAre
  <2> QED
    BY <2>1, <2>2
<1>4. M = 1..top
  <2> HIDE DEF M, top
  <2>1. M \in SUBSET (1..top)
    BY DEF M
  <2> QED
    BY <1>1, <1>3, <2>1, Downwards
<1>6. k \in Nat /\ (k = 0 <=> from = top) /\ from + k \in 1..top
  BY SizeOfChunk
<1>7. all \in Seq(Symbol) /\ rest \in Seq(Symbol)
  BY <1>4, <1>6
<1>8. CASE k = 0
  <2>1. Len(all) = 1 /\ all[1] = Line("size", 0)
    BY <1>2, <1>8
  <2> QED
    BY <1>7, <1>8, <2>1
<1>9. CASE k # 0
  <2>1. from \in 1..Len(body) /\ k \in Nat \ {0}
    BY <1>6, <1>9
  <2>2. PICK f : f = ChunksFrom(body, n)
    OBVIOUS
  <2>3. all = Piece(body, n, from, f) /\ rest = f[from + k]
    BY <2>2, ChunksAre
  <2>4. PICK tail \in Seq(Symbol) : tail = rest
    BY <1>7
  <2>5. IsChunk(all, k, body, from, tail)
    <3>1. from \in 1..Len(body)
      BY <2>1
    <3>2. tail = f[from + k]
      BY <2>3, <2>4
    <3>3. PICK next : next = from + k
      OBVIOUS
    <3>4. tail = f[next]
      BY <3>2, <3>3
    <3> QED
      BY <2>3, <3>1, <3>3, <3>4, PieceIs, SMTT(60)
  <2>6. Len(all) >= 1 /\ all[1] = Line("size", k)
    BY <2>1, <2>4, <2>5 DEF IsChunk
  <2> QED
    BY <1>7, <2>4, <2>5, <2>6
<1> QED
  BY <1>8, <1>9

\* How a reply is framed, and where the header that says so is
IsSized(r) == r.framing \in {"sized", "both"}
IsInChunks(r) == r.framing \in {"chunked", "both"}
SizedAt(r) == 1 + r.others + (IF IsSized(r) THEN 1 ELSE 0)
ChunkedAt(r) == SizedAt(r) + (IF IsInChunks(r) THEN 1 ELSE 0)

\* What a server may send is of this form.
LEMMA ReplyFields ==
  ASSUME NEW r \in Replies
  PROVE  /\ r.status \in Nat /\ r.others \in Nat /\ r.body \in Seq(STRING)
         /\ r.size \in Nat \ {0} /\ r.framing \in {"sized", "chunked", "both", "none"}
         /\ SizedAt(r) \in Nat /\ ChunkedAt(r) \in Nat
<1>1. /\ r.status \in {200, 500} /\ r.others \in {0, MaxHeaders} /\ r.body \in Bodies
      /\ r.framing \in {"sized", "chunked", "both", "none"} /\ r.size \in Split
  BY DEF Replies
<1>2. r.status \in Nat /\ r.others \in Nat
  <2>1. MaxHeaders \in Nat
    BY ReplyAssumption
  <2>2. r.status \in Nat
    BY <1>1
  <2>3. r.others \in Nat
    BY <1>1, <2>1
  <2> QED
    BY <2>2, <2>3
<1>3. r.body \in Seq(STRING) /\ r.size \in Nat \ {0}
  <2>1. r.body \in Seq(STRING)
    <3>1. Bodies \subseteq Seq(STRING)
      BY ReplyAssumption
    <3> QED
      BY <1>1, <3>1
  <2>2. r.size \in Nat \ {0}
    <3>1. \A n \in Split : n \in Nat \ {0}
      BY ReplyAssumption
    <3>2. r.size \in Split
      BY <1>1
    <3> QED
      BY <3>1, <3>2, Zenon
  <2> QED
    BY <2>1, <2>2
<1>4. SizedAt(r) \in Nat
  BY <1>2 DEF SizedAt
<1>5. ChunkedAt(r) \in Nat
  BY <1>4 DEF ChunkedAt
<1> QED
  BY <1>1, <1>2, <1>3, <1>4, <1>5

\* The headers of a reply, one by one.
LEMMA HeadersAre ==
  ASSUME NEW r \in Replies
  PROVE  /\ Headers(r) \in Seq(Symbol) /\ Len(Headers(r)) = ChunkedAt(r) + 1
         /\ Headers(r)[1] = Line("status", r.status)
         /\ \A i \in 2..(1 + r.others) : Headers(r)[i] = Line("other", i - 1)
         /\ IsSized(r) => Headers(r)[SizedAt(r)] = Line("length", Len(r.body))
         /\ IsInChunks(r) => Headers(r)[ChunkedAt(r)] = Line("chunked", 0)
         /\ Headers(r)[ChunkedAt(r) + 1] = Blank
<1>1. PICK a : a = <<Line("status", r.status)>>
  OBVIOUS
<1>2. PICK b : b = [i \in 1..r.others |-> Line("other", i)]
  OBVIOUS
<1>3. PICK c : c = IF IsSized(r) THEN <<Line("length", Len(r.body))>> ELSE <<>>
  OBVIOUS
<1>4. PICK d : d = IF IsInChunks(r) THEN <<Line("chunked", 0)>> ELSE <<>>
  OBVIOUS
<1>5. PICK e : e = <<Blank>>
  OBVIOUS
<1>6. PICK n \in Nat : n = r.others
  BY ReplyFields
<1>7. a \in Seq(Symbol) /\ Len(a) = 1 /\ a[1] = Line("status", r.status)
  <2>1. Line("status", r.status) \in Symbol
    BY ReplyFields, InSymbol DEF LineNames
  <2> QED
    BY <1>1, <2>1
<1>8. b \in Seq(Symbol) /\ Len(b) = n /\ \A i \in 1..n : b[i] = Line("other", i)
  <2>1. "other" \in LineNames /\ \A i \in 1..n : i \in Nat
    BY DEF LineNames
  <2>2. \A i \in 1..n : Line("other", i) \in Symbol
    BY <2>1, InSymbol
  <2>3. b \in [1..n -> Symbol] /\ \A i \in 1..n : b[i] = Line("other", i)
    BY <1>2, <1>6, <2>2
  <2> QED
    BY <2>3, Listed
<1>9. /\ c \in Seq(Symbol) /\ Len(c) = (IF IsSized(r) THEN 1 ELSE 0)
      /\ IsSized(r) => c[1] = Line("length", Len(r.body))
  <2>1. Len(r.body) \in Nat
    BY ReplyFields
  <2>2. Line("length", Len(r.body)) \in Symbol
    BY <2>1, InSymbol DEF LineNames
  <2> QED
    BY <1>3, <2>2
<1>10. /\ d \in Seq(Symbol) /\ Len(d) = (IF IsInChunks(r) THEN 1 ELSE 0)
       /\ IsInChunks(r) => d[1] = Line("chunked", 0)
  <2>1. Line("chunked", 0) \in Symbol
    BY InSymbol DEF LineNames
  <2> QED
    BY <1>4, <2>1
<1>11. e \in Seq(Symbol) /\ Len(e) = 1 /\ e[1] = Blank
  <2>1. Blank \in Symbol
    BY InSymbol DEF LineNames, Blank
  <2> QED
    BY <1>5, <2>1
<1>12. PICK ab : ab = a \o b
  OBVIOUS
<1>13. PICK abc : abc = ab \o c
  OBVIOUS
<1>14. PICK abcd : abcd = abc \o d
  OBVIOUS
<1>15. PICK all : all = abcd \o e
  OBVIOUS
<1>16. Headers(r) = all
  BY <1>1, <1>2, <1>3, <1>4, <1>5, <1>12, <1>13, <1>14, <1>15 DEF Headers, IsSized, IsInChunks
<1>17. /\ a \in Seq(Symbol) /\ b \in Seq(Symbol) /\ c \in Seq(Symbol) /\ d \in Seq(Symbol)
       /\ e \in Seq(Symbol)
  BY <1>7, <1>8, <1>9, <1>10, <1>11
<1>18. /\ ab \in Seq(Symbol) /\ Len(ab) = Len(a) + Len(b)
       /\ \A i \in 1..Len(a) : ab[i] = a[i]
       /\ \A i \in 1..Len(b) : ab[Len(a) + i] = b[i]
  BY <1>12, <1>17, Joined
<1>19. /\ abc \in Seq(Symbol) /\ Len(abc) = Len(ab) + Len(c)
       /\ \A i \in 1..Len(ab) : abc[i] = ab[i]
       /\ \A i \in 1..Len(c) : abc[Len(ab) + i] = c[i]
  <2>1. ab \in Seq(Symbol)
    BY <1>18
  <2> QED
    BY <1>13, <1>17, <2>1, Joined
<1>20. /\ abcd \in Seq(Symbol) /\ Len(abcd) = Len(abc) + Len(d)
       /\ \A i \in 1..Len(abc) : abcd[i] = abc[i]
       /\ \A i \in 1..Len(d) : abcd[Len(abc) + i] = d[i]
  <2>1. abc \in Seq(Symbol)
    BY <1>19
  <2> QED
    BY <1>14, <1>17, <2>1, Joined
<1>21. /\ all \in Seq(Symbol) /\ Len(all) = Len(abcd) + Len(e)
       /\ \A i \in 1..Len(abcd) : all[i] = abcd[i]
       /\ \A i \in 1..Len(e) : all[Len(abcd) + i] = e[i]
  <2>1. abcd \in Seq(Symbol)
    BY <1>20
  <2> QED
    BY <1>15, <1>17, <2>1, Joined
<1>22. /\ Len(ab) = 1 + n /\ Len(abc) = SizedAt(r) /\ Len(abcd) = ChunkedAt(r)
       /\ SizedAt(r) = 1 + n + Len(c) /\ ChunkedAt(r) = SizedAt(r) + Len(d)
       /\ Len(c) \in 0..1 /\ Len(d) \in 0..1 /\ SizedAt(r) \in Nat /\ ChunkedAt(r) \in Nat
  <2>1. /\ SizedAt(r) = 1 + n + Len(c) /\ ChunkedAt(r) = SizedAt(r) + Len(d)
        /\ Len(c) \in 0..1 /\ Len(d) \in 0..1 /\ SizedAt(r) \in Nat /\ ChunkedAt(r) \in Nat
    BY <1>6, <1>9, <1>10, ReplyFields DEF SizedAt, ChunkedAt
  <2>2. Len(ab) = 1 + n
    BY <1>7, <1>8, <1>18
  <2>3. Len(abc) = SizedAt(r)
    BY <1>19, <2>1, <2>2
  <2> QED
    BY <1>20, <2>1, <2>2, <2>3
<1>23. \A i \in 1..(1 + n) : all[i] = ab[i]
  <2>1. \A i \in 1..(1 + n) : i \in 1..Len(ab) /\ i \in 1..Len(abc) /\ i \in 1..Len(abcd)
    BY <1>22
  <2> QED
    BY <1>19, <1>20, <1>21, <2>1
<1>24. all[1] = Line("status", r.status)
  <2>1. 1 \in 1..(1 + n) /\ 1 \in 1..Len(a)
    BY <1>7
  <2> QED
    BY <1>7, <1>18, <1>23, <2>1
<1>25. ASSUME NEW i \in 2..(1 + n) PROVE all[i] = Line("other", i - 1)
  <2>1. i \in 1..(1 + n) /\ i - 1 \in 1..n /\ i = 1 + (i - 1)
    OBVIOUS
  <2>2. ab[1 + (i - 1)] = b[i - 1]
    BY <1>7, <1>8, <1>18, <2>1
  <2> QED
    BY <1>8, <1>23, <2>1, <2>2
<1>26. ASSUME IsSized(r) PROVE all[SizedAt(r)] = Line("length", Len(r.body))
  <2>1. /\ Len(c) = 1 /\ 1 \in 1..Len(c) /\ SizedAt(r) = Len(ab) + 1
        /\ SizedAt(r) \in 1..Len(abc) /\ SizedAt(r) \in 1..Len(abcd)
    BY <1>9, <1>22, <1>26
  <2>2. all[SizedAt(r)] = abc[SizedAt(r)]
    BY <1>20, <1>21, <2>1
  <2>3. abc[Len(ab) + 1] = c[1]
    BY <1>19, <2>1
  <2> QED
    BY <1>9, <1>26, <2>1, <2>2, <2>3
<1>27. ASSUME IsInChunks(r) PROVE all[ChunkedAt(r)] = Line("chunked", 0)
  <2>1. /\ Len(d) = 1 /\ 1 \in 1..Len(d) /\ ChunkedAt(r) = Len(abc) + 1
        /\ ChunkedAt(r) \in 1..Len(abcd)
    BY <1>10, <1>22, <1>27
  <2>2. all[ChunkedAt(r)] = abcd[ChunkedAt(r)]
    BY <1>21, <2>1
  <2>3. abcd[Len(abc) + 1] = d[1]
    BY <1>20, <2>1
  <2> QED
    BY <1>10, <1>27, <2>1, <2>2, <2>3
<1>28. all[ChunkedAt(r) + 1] = Blank
  <2>1. 1 \in 1..Len(e) /\ ChunkedAt(r) + 1 = Len(abcd) + 1
    BY <1>11, <1>22
  <2>2. all[Len(abcd) + 1] = e[1]
    BY <1>21, <2>1
  <2> QED
    BY <1>11, <2>1, <2>2
<1>29. all \in Seq(Symbol) /\ Len(all) = ChunkedAt(r) + 1
  BY <1>11, <1>21, <1>22
<1> QED
  BY <1>6, <1>16, <1>24, <1>25, <1>26, <1>27, <1>28, <1>29

\* What follows the headers
Content(r) == IF IsInChunks(r) THEN Chunked(r.body, r.size) ELSE Bytes(r.body)

\* All that is written: the headers, and then the body as it is framed.
LEMMA WrittenIs ==
  ASSUME NEW r \in Replies
  PROVE  /\ Written(r) \in Seq(Symbol) /\ Headers(r) \in Seq(Symbol) /\ Content(r) \in Seq(Symbol)
         /\ Len(Written(r)) = ChunkedAt(r) + 1 + Len(Content(r))
         /\ \A i \in 1..(ChunkedAt(r) + 1) : Written(r)[i] = Headers(r)[i]
         /\ \A i \in 1..Len(Content(r)) : Written(r)[ChunkedAt(r) + 1 + i] = Content(r)[i]
<1>1. Content(r) \in Seq(Symbol)
  <2>1. 1 \in 1..(Len(r.body) + 1)
    BY ReplyFields
  <2>2. ChunksFrom(r.body, r.size)[1] \in Seq(Symbol)
    <3>1. PICK body \in Seq(STRING), size \in Nat \ {0} : body = r.body /\ size = r.size
      BY ReplyFields
    <3>2. PICK k : k = ChunkSize(body, size, 1)
      OBVIOUS
    <3>3. PICK all : all = ChunksFrom(body, size)[1]
      OBVIOUS
    <3>4. PICK rest : rest = ChunksFrom(body, size)[1 + k]
      OBVIOUS
    <3>5. 1 \in 1..(Len(body) + 1)
      BY <2>1, <3>1
    <3>6. all \in Seq(Symbol)
      BY <3>2, <3>3, <3>4, <3>5, ChunkIs
    <3> QED
      BY <3>1, <3>3, <3>6
  <2>3. Bytes(r.body) \in Seq(Symbol)
    BY ReplyFields, BytesAre
  <2> QED
    BY <2>2, <2>3 DEF Content, Chunked
<1>2. PICK heads \in Seq(Symbol), content \in Seq(Symbol) : heads = Headers(r) /\ content = Content(r)
  BY <1>1, HeadersAre
<1>3. PICK all : all = heads \o content
  OBVIOUS
<1>4. Written(r) = all
  BY <1>2, <1>3 DEF Written, Content, IsInChunks
<1>5. /\ all \in Seq(Symbol) /\ Len(all) = Len(heads) + Len(content)
      /\ \A i \in 1..Len(heads) : all[i] = heads[i]
      /\ \A i \in 1..Len(content) : all[Len(heads) + i] = content[i]
  BY <1>3, Joined
<1>6. Len(heads) = ChunkedAt(r) + 1
  BY <1>2, HeadersAre
<1> QED
  BY <1>1, <1>2, <1>4, <1>5, <1>6

\* What has arrived, where p symbols of all have been read, is what was sent as far as it goes;
\* a line may be cut.
Arrived(w, all, p) ==
  /\ w \in Seq(Symbol) /\ p + Len(w) <= Len(all)
  /\ \A i \in 1..Len(w) : w[i] = all[p + i] \/ (w[i] = Cut /\ IsLine(all[p + i]))

\* One symbol is read.
LEMMA ReadOne ==
  ASSUME NEW w, NEW all \in Seq(Symbol), NEW p \in Nat, Arrived(w, all, p), w # <<>>
  PROVE  /\ Head(w) = w[1] /\ Len(w) >= 1 /\ p + 1 <= Len(all)
         /\ Head(w) = all[p + 1] \/ (Head(w) = Cut /\ IsLine(all[p + 1]))
         /\ Arrived(Tail(w), all, p + 1)
<1>1. w \in Seq(Symbol) /\ Len(w) \in Nat \ {0} /\ Len(all) \in Nat /\ p + Len(w) <= Len(all)
  BY DEF Arrived
<1>2. Head(w) = w[1]
  BY <1>1
<1>3. /\ Tail(w) \in Seq(Symbol) /\ Len(Tail(w)) = Len(w) - 1
      /\ \A i \in 1..Len(Tail(w)) : Tail(w)[i] = w[i + 1]
  BY <1>1, HeadTailProperties
<1>4. PICK t : t = Tail(w)
  OBVIOUS
<1>5. ASSUME NEW i \in 1..Len(t)
      PROVE  t[i] = all[(p + 1) + i] \/ (t[i] = Cut /\ IsLine(all[(p + 1) + i]))
  <2>1. i + 1 \in 1..Len(w) /\ p + (i + 1) = (p + 1) + i
    BY <1>1, <1>3, <1>4
  <2>2. w[i + 1] = all[p + (i + 1)] \/ (w[i + 1] = Cut /\ IsLine(all[p + (i + 1)]))
    BY <2>1 DEF Arrived
  <2>3. t[i] = w[i + 1]
    BY <1>3, <1>4
  <2> QED
    BY <2>1, <2>2, <2>3
<1>6. (p + 1) + Len(t) <= Len(all)
  BY <1>1, <1>3, <1>4
<1>7. Arrived(t, all, p + 1)
  BY <1>3, <1>4, <1>5, <1>6 DEF Arrived
<1>8. w[1] = all[p + 1] \/ (w[1] = Cut /\ IsLine(all[p + 1]))
  <2>1. 1 \in 1..Len(w)
    BY <1>1
  <2> QED
    BY <2>1 DEF Arrived
<1> QED
  BY <1>1, <1>2, <1>4, <1>7, <1>8

\* What arrives of a reply, wherever the connection closes.
LEMMA ConnectionCloses ==
  ASSUME NEW all \in Seq(Symbol), NEW n \in 0..Len(all), NEW w,
         \/ w = SubSeq(all, 1, n)
         \/ n < Len(all) /\ IsLine(all[n + 1]) /\ w = Append(SubSeq(all, 1, n), Cut)
  PROVE  Arrived(w, all, 0)
<1>1. PICK s : s = SubSeq(all, 1, n)
  OBVIOUS
<1>2. Len(all) \in Nat /\ n \in Nat /\ n <= Len(all)
  OBVIOUS
<1>3. /\ s \in Seq(Symbol) /\ Len(s) = n
      /\ \A i \in 1..n : s[i] = all[i]
  <2>1. \A i \in 1..n : all[i] \in Symbol
    BY <1>2
  <2>2. 1 \in Int /\ n \in Int /\ n - 1 + 1 = n /\ (~(1 <= n) => n = 0)
    BY <1>2
  <2>3. /\ s \in Seq(Symbol) /\ Len(s) = IF 1 <= n THEN n - 1 + 1 ELSE 0
        /\ \A i \in 1..(n - 1 + 1) : s[i] = all[1 + i - 1]
    BY <1>1, <2>1, <2>2, SubSeqProperties
  <2>4. \A i \in 1..n : 1 + i - 1 = i
    OBVIOUS
  <2> QED
    BY <2>2, <2>3, <2>4
<1>4. CASE w = s
  BY <1>2, <1>3, <1>4 DEF Arrived
<1>5. CASE n < Len(all) /\ IsLine(all[n + 1]) /\ w = Append(s, Cut)
  <2>1. s \in Seq(Symbol) /\ Cut \in Symbol
    BY <1>3, InSymbol
  <2>2. /\ w \in Seq(Symbol) /\ Len(w) = Len(s) + 1
        /\ \A i \in 1..Len(s) : w[i] = s[i]
        /\ w[Len(s) + 1] = Cut
    BY <1>5, <2>1, AppendProperties
  <2>3. Len(w) = n + 1 /\ (\A i \in 1..n : w[i] = all[i]) /\ w[n + 1] = Cut
    BY <1>3, <2>2
  <2>4. \A i \in 1..Len(w) : i \in 1..n \/ i = n + 1
    BY <1>2, <2>3
  <2>5. \A i \in 1..Len(w) : 0 + i = i
    BY <1>2, <2>3
  <2> QED
    BY <1>2, <1>5, <2>2, <2>3, <2>4, <2>5 DEF Arrived
<1> QED
  BY <1>1, <1>4, <1>5

\* The reader has seen nothing of the reply r yet.
ReadsStatus(r) ==
  /\ reply = "none" /\ declared = <<>> /\ isChunked = FALSE /\ lines = 0 /\ got = <<>>
  /\ Arrived(onWire, Written(r), 0)

\* It has read some header lines and not the last, and knows what they told.
ReadsHeaders(r) ==
  /\ reply = "none" /\ got = <<>>
  /\ lines \in Nat /\ 1 + lines <= ChunkedAt(r)
  /\ Arrived(onWire, Written(r), 1 + lines)
  /\ declared = IF IsSized(r) /\ SizedAt(r) <= 1 + lines THEN <<Len(r.body)>> ELSE <<>>
  /\ isChunked <=> IsInChunks(r) /\ ChunkedAt(r) <= 1 + lines

\* It is to read a body that is not chunked, ...
ReadsBody(r) ==
  /\ reply = "none" /\ ~IsInChunks(r)
  /\ Arrived(onWire, Bytes(r.body), 0)
  /\ declared = IF IsSized(r) THEN <<Len(r.body)>> ELSE <<>>

\* ... or it has read some chunks of one, and is at the next.
ReadsChunks(r) ==
  /\ reply = "none" /\ IsInChunks(r)
  /\ got \in Seq(STRING) /\ Len(got) <= Len(r.body)
  /\ \A i \in 1..Len(got) : got[i] = r.body[i]
  /\ Arrived(onWire, ChunksFrom(r.body, r.size)[Len(got) + 1], 0)

\* What was read is what was meant.
IsWhole(r) ==
  IF r.framing = "none" THEN got = SubSeq(r.body, 1, Len(got)) /\ Len(got) <= MaxBody
                        ELSE got = r.body

\* Wherever the reader is, what it has not read is what is left of what was written.
ReplyInv ==
  \/ /\ stage = "idle" /\ reply = "none"
     /\ declared = <<>> /\ isChunked = FALSE /\ lines = 0 /\ got = <<>>
  \/ \E r \in Replies :
       /\ intended = <<r>>
       /\ \/ stage = "sent" /\ ReadsStatus(r)
          \/ stage = "headers" /\ ReadsHeaders(r)
          \/ stage = "sized" /\ ReadsBody(r)
          \/ stage = "chunked" /\ ReadsChunks(r)
          \/ stage = "done" /\ (reply = "ok" => IsWhole(r))

\* The header line at a place says what headers say there, and only the last is blank.
LEMMA HeaderAt ==
  ASSUME NEW r \in Replies, NEW q \in 2..(ChunkedAt(r) + 1)
  PROVE  LET l == Headers(r)[q] IN
         /\ l.line = "length" <=> IsSized(r) /\ q = SizedAt(r)
         /\ l.line = "length" => l.value = Len(r.body)
         /\ l.line = "chunked" <=> IsInChunks(r) /\ q = ChunkedAt(r)
         /\ l = Blank <=> q = ChunkedAt(r) + 1
<1>1. PICK n \in Nat, b \in Nat, c \in Nat :
        /\ n = r.others /\ b = SizedAt(r) /\ c = ChunkedAt(r)
        /\ b = 1 + n + (IF IsSized(r) THEN 1 ELSE 0) /\ c = b + (IF IsInChunks(r) THEN 1 ELSE 0)
  BY ReplyFields DEF SizedAt, ChunkedAt
<1>2. PICK l : l = Headers(r)[q]
  OBVIOUS
<1>3. Blank.line = ""
  BY Symbols DEF Blank
<1>4. CASE q \in 2..(1 + n)
  <2>1. l = Line("other", q - 1)
    BY <1>1, <1>2, <1>4, HeadersAre
  <2>2. l.line = "other"
    BY <2>1, Symbols
  <2>3. ~(IsSized(r) /\ q = b) /\ ~(IsInChunks(r) /\ q = c) /\ q # c + 1
    BY <1>1, <1>4
  <2> QED
    BY <1>1, <1>2, <1>3, <2>2, <2>3
<1>5. CASE IsSized(r) /\ q = b
  <2>1. l = Line("length", Len(r.body))
    BY <1>1, <1>2, <1>5, HeadersAre
  <2>2. l.line = "length" /\ l.value = Len(r.body)
    BY <2>1, Symbols
  <2>3. ~(IsInChunks(r) /\ q = c) /\ q # c + 1
    BY <1>1, <1>5
  <2> QED
    BY <1>1, <1>2, <1>3, <1>5, <2>2, <2>3
<1>6. CASE IsInChunks(r) /\ q = c
  <2>1. l = Line("chunked", 0)
    BY <1>1, <1>2, <1>6, HeadersAre
  <2>2. l.line = "chunked"
    BY <2>1, Symbols
  <2>3. ~(IsSized(r) /\ q = b) /\ q # c + 1
    BY <1>1, <1>6
  <2> QED
    BY <1>1, <1>2, <1>3, <1>6, <2>2, <2>3
<1>7. CASE q = c + 1
  <2>1. l = Blank
    BY <1>1, <1>2, <1>7, HeadersAre
  <2>2. ~(IsSized(r) /\ q = b) /\ ~(IsInChunks(r) /\ q = c)
    BY <1>1, <1>7
  <2> QED
    BY <1>1, <1>2, <1>3, <1>7, <2>1, <2>2
<1>8. q \in 2..(1 + n) \/ (IsSized(r) /\ q = b) \/ (IsInChunks(r) /\ q = c) \/ q = c + 1
  BY <1>1
<1> QED
  BY <1>4, <1>5, <1>6, <1>7, <1>8

\* A reader that meant nothing yet has read nothing.
LEMMA ReplyStarts == ReplyInit => ReplyInv
  BY DEF ReplyInit, ReplyInv

\* The status line: what follows it are the headers.
LEMMA StatusStays ==
  ASSUME NEW r \in Replies, ReadsStatus(r), ReadStatus, stage = "sent", intended = <<r>>
  PROVE  ReplyInv'
<1>1. UNCHANGED <<intended, declared, isChunked, lines, got>>
  BY DEF ReadStatus
<1>2. CASE Fail
  <2>1. stage' = "done" /\ reply' = "error"
    BY <1>2 DEF Fail
  <2> QED
    BY <1>1, <2>1 DEF ReplyInv
<1>3. CASE ~Fail
  <2>1. onWire # <<>> /\ onWire' = Tail(onWire) /\ stage' = "headers" /\ reply' = reply
    BY <1>3 DEF ReadStatus
  <2>2. Arrived(onWire, Written(r), 0) /\ Written(r) \in Seq(Symbol)
    BY WrittenIs DEF ReadsStatus
  <2>3. Arrived(onWire', Written(r), 0 + 1)
    BY <2>1, <2>2, ReadOne
  <2>4. lines = 0 /\ declared = <<>> /\ isChunked = FALSE /\ got = <<>> /\ reply = "none"
    BY DEF ReadsStatus
  <2>5. 1 + 0 <= ChunkedAt(r) /\ (IsSized(r) => ~(SizedAt(r) <= 1))
        /\ (IsInChunks(r) => ~(ChunkedAt(r) <= 1))
    BY ReplyFields DEF SizedAt, ChunkedAt
  <2>6. ReadsHeaders(r)'
    BY <1>1, <2>1, <2>3, <2>4, <2>5 DEF ReadsHeaders
  <2> QED
    BY <1>1, <2>1, <2>6 DEF ReplyInv
<1> QED
  BY <1>2, <1>3

\* A header line: the last one leaves the reader at the body, knowing how it is framed.
LEMMA HeaderStays ==
  ASSUME NEW r \in Replies, ReadsHeaders(r), ReadHeader, stage = "headers", intended = <<r>>
  PROVE  ReplyInv'
<1>1. UNCHANGED <<intended, got>>
  BY DEF ReadHeader
<1>2. CASE Fail
  <2>1. stage' = "done" /\ reply' = "error"
    BY <1>2 DEF Fail
  <2> QED
    BY <1>1, <2>1 DEF ReplyInv
<1>3. CASE ~Fail
  <2>1. /\ onWire # <<>> /\ Head(onWire) # Cut /\ onWire' = Tail(onWire) /\ lines' = lines + 1
        /\ reply' = reply
    BY <1>3 DEF ReadHeader
  <2>2. PICK l : l = Head(onWire)
    OBVIOUS
  <2>3. /\ declared' = IF l.line = "length" THEN <<l.value>> ELSE declared
        /\ isChunked' = (isChunked \/ l.line = "chunked")
        /\ stage' = IF l # Blank THEN "headers" ELSE IF isChunked THEN "chunked" ELSE "sized"
    BY <1>3, <2>1, <2>2 DEF ReadHeader
  <2>4. PICK q : q = lines + 2
    OBVIOUS
  <2>5. /\ lines \in Nat /\ ChunkedAt(r) \in Nat /\ SizedAt(r) \in Nat
        /\ q \in 2..(ChunkedAt(r) + 1) /\ q = (1 + lines) + 1 /\ 1 + lines' = q
        /\ q \in 1..(ChunkedAt(r) + 1) /\ 1 + lines \in Nat
    BY <2>1, <2>4, ReplyFields DEF ReadsHeaders
  <2>6. Arrived(onWire, Written(r), 1 + lines) /\ Written(r) \in Seq(Symbol)
    BY WrittenIs DEF ReadsHeaders
  <2>7. /\ l = Written(r)[(1 + lines) + 1] \/ l = Cut
        /\ Arrived(onWire', Written(r), (1 + lines) + 1)
    BY <2>1, <2>2, <2>5, <2>6, ReadOne
  <2>8. l = Headers(r)[q] /\ Arrived(onWire', Written(r), q)
    BY <2>1, <2>2, <2>5, <2>7, WrittenIs
  <2>9. /\ l.line = "length" <=> IsSized(r) /\ q = SizedAt(r)
        /\ l.line = "length" => l.value = Len(r.body)
        /\ l.line = "chunked" <=> IsInChunks(r) /\ q = ChunkedAt(r)
        /\ l = Blank <=> q = ChunkedAt(r) + 1
    BY <2>5, <2>8, HeaderAt
  <2>10. declared' = IF IsSized(r) /\ SizedAt(r) <= q THEN <<Len(r.body)>> ELSE <<>>
    <3>1. declared = IF IsSized(r) /\ SizedAt(r) <= 1 + lines THEN <<Len(r.body)>> ELSE <<>>
      BY DEF ReadsHeaders
    <3>2. SizedAt(r) <= q <=> SizedAt(r) <= 1 + lines \/ q = SizedAt(r)
      BY <2>5
    <3> QED
      BY <2>3, <2>9, <3>1, <3>2
  <2>11. isChunked' <=> IsInChunks(r) /\ ChunkedAt(r) <= q
    <3>1. isChunked <=> IsInChunks(r) /\ ChunkedAt(r) <= 1 + lines
      BY DEF ReadsHeaders
    <3>2. ChunkedAt(r) <= q <=> ChunkedAt(r) <= 1 + lines \/ q = ChunkedAt(r)
      BY <2>5
    <3>3. isChunked' <=> isChunked \/ l.line = "chunked"
      BY <2>3
    <3> QED
      BY <2>9, <3>1, <3>2, <3>3
  <2>12. CASE l # Blank
    <3>1. stage' = "headers" /\ lines' \in Nat /\ 1 + lines' <= ChunkedAt(r)
      BY <2>1, <2>3, <2>5, <2>9, <2>12
    <3>2. ReadsHeaders(r)'
      BY <1>1, <2>1, <2>5, <2>8, <2>10, <2>11, <3>1 DEF ReadsHeaders
    <3> QED
      BY <1>1, <3>1, <3>2 DEF ReplyInv
  <2>13. CASE l = Blank
    <3>1. q = ChunkedAt(r) + 1 /\ SizedAt(r) <= q /\ ChunkedAt(r) <= 1 + lines
      BY <2>5, <2>9, <2>13, ReplyFields DEF SizedAt, ChunkedAt
    <3>2. Arrived(onWire', Content(r), 0)
      <4>1. PICK w, all, content : w = onWire' /\ all = Written(r) /\ content = Content(r)
        OBVIOUS
      <4> PICK p \in Nat : p = ChunkedAt(r) + 1
        BY <2>5
      <4>2. /\ w \in Seq(Symbol) /\ p + Len(w) <= Len(all)
            /\ \A i \in 1..Len(w) : w[i] = all[p + i] \/ (w[i] = Cut /\ IsLine(all[p + i]))
        BY <2>8, <3>1, <4>1 DEF Arrived
      <4>3. /\ content \in Seq(Symbol) /\ Len(all) = p + Len(content)
            /\ \A i \in 1..Len(content) : all[p + i] = content[i]
        BY <4>1, WrittenIs
      <4>4. Len(w) \in Nat /\ Len(content) \in Nat /\ Len(w) <= Len(content)
        BY <4>2, <4>3
      <4>5. \A i \in 1..Len(w) : i \in 1..Len(content) /\ 0 + i = i
        BY <4>4
      <4> QED
        BY <4>1, <4>2, <4>3, <4>4, <4>5 DEF Arrived
    <3>3. isChunked <=> IsInChunks(r)
      BY <3>1 DEF ReadsHeaders
    <3>4. got' = <<>> /\ reply' = "none"
      BY <1>1, <2>1 DEF ReadsHeaders
    <3>5. CASE IsInChunks(r)
      <4>1. stage' = "chunked"
        BY <2>3, <2>13, <3>3, <3>5
      <4>2. Content(r) = ChunksFrom(r.body, r.size)[1]
        BY <3>5 DEF Content, Chunked
      <4>3. Len(got') = 0 /\ got' \in Seq(STRING) /\ Len(r.body) \in Nat
        BY <3>4, ReplyFields
      <4>4. Len(got') + 1 = 1 /\ Len(got') <= Len(r.body) /\ \A i \in 1..Len(got') : got'[i] = r.body[i]
        BY <4>3
      <4>5. ReadsChunks(r)'
        BY <3>2, <3>4, <3>5, <4>2, <4>3, <4>4 DEF ReadsChunks
      <4> QED
        BY <1>1, <4>1, <4>5 DEF ReplyInv
    <3>6. CASE ~IsInChunks(r)
      <4>1. stage' = "sized"
        BY <2>3, <2>13, <3>3, <3>6
      <4>2. Content(r) = Bytes(r.body)
        BY <3>6 DEF Content
      <4>3. declared' = IF IsSized(r) THEN <<Len(r.body)>> ELSE <<>>
        BY <2>10, <3>1
      <4>4. ReadsBody(r)'
        BY <3>2, <3>4, <3>6, <4>2, <4>3 DEF ReadsBody
      <4> QED
        BY <1>1, <4>1, <4>4 DEF ReplyInv
    <3> QED
      BY <3>5, <3>6
  <2> QED
    BY <2>12, <2>13
<1> QED
  BY <1>2, <1>3

\* A body of a declared length, or of none.
LEMMA BodyStays ==
  ASSUME NEW r \in Replies, ReadsBody(r), ReadSized, stage = "sized", intended = <<r>>
  PROVE  ReplyInv'
<1>1. UNCHANGED <<intended>> /\ stage' = "done"
  BY DEF ReadSized, Fail, Finish
<1>2. CASE reply' # "ok"
  BY <1>1, <1>2 DEF ReplyInv
<1>3. CASE reply' = "ok"
  <2>1. ~(declared # <<>> /\ declared[1] > Len(onWire))
    BY <1>3 DEF ReadSized, Fail
  <2>2. PICK n : n = IF declared # <<>> THEN declared[1]
                     ELSE IF Len(onWire) < MaxBody THEN Len(onWire) ELSE MaxBody
    OBVIOUS
  <2>3. got' = [i \in 1..n |-> onWire[i].byte]
    BY <2>1, <2>2 DEF ReadSized
  <2> PICK w : w = onWire
    OBVIOUS
  <2>4. PICK body \in Seq(STRING) : w = onWire /\ body = r.body
    BY ReplyFields
  <2>5. PICK bytes : bytes = Bytes(body)
    OBVIOUS
  <2>6. /\ w \in Seq(Symbol) /\ 0 + Len(w) <= Len(bytes)
        /\ \A i \in 1..Len(w) : w[i] = bytes[0 + i] \/ (w[i] = Cut /\ IsLine(bytes[0 + i]))
    BY <2>4, <2>5 DEF ReadsBody, Arrived
  <2>7. /\ bytes \in Seq(Symbol) /\ Len(bytes) = Len(body)
        /\ \A i \in 1..Len(body) : bytes[i] = Byte(body[i])
    BY <2>5, BytesAre
  <2>8. Len(w) \in Nat /\ Len(body) \in Nat /\ Len(w) <= Len(body)
    BY <2>6, <2>7
  <2>9. ASSUME NEW i \in 1..Len(w) PROVE w[i].byte = body[i]
    <3>1. i \in 1..Len(body) /\ 0 + i = i
      BY <2>8
    <3>2. bytes[i] = Byte(body[i]) /\ ~IsLine(bytes[i])
      BY <2>7, <3>1, Symbols
    <3>3. w[i] = Byte(body[i])
      BY <2>6, <3>1, <3>2
    <3> QED
      BY <3>3, Symbols
  <2>10. MaxBody \in Nat
    BY ReplyAssumption
  <2>11. declared = IF IsSized(r) THEN <<Len(body)>> ELSE <<>>
    BY <2>4 DEF ReadsBody
  <2>12. CASE IsSized(r)
    <3>1. declared # <<>> /\ declared[1] = Len(body)
      <4>1. declared = <<Len(body)>>
        BY <2>11, <2>12
      <4>2. <<Len(body)>> # <<>> /\ <<Len(body)>>[1] = Len(body)
        OBVIOUS
      <4> QED
        BY <4>1, <4>2, Zenon
    <3>2. n = Len(body) /\ Len(w) = Len(body)
      BY <2>1, <2>2, <2>4, <2>8, <3>1
    <3>3. got' = [i \in 1..Len(body) |-> body[i]]
      BY <2>3, <2>4, <2>9, <3>2
    <3>4. got' = body
      BY <2>4, <3>3, SMTT(30)
    <3>5. r.framing # "none"
      BY <2>12 DEF IsSized
    <3>6. IsWhole(r)'
      BY <2>4, <3>4, <3>5 DEF IsWhole
    <3> QED
      BY <1>1, <3>6 DEF ReplyInv
  <2>13. CASE ~IsSized(r)
    <3>1. declared = <<>>
      BY <2>11, <2>13
    <3>2. n \in Nat /\ n <= Len(w) /\ n <= MaxBody
      BY <2>2, <2>4, <2>8, <2>10, <3>1
    <3>3. got' = [i \in 1..n |-> body[i]]
      <4>1. \A i \in 1..n : i \in 1..Len(w)
        BY <2>8, <3>2
      <4> QED
        BY <2>3, <2>4, <2>9, <4>1
    <3>4. got' = SubSeq(body, 1, n) /\ Len(got') = n
      <4>1. got' \in [1..n -> STRING]
        BY <2>4, <2>8, <3>2, <3>3
      <4>2. got' \in Seq(STRING) /\ Len(got') = n
        BY <3>2, <4>1, Listed
      <4>3. SubSeq(body, 1, n) = [i \in 1..n |-> body[i]]
        BY <2>4, <2>8, <3>2
      <4> QED
        BY <3>3, <4>2, <4>3
    <3>5. r.framing = "none"
      BY <2>13, ReplyFields DEF ReadsBody, IsSized, IsInChunks
    <3>6. IsWhole(r)'
      BY <2>4, <3>2, <3>4, <3>5 DEF IsWhole
    <3> QED
      BY <1>1, <3>6 DEF ReplyInv
  <2> QED
    BY <2>12, <2>13
<1> QED
  BY <1>2, <1>3

\* A chunk: what it adds to the body is the next of what was meant, and the empty one comes
\* when there is nothing left.
LEMMA ChunkStays ==
  ASSUME NEW r \in Replies, ReadsChunks(r), ReadChunk, stage = "chunked", intended = <<r>>
  PROVE  ReplyInv'
<1>1. UNCHANGED <<intended>>
  BY DEF ReadChunk
<1>2. CASE Fail
  <2>1. stage' = "done" /\ reply' = "error"
    BY <1>2 DEF Fail
  <2> QED
    BY <1>1, <2>1 DEF ReplyInv
<1>3. CASE ~Fail
  <2>1. PICK body \in Seq(STRING), size \in Nat \ {0} : body = r.body /\ size = r.size
    BY ReplyFields
  <2>2. PICK have \in Seq(STRING) : have = got
    BY DEF ReadsChunks
  <2>3. PICK from : from = Len(have) + 1
    OBVIOUS
  <2>4. /\ from \in 1..(Len(body) + 1) /\ Len(have) \in Nat /\ Len(body) \in Nat
        /\ \A i \in 1..Len(have) : have[i] = body[i]
    BY <2>1, <2>2, <2>3 DEF ReadsChunks
  <2>5. PICK k : k = ChunkSize(body, size, from)
    OBVIOUS
  <2>6. k \in Nat /\ (k = 0 <=> from = Len(body) + 1) /\ from + k \in 1..(Len(body) + 1)
    BY <2>4, <2>5, SizeOfChunk
  <2>7. PICK all : all = ChunksFrom(body, size)[from]
    OBVIOUS
  <2>8. PICK rest : rest = ChunksFrom(body, size)[from + k]
    OBVIOUS
  <2>9. /\ all \in Seq(Symbol) /\ rest \in Seq(Symbol) /\ all[1] = Line("size", k)
        /\ k # 0 => /\ Len(all) = k + 3 + Len(rest)
                    /\ \A i \in 1..k : all[1 + i] = Byte(body[from + i - 1])
                    /\ \A i \in 1..Len(rest) : all[k + 3 + i] = rest[i]
    <3>1. from \in 1..(Len(body) + 1)
      BY <2>4
    <3>2. /\ all \in Seq(Symbol) /\ rest \in Seq(Symbol) /\ all[1] = Line("size", k)
          /\ k # 0 => IsChunk(all, k, body, from, rest)
      BY <2>5, <2>7, <2>8, <3>1, ChunkIs
    <3> QED
      BY <3>2 DEF IsChunk
  <2>10. PICK w : w = onWire
    OBVIOUS
  <2>11. Arrived(w, all, 0)
    BY <2>1, <2>2, <2>3, <2>7, <2>10 DEF ReadsChunks
  <2>12. w # <<>> /\ Head(w) # Cut
    BY <1>3, <2>10 DEF ReadChunk
  <2>13. Head(w) = Line("size", k)
    <3>1. Head(w) = all[0 + 1] \/ Head(w) = Cut
      BY <2>9, <2>11, <2>12, ReadOne
    <3> QED
      BY <2>9, <2>12, <3>1
  <2>14. Head(w).value = k
    BY <2>13, Symbols
  <2>15. IsInChunks(r) /\ reply = "none"
    BY DEF ReadsChunks
  <2>16. CASE k = 0
    <3>1. stage' = "done" /\ got' = got
      BY <1>3, <2>10, <2>12, <2>14, <2>16 DEF ReadChunk, Finish
    <3>2. have = body
      <4>1. Len(have) = Len(body)
        BY <2>3, <2>4, <2>6, <2>16
      <4> QED
        BY <2>4, <4>1
    <3>3. r.framing # "none"
      BY <2>15 DEF IsInChunks
    <3>4. IsWhole(r)'
      BY <2>1, <2>2, <3>1, <3>2, <3>3 DEF IsWhole
    <3> QED
      BY <1>1, <3>1, <3>4 DEF ReplyInv
  <2>17. CASE k # 0
    <3>1. PICK f : f = [i \in 1..k |-> w[1 + i].byte]
      OBVIOUS
    <3>2. /\ Len(w) >= 1 + k + 2 /\ got' = have \o f /\ onWire' = SubSeq(w, k + 4, Len(w))
          /\ stage' = stage /\ reply' = reply
      <4>1. onWire # <<>> /\ Head(onWire) # Cut /\ Head(onWire).value = k
        BY <2>10, <2>12, <2>14
      <4>2. ~(Len(got) + k > MaxBody \/ Len(onWire) < 1 + k + 2)
        BY <1>3, <2>17, <4>1 DEF ReadChunk
      <4>3. /\ got' = got \o [i \in 1..k |-> onWire[1 + i].byte]
            /\ onWire' = SubSeq(onWire, k + 4, Len(onWire))
            /\ stage' = stage /\ reply' = reply
        BY <2>17, <4>1, <4>2 DEF ReadChunk
      <4>4. Len(onWire) >= 1 + k + 2
        <5>1. Len(onWire) \in Nat
          BY <2>10, <2>11 DEF Arrived
        <5> QED
          BY <2>6, <4>2, <5>1
      <4> QED
        BY <2>2, <2>10, <3>1, <4>3, <4>4
    <3>3. /\ w \in Seq(Symbol) /\ Len(w) \in Nat /\ Len(w) <= Len(all)
          /\ \A i \in 1..Len(w) : w[i] = all[i] \/ (w[i] = Cut /\ IsLine(all[i]))
      <4>1. /\ w \in Seq(Symbol) /\ 0 + Len(w) <= Len(all)
            /\ \A i \in 1..Len(w) : w[i] = all[0 + i] \/ (w[i] = Cut /\ IsLine(all[0 + i]))
        BY <2>11 DEF Arrived
      <4>2. Len(w) \in Nat /\ Len(all) \in Nat
        BY <2>9, <4>1
      <4>3. 0 + Len(w) = Len(w) /\ \A i \in 1..Len(w) : 0 + i = i
        BY <4>2
      <4> QED
        BY <4>1, <4>2, <4>3
    <3>4. ASSUME NEW i \in 1..k PROVE f[i] = body[from + i - 1] /\ f[i] \in STRING
      <4>1. 1 + i \in 1..Len(w) /\ from + i - 1 \in 1..Len(body)
        BY <2>4, <2>6, <3>2, <3>3
      <4>2. all[1 + i] = Byte(body[from + i - 1])
        BY <2>9, <2>17
      <4>3. w[1 + i] = Byte(body[from + i - 1])
        BY <3>3, <4>1, <4>2, Symbols
      <4>4. f[i] = body[from + i - 1]
        BY <3>1, <4>3, Symbols
      <4> QED
        BY <4>1, <4>4
    <3>5. f \in Seq(STRING) /\ Len(f) = k
      <4>1. f \in [1..k -> STRING]
        BY <3>1, <3>4
      <4> QED
        BY <2>6, <4>1, Listed
    <3>6. PICK now : now = have \o f
      OBVIOUS
    <3>7. /\ now \in Seq(STRING) /\ Len(now) = Len(have) + Len(f)
          /\ \A i \in 1..Len(have) : now[i] = have[i]
          /\ \A i \in 1..Len(f) : now[Len(have) + i] = f[i]
      <4>1. have \in Seq(STRING) /\ f \in Seq(STRING)
        BY <3>5
      <4> QED
        BY <3>6, <4>1, Joined
    <3>8. Len(now) = Len(have) + k /\ Len(now) + 1 = from + k /\ Len(now) <= Len(body)
      BY <2>3, <2>4, <2>6, <3>5, <3>7
    <3>9. ASSUME NEW i \in 1..Len(now) PROVE now[i] = body[i]
      <4>1. CASE i \in 1..Len(have)
        BY <2>4, <3>7, <4>1
      <4>2. CASE i \notin 1..Len(have)
        <5>1. i - Len(have) \in 1..k /\ Len(have) + (i - Len(have)) = i
              /\ from + (i - Len(have)) - 1 = i
          BY <2>3, <2>4, <2>6, <3>8, <4>2
        <5>2. now[Len(have) + (i - Len(have))] = f[i - Len(have)]
          BY <3>5, <3>7, <5>1
        <5>3. f[i - Len(have)] = body[from + (i - Len(have)) - 1]
          BY <3>4, <5>1
        <5> QED
          BY <5>1, <5>2, <5>3
      <4> QED
        BY <4>1, <4>2
    <3>10. PICK v : v = SubSeq(w, k + 4, Len(w))
      OBVIOUS
    <3>11. Arrived(v, rest, 0)
      <4>1. PICK m \in Int : m = k + 4
        BY <2>6
      <4>2. PICK n \in Int : n = Len(w)
        BY <3>3
      <4>3. /\ n - m + 1 = n - (k + 3) /\ n - (k + 3) \in Nat /\ m >= 1
            /\ ~(m <= n) => n - (k + 3) = 0
        <5>1. n \in Int /\ m \in Int /\ k \in Nat /\ m = k + 4 /\ n >= 1 + k + 2
          BY <2>6, <3>2, <4>1, <4>2
        <5>2. n >= k + 3
          BY <5>1
        <5>3. n - m + 1 = n - (k + 3) /\ m >= 1
          BY <5>1
        <5>4. n - (k + 3) \in Nat /\ (~(m <= n) => n - (k + 3) = 0)
          BY <5>1, <5>2
        <5> QED
          BY <5>3, <5>4
      <4>4. \A i \in m..n : w[i] \in Symbol
        BY <3>3, <4>2, <4>3
      <4>5. /\ v \in Seq(Symbol) /\ Len(v) = IF m <= n THEN n - m + 1 ELSE 0
            /\ \A i \in 1..(n - m + 1) : v[i] = w[m + i - 1]
        <5>1. v = SubSeq(w, m, n)
          BY <3>10, <4>1, <4>2
        <5> QED
          BY <4>4, <5>1, SubSeqProperties
      <4>6. Len(v) = n - (k + 3)
        BY <4>3, <4>5
      <4>7. Len(rest) \in Nat /\ Len(all) = k + 3 + Len(rest)
        BY <2>9, <2>17
      <4>8. 0 + Len(v) <= Len(rest)
        <5>1. PICK l \in Nat : l = Len(rest)
          BY <4>7
        <5>2. n <= k + 3 + l
          BY <3>3, <4>2, <4>7, <5>1
        <5>3. n - (k + 3) <= l
          BY <2>6, <5>1, <5>2
        <5>4. PICK h \in Nat : h = Len(v)
          BY <4>3, <4>6
        <5>5. 0 + h <= l
          BY <4>6, <5>3, <5>4
        <5> QED
          BY <5>1, <5>4, <5>5
      <4>9. ASSUME NEW i \in 1..Len(v)
            PROVE  v[i] = rest[0 + i] \/ (v[i] = Cut /\ IsLine(rest[0 + i]))
        <5>1. /\ i \in 1..(n - m + 1) /\ m + i - 1 = k + 3 + i /\ k + 3 + i \in 1..Len(w)
              /\ i \in 1..Len(rest) /\ 0 + i = i
          BY <2>6, <4>1, <4>2, <4>3, <4>6, <4>7, <4>8
        <5>2. v[i] = w[k + 3 + i]
          BY <4>5, <5>1
        <5>3. all[k + 3 + i] = rest[i]
          BY <2>9, <2>17, <5>1
        <5>4. w[k + 3 + i] = all[k + 3 + i] \/ (w[k + 3 + i] = Cut /\ IsLine(all[k + 3 + i]))
          BY <3>3, <5>1
        <5> QED
          BY <5>1, <5>2, <5>3, <5>4
      <4> QED
        BY <4>5, <4>8, <4>9 DEF Arrived
    <3>12. got' = now /\ onWire' = v /\ rest = ChunksFrom(body, size)[Len(now) + 1]
      BY <2>8, <3>2, <3>6, <3>8, <3>10
    <3>13. ReadsChunks(r)'
      BY <2>1, <2>15, <3>2, <3>7, <3>8, <3>9, <3>11, <3>12 DEF ReadsChunks
    <3>14. stage' = "chunked"
      BY <3>2
    <3> QED
      BY <1>1, <3>13, <3>14 DEF ReplyInv
  <2> QED
    BY <2>16, <2>17
<1> QED
  BY <1>2, <1>3

\* A request: whatever of its reply arrives is what was written, as far as it goes.
LEMMA RequestSent ==
  ASSUME NEW r \in Replies, Request(r), ReplyInv, stage = "idle"
  PROVE  ReplyInv'
<1>1. reply = "none" /\ declared = <<>> /\ isChunked = FALSE /\ lines = 0 /\ got = <<>>
  BY DEF ReplyInv
<1>2. PICK all \in Seq(Symbol) : all = Written(r)
  BY WrittenIs
<1>3. PICK n \in 0..Len(all) :
        \/ onWire' = SubSeq(all, 1, n)
        \/ n < Len(all) /\ IsLine(all[n + 1]) /\ onWire' = Append(SubSeq(all, 1, n), Cut)
  BY <1>2 DEF Request
<1>4. Arrived(onWire', all, 0)
  BY <1>3, ConnectionCloses
<1>5. /\ intended' = <<r>> /\ stage' = "sent"
      /\ UNCHANGED <<declared, isChunked, lines, got, reply>>
  BY DEF Request
<1>6. ReadsStatus(r)'
  BY <1>1, <1>2, <1>4, <1>5 DEF ReadsStatus
<1> QED
  BY <1>5, <1>6 DEF ReplyInv

\* Every step of the reader keeps it.
LEMMA ReplyStays == ReplyInv /\ [ReplyNext]_replyVars => ReplyInv'
<1> SUFFICES ASSUME ReplyInv, [ReplyNext]_replyVars PROVE ReplyInv'
  OBVIOUS
<1>1. ASSUME NEW r \in Replies, stage = "idle", Request(r) PROVE ReplyInv'
  BY <1>1, RequestSent
<1>2. CASE ReadStatus
  <2>1. stage = "sent"
    BY <1>2 DEF ReadStatus
  <2>2. PICK r \in Replies : intended = <<r>> /\ ReadsStatus(r)
    BY <2>1 DEF ReplyInv
  <2> QED
    BY <1>2, <2>1, <2>2, StatusStays
<1>3. CASE ReadHeader
  <2>1. stage = "headers"
    BY <1>3 DEF ReadHeader
  <2>2. PICK r \in Replies : intended = <<r>> /\ ReadsHeaders(r)
    BY <2>1 DEF ReplyInv
  <2> QED
    BY <1>3, <2>1, <2>2, HeaderStays
<1>4. CASE ReadSized
  <2>1. stage = "sized"
    BY <1>4 DEF ReadSized
  <2>2. PICK r \in Replies : intended = <<r>> /\ ReadsBody(r)
    BY <2>1 DEF ReplyInv
  <2> QED
    BY <1>4, <2>1, <2>2, BodyStays
<1>5. CASE ReadChunk
  <2>1. stage = "chunked"
    BY <1>5 DEF ReadChunk
  <2>2. PICK r \in Replies : intended = <<r>> /\ ReadsChunks(r)
    BY <2>1 DEF ReplyInv
  <2> QED
    BY <1>5, <2>1, <2>2, ChunkStays
<1>6. CASE UNCHANGED replyVars
  BY <1>6 DEF replyVars, ReplyInv, ReadsStatus, ReadsHeaders, ReadsBody, ReadsChunks, IsWhole
<1> QED
  BY <1>1, <1>2, <1>3, <1>4, <1>5, <1>6 DEF ReplyNext

\* What it says of the end of a reply is the property.
LEMMA ReplyTells == ReplyInv => ReplyIsWholeOrRefused
<1> SUFFICES ASSUME ReplyInv, reply = "ok" PROVE ReplyIsWholeOrRefused
  BY DEF ReplyIsWholeOrRefused
<1>1. PICK r \in Replies : intended = <<r>> /\ IsWhole(r)
  BY DEF ReplyInv, ReadsStatus, ReadsHeaders, ReadsBody, ReadsChunks
<1>2. intended[1] = r
  BY <1>1
<1> QED
  BY <1>1, <1>2 DEF IsWhole, ReplyIsWholeOrRefused

-----------------------------------------------------------------------------
(* One incident's content *)

IsPayload(p) ==
  /\ p = [latitude |-> p.latitude, longitude |-> p.longitude, accuracy |-> p.accuracy,
          captured |-> p.captured, source |-> p.source, description |-> p.description,
          severity |-> p.severity, incident |-> p.incident]
  /\ p.latitude \in Optional(Pairs) /\ p.longitude \in Optional(Pairs)
  /\ p.accuracy \in Optional(Pairs) /\ p.captured \in Optional(Pairs)
  /\ p.description \in Texts

IsEvent(e) ==
  /\ e = [id |-> e.id, key |-> e.key, created |-> e.created, json |-> e.json,
          payload |-> e.payload]
  /\ e.created \in Pairs /\ IsPayload(e.payload)

\* An event, once there is one, is in every row as it was projected, and on the air as it was
\* encoded; and what was made here was projected here.
RecordInv ==
  \/ /\ author = "none" /\ event = <<>> /\ mine = <<>> /\ wire = <<>>
     /\ theirs = [quic |-> <<>>, lora |-> <<>>]
  \/ \E e :
       /\ IsEvent(e) /\ event = <<e>>
       /\ mine \in {<<>>, Project(e)}
       /\ wire \in {<<>>, EncodeEvent(e)}
       /\ theirs \in [quic : {<<>>, Project(e)}, lora : {<<>>, Project(e)}]
       /\ author = "here" => mine # <<>>

\* An optional value is there or not.
LEMMA Optionals ==
  ASSUME NEW S
  PROVE  /\ <<>> \in Optional(S) /\ \A x \in S : <<x>> \in Optional(S)
         /\ \A o \in Optional(S) : o = <<>> \/ \E x \in S : o = <<x>>
<1>1. <<>> \in Optional(S) /\ \A x \in S : <<x>> \in Optional(S)
  BY DEF Optional
<1>2. ASSUME NEW o \in Optional(S), o # <<>> PROVE \E x \in S : o = <<x>>
  <2>1. o \in Seq(S) /\ Len(o) <= 1
    BY <1>2 DEF Optional
  <2>3. PICK n \in Nat \ {0} : n = Len(o)
    BY <1>2, <2>1, EmptySeq
  <2>4. n = 1
    BY <2>1, <2>3
  <2>8. Len(o) = 1
    BY <2>3, <2>4
  <2>2. PICK x \in S : x = o[1]
    <3>1. 1 \in 1..Len(o) /\ o \in Seq(S)
      BY <2>1, <2>8
    <3>2. o[1] \in S
      BY <3>1, ElementOfSeq
    <3> QED
      BY <3>2
  <2>5. PICK one : one = <<x>>
    OBVIOUS
  <2>6. one \in Seq(S) /\ Len(one) = Len(o) /\ \A i \in 1..Len(one) : one[i] = o[i]
    BY <2>2, <2>5, <2>8
  <2>7. one = o
    BY <2>1, <2>6, SeqEqual
  <2> QED
    BY <2>5, <2>7
<1> QED
  BY <1>1, <1>2

\* A number read again is on the same side of every limit.
LEMMA ReadWithin ==
  ASSUME NEW n \in Pairs, NEW bound \in {90, 180, MaxAccuracy}
  PROVE  /\ ReadNumber(n) \in Pairs /\ ReadNumber(n)[1] = n[1]
         /\ Within(n, bound) => Within(ReadNumber(n), bound)
<1>1. n = <<n[1], n[2]>> /\ n[1] \in Int /\ n[2] \in Int /\ bound \in Int
  BY DEF Pairs, MaxAccuracy
<1>2. CASE n \notin Slips
  BY <1>2, <1>1 DEF ReadNumber, Pairs
<1>3. CASE n \in Slips
  <2>1. ReadNumber(n) = <<n[1], n[2] + 1>>
    BY <1>3 DEF ReadNumber
  <2>2. n # <<bound, 0>>
    BY <1>3, RecordAssumption
  <2> QED
    BY <1>1, <2>1, <2>2 DEF Within, Pairs
<1> QED
  BY <1>2, <1>3

\* What a location is made of, when there is one.
LEMMA LocationIs ==
  ASSUME NEW lat \in Pairs, NEW lon \in Pairs, NEW accuracy \in Optional(Pairs), NEW source,
         NEW captured \in Optional(Pairs), Location(lat, lon, accuracy, source, captured) # <<>>
  PROVE  /\ Within(lat, 90) /\ Within(lon, 180)
         /\ \A i \in DOMAIN accuracy : accuracy[i][1] >= 0 /\ Within(accuracy[i], MaxAccuracy)
         /\ Location(lat, lon, accuracy, source, captured)
              = << [latitude |-> lat, longitude |-> lon, accuracy |-> accuracy,
                    source |-> source, captured |-> Each(Milliseconds, captured)] >>
  BY DEF Location

\* Times stay times when they lose their microseconds.
LEMMA TimesStay ==
  ASSUME NEW captured \in Optional(Pairs)
  PROVE  Each(Milliseconds, captured) \in Optional(Pairs)
<1>1. CASE captured = <<>>
  BY <1>1, Optionals DEF Each
<1>2. ASSUME NEW x \in Pairs, captured = <<x>>
      PROVE  Each(Milliseconds, captured) \in Optional(Pairs)
  <2>1. Milliseconds(x) \in Pairs
    BY DEF Milliseconds, Pairs
  <2>2. Each(Milliseconds, captured) = <<Milliseconds(x)>>
    BY <1>2 DEF Each
  <2> QED
    BY <2>1, <2>2, Optionals
<1> QED
  BY <1>1, <1>2, Optionals

\* A number that is there is there when it is read again, and moves as ReadNumber moves it.
LEMMA NumbersRead ==
  ASSUME NEW o \in Optional(Pairs)
  PROVE  /\ Each(ReadNumber, o) = <<>> <=> o = <<>>
         /\ \A x \in Pairs : o = <<x>> => Each(ReadNumber, o) = <<ReadNumber(x)>>
         /\ Each(ReadNumber, o) \in Optional(Pairs)
<1>1. CASE o = <<>>
  BY <1>1, Optionals DEF Each
<1>2. ASSUME NEW x \in Pairs, o = <<x>>
      PROVE  /\ Each(ReadNumber, o) = <<ReadNumber(x)>>
             /\ Each(ReadNumber, o) \in Optional(Pairs)
             /\ o # <<>> /\ Each(ReadNumber, o) # <<>>
  <2>1. ReadNumber(x) \in Pairs
    BY ReadWithin
  <2>2. Each(ReadNumber, o) = <<ReadNumber(x)>>
    BY <1>2 DEF Each
  <2>3. <<x>> # <<>> /\ <<ReadNumber(x)>> # <<>>
    OBVIOUS
  <2> QED
    BY <1>2, <2>1, <2>2, <2>3, Optionals
<1>3. o = <<>> \/ \E x \in Pairs : o = <<x>>
  BY Optionals
<1>4. Each(ReadNumber, o) = <<>> <=> o = <<>>
  BY <1>1, <1>2, <1>3
<1>5. \A x \in Pairs : o = <<x>> => Each(ReadNumber, o) = <<ReadNumber(x)>>
  BY <1>2
<1>6. Each(ReadNumber, o) \in Optional(Pairs)
  BY <1>1, <1>2, <1>3
<1> QED
  BY <1>4, <1>5, <1>6

\* A location that was accepted is accepted again when its numbers were read from their text.
LEMMA LocationAgain ==
  ASSUME NEW lat \in Pairs, NEW lon \in Pairs, NEW accuracy \in Optional(Pairs), NEW source,
         NEW captured, NEW other, NEW captured2,
         Within(lat, 90), Within(lon, 180),
         \A i \in DOMAIN accuracy : accuracy[i][1] >= 0 /\ Within(accuracy[i], MaxAccuracy)
  PROVE  Location(ReadNumber(lat), ReadNumber(lon), Each(ReadNumber, accuracy), other, captured2)
           # <<>>
<1>1. Within(ReadNumber(lat), 90) /\ Within(ReadNumber(lon), 180)
  BY ReadWithin
<1>2. PICK read : read = Each(ReadNumber, accuracy)
  OBVIOUS
<1>3. \A i \in DOMAIN read : read[i][1] >= 0 /\ Within(read[i], MaxAccuracy)
  <2>1. CASE accuracy = <<>>
    BY <1>2, <2>1, NumbersRead
  <2>2. ASSUME NEW x \in Pairs, accuracy = <<x>>
        PROVE  \A i \in DOMAIN read : read[i][1] >= 0 /\ Within(read[i], MaxAccuracy)
    <3>1. read = <<ReadNumber(x)>>
      BY <1>2, <2>2, NumbersRead
    <3>2. x[1] >= 0 /\ Within(x, MaxAccuracy)
      BY <2>2
    <3>3. ReadNumber(x)[1] = x[1] /\ Within(ReadNumber(x), MaxAccuracy)
      BY <3>2, ReadWithin
    <3> QED
      BY <3>1, <3>2, <3>3
  <2> QED
    BY <2>1, <2>2, Optionals
<1>4. Location(ReadNumber(lat), ReadNumber(lon), read, other, captured2) # <<>>
  BY <1>1, <1>3 DEF Location
<1> QED
  BY <1>2, <1>4

\* The payload a draft becomes, field by field; its position is a location that was accepted.
LEMMA ValidatedIs ==
  ASSUME NEW d \in Drafts, Validate(d) # <<>>
  PROVE  LET p == Validate(d)[1] IN
         /\ IsPayload(p) /\ p.incident = "canonical"
         /\ p.description \notin {"", "spaces"} /\ p.severity \in {"LOW", "HIGH"}
         /\ \/ p.latitude = <<>> /\ p.longitude = <<>>
            \/ \E lat \in Pairs, lon \in Pairs :
                 /\ p.latitude = <<lat>> /\ p.longitude = <<lon>>
                 /\ Within(lat, 90) /\ Within(lon, 180)
                 /\ \A i \in DOMAIN p.accuracy :
                      p.accuracy[i][1] >= 0 /\ Within(p.accuracy[i], MaxAccuracy)
<1>1. /\ d.latitude \in Optional(Pairs) /\ d.longitude \in Optional(Pairs)
      /\ d.accuracy \in Optional(Pairs) /\ d.captured \in Optional(Pairs)
      /\ d.source \in Optional(STRING) /\ d.description \in Texts
  BY RecordAssumption
<1>2. PICK position : position = PositionOf(d, SourceOr(d.source))
  OBVIOUS
<1>3. PICK text : text = Trimmed(d.description)
  OBVIOUS
<1>4. PICK severity : severity = SeverityOf(d.severity)
  OBVIOUS
<1>5. text # "" /\ severity # <<>> /\ position # Refused
  BY <1>2, <1>3, <1>4 DEF Validate
<1>6. text \in Texts /\ text # "spaces"
  <2>1. CASE d.description \in {"spaces", "tabs", ""}
    BY <1>3, <2>1 DEF Trimmed, Texts
  <2>2. CASE d.description = "padded"
    BY <1>3, <2>2 DEF Trimmed, Texts
  <2>3. CASE d.description \notin {"spaces", "tabs", "", "padded"}
    BY <1>1, <1>3, <2>3 DEF Trimmed
  <2> QED
    BY <2>1, <2>2, <2>3
<1>7. severity[1] \in {"LOW", "HIGH"}
  BY <1>4, <1>5 DEF SeverityOf
<1>11. Validate(d) # <<>>
  OBVIOUS
<1>8. CASE position = <<>>
  <2>1. Validate(d) = << [incident |-> "canonical", description |-> text, severity |-> severity[1],
                          latitude |-> <<>>, longitude |-> <<>>, accuracy |-> <<>>,
                          source |-> "UNKNOWN", captured |-> <<>>] >>
    BY <1>2, <1>3, <1>4, <1>8, <1>11 DEF Validate
  <2>2. PICK p : p = Validate(d)[1]
    OBVIOUS
  <2>3. p = [incident |-> "canonical", description |-> text, severity |-> severity[1],
             latitude |-> <<>>, longitude |-> <<>>, accuracy |-> <<>>,
             source |-> "UNKNOWN", captured |-> <<>>]
    BY <2>1, <2>2
  <2>4. <<>> \in Optional(Pairs)
    BY Optionals
  <2>5. IsPayload(p)
    BY <1>6, <1>7, <2>3, <2>4 DEF IsPayload
  <2>6. /\ p.incident = "canonical" /\ p.description = text /\ p.severity = severity[1]
        /\ p.latitude = <<>> /\ p.longitude = <<>>
    BY <2>3
  <2> QED
    BY <1>5, <1>6, <1>7, <2>2, <2>5, <2>6
<1>9. CASE position # <<>>
  <2>1. /\ d.latitude # <<>> /\ d.longitude # <<>>
        /\ Location(d.latitude[1], d.longitude[1], d.accuracy, SourceOr(d.source), d.captured)
             # <<>>
        /\ position = << Location(d.latitude[1], d.longitude[1], d.accuracy, SourceOr(d.source),
                                  d.captured) >>
    BY <1>2, <1>5, <1>9 DEF PositionOf
  <2>2. PICK lat \in Pairs : d.latitude = <<lat>>
    BY <1>1, <2>1, Optionals
  <2>3. PICK lon \in Pairs : d.longitude = <<lon>>
    BY <1>1, <2>1, Optionals
  <2>4. PICK captured \in Optional(Pairs) : captured = Each(Milliseconds, d.captured)
    BY <1>1, TimesStay
  <2>5. PICK source : source = SourceOr(d.source)
    OBVIOUS
  <2>6. /\ Within(lat, 90) /\ Within(lon, 180)
        /\ \A i \in DOMAIN d.accuracy : d.accuracy[i][1] >= 0 /\ Within(d.accuracy[i], MaxAccuracy)
        /\ position = << << [latitude |-> lat, longitude |-> lon, accuracy |-> d.accuracy,
                             source |-> source, captured |-> captured] >> >>
    <3>1. Location(lat, lon, d.accuracy, source, d.captured) # <<>>
          /\ position = << Location(lat, lon, d.accuracy, source, d.captured) >>
      BY <2>1, <2>2, <2>3, <2>5
    <3> QED
      BY <1>1, <2>4, <3>1, LocationIs
  <2>7. PICK spot : spot = [latitude |-> lat, longitude |-> lon, accuracy |-> d.accuracy,
                        source |-> source, captured |-> captured]
    OBVIOUS
  <2>8. position[1] = <<spot>>
    BY <2>6, <2>7
  <2>9. spot.latitude = lat /\ spot.longitude = lon /\ spot.accuracy = d.accuracy /\ spot.source = source
        /\ spot.captured = captured /\ <<spot>> # <<>> /\ <<spot>>[1] = spot
    BY <2>7
  <2>10. Validate(d) = << [incident |-> "canonical", description |-> text, severity |-> severity[1],
                           latitude |-> <<lat>>, longitude |-> <<lon>>, accuracy |-> d.accuracy,
                           source |-> source, captured |-> captured] >>
    BY <1>2, <1>3, <1>4, <1>5, <1>9, <2>8, <2>9, <1>11 DEF Validate
  <2>11. PICK p : p = Validate(d)[1]
    OBVIOUS
  <2>12. p = [incident |-> "canonical", description |-> text, severity |-> severity[1],
              latitude |-> <<lat>>, longitude |-> <<lon>>, accuracy |-> d.accuracy,
              source |-> source, captured |-> captured]
    BY <2>10, <2>11
  <2>13. <<lat>> \in Optional(Pairs) /\ <<lon>> \in Optional(Pairs)
    BY Optionals
  <2>14. IsPayload(p)
    BY <1>1, <1>6, <1>7, <2>12, <2>13 DEF IsPayload
  <2>15. /\ p.incident = "canonical" /\ p.description = text /\ p.severity = severity[1]
         /\ p.latitude = <<lat>> /\ p.longitude = <<lon>> /\ p.accuracy = d.accuracy
    BY <2>12
  <2> QED
    BY <1>5, <1>6, <1>7, <2>6, <2>11, <2>14, <2>15
<1> QED
  BY <1>8, <1>9

\* What an operator was allowed to write is projected.
LEMMA CreatedIsProjected ==
  ASSUME NEW d \in Drafts, Validate(d) # <<>>
  PROVE  IsEvent(Create(Validate(d)[1])) /\ Project(Create(Validate(d)[1])) # <<>>
<1>1. PICK p : p = Validate(d)[1]
  OBVIOUS
<1>2. /\ IsPayload(p) /\ p.description \notin {"", "spaces"} /\ p.severity \in {"LOW", "HIGH"}
      /\ \/ p.latitude = <<>> /\ p.longitude = <<>>
         \/ \E lat \in Pairs, lon \in Pairs :
              /\ p.latitude = <<lat>> /\ p.longitude = <<lon>>
              /\ Within(lat, 90) /\ Within(lon, 180)
              /\ \A i \in DOMAIN p.accuracy :
                   p.accuracy[i][1] >= 0 /\ Within(p.accuracy[i], MaxAccuracy)
  BY <1>1, ValidatedIs
<1>3. PICK e : e = Create(p)
  OBVIOUS
<1>4. IsEvent(e) /\ e.payload = p
  <2>1. e = [id |-> "canonical", key |-> "canonical", created |-> <<1, 0>>, json |-> "canonical",
             payload |-> p]
    BY <1>3 DEF Create
  <2>2. e = [id |-> e.id, key |-> e.key, created |-> e.created, json |-> e.json,
             payload |-> e.payload]
        /\ e.created = <<1, 0>> /\ e.payload = p
    BY <2>1
  <2>3. <<1, 0>> \in Pairs
    BY DEF Pairs
  <2> QED
    BY <1>2, <2>2, <2>3 DEF IsEvent
<1>5. PICK r : r = ReadPayload(e)
  OBVIOUS
<1>6. /\ p.latitude \in Optional(Pairs) /\ p.longitude \in Optional(Pairs)
      /\ p.accuracy \in Optional(Pairs)
  BY <1>2 DEF IsPayload
<1>7. /\ r.description = p.description /\ r.severity = p.severity
      /\ r.latitude = Each(ReadNumber, p.latitude)
      /\ r.longitude = Each(ReadNumber, p.longitude)
      /\ r.accuracy = Each(ReadNumber, p.accuracy)
  BY <1>2, <1>4, <1>5 DEF ReadPayload, IsPayload
<1>8. PositionOf(r, r.source) # Refused
  <2>1. CASE p.latitude = <<>> /\ p.longitude = <<>>
    <3>1. r.latitude = <<>> /\ r.longitude = <<>>
      BY <1>6, <1>7, <2>1, NumbersRead
    <3>2. PositionOf(r, r.source) = <<>>
      BY <3>1 DEF PositionOf
    <3> QED
      BY <3>2 DEF Refused
  <2>2. ASSUME NEW lat \in Pairs, NEW lon \in Pairs, p.latitude = <<lat>>, p.longitude = <<lon>>,
               Within(lat, 90), Within(lon, 180),
               \A i \in DOMAIN p.accuracy :
                 p.accuracy[i][1] >= 0 /\ Within(p.accuracy[i], MaxAccuracy)
        PROVE  PositionOf(r, r.source) # Refused
    <3>1. r.latitude = <<ReadNumber(lat)>> /\ r.longitude = <<ReadNumber(lon)>>
      BY <1>6, <1>7, <2>2, NumbersRead
    <3>2. Location(ReadNumber(lat), ReadNumber(lon), r.accuracy, r.source, r.captured) # <<>>
      BY <1>6, <1>7, <2>2, LocationAgain
    <3>3. PositionOf(r, r.source)
            = << Location(ReadNumber(lat), ReadNumber(lon), r.accuracy, r.source, r.captured) >>
      BY <3>1, <3>2 DEF PositionOf
    <3> QED
      BY <3>2, <3>3 DEF Refused
  <2> QED
    BY <1>2, <2>1, <2>2
<1>9. Project(e) # <<>>
  BY <1>2, <1>5, <1>7, <1>8 DEF Project
<1> QED
  BY <1>1, <1>3, <1>4, <1>9

\* What is there is one number long, what is not is none.
LEMMA LongOrNot ==
  ASSUME NEW o \in Optional(Pairs)
  PROVE  o \in Seq(Pairs) /\ Len(o) = IF o = <<>> THEN 0 ELSE 1
<1>1. CASE o = <<>>
  BY <1>1
<1>2. ASSUME NEW x \in Pairs, o = <<x>> PROVE o \in Seq(Pairs) /\ Len(o) = 1 /\ o # <<>>
  BY <1>2
<1> QED
  BY <1>1, <1>2, Optionals

\* One number more, if it is there, makes a set larger by as much as the number is long.
LEMMA CountOne ==
  ASSUME NEW S, IsFiniteSet(S), NEW o \in Optional(Pairs), NEW k, k \notin S,
         NEW T, T = S \cup (IF o = <<>> THEN {} ELSE {k})
  PROVE  IsFiniteSet(T) /\ Cardinality(T) = Cardinality(S) + Len(o)
<1>1. Cardinality(S) \in Nat
  BY FS_CardinalityType
<1>2. CASE o = <<>>
  <2>1. T = S /\ Len(o) = 0
    BY <1>2, LongOrNot
  <2> QED
    BY <1>1, <2>1
<1>3. CASE o # <<>>
  <2>1. T = S \cup {k} /\ Len(o) = 1
    BY <1>3, LongOrNot
  <2>2. IsFiniteSet(S \cup {k}) /\ Cardinality(S \cup {k}) = Cardinality(S) + 1
    BY FS_AddElement
  <2> QED
    BY <2>1, <2>2
<1> QED
  BY <1>2, <1>3

\* Four optional values: so many are there as they are long together.
LEMMA CountFour ==
  ASSUME NEW a \in Optional(Pairs), NEW b \in Optional(Pairs), NEW c \in Optional(Pairs),
         NEW d \in Optional(Pairs), NEW there, there = {i \in 1..4 : <<a, b, c, d>>[i] # <<>>}
  PROVE  Cardinality(there) = Len(a) + Len(b) + Len(c) + Len(d)
<1> DEFINE One(o, k) == IF o = <<>> THEN {} ELSE {k}
<1>1. PICK s1 : s1 = {} \cup One(a, 1)
  OBVIOUS
<1>2. PICK s2 : s2 = s1 \cup One(b, 2)
  OBVIOUS
<1>3. PICK s3 : s3 = s2 \cup One(c, 3)
  OBVIOUS
<1>4. PICK s4 : s4 = s3 \cup One(d, 4)
  OBVIOUS
<1>5. IsFiniteSet({}) /\ Cardinality({}) = 0
  BY FS_EmptySet
<1>6. 1 \notin {} /\ 2 \notin s1 /\ 3 \notin s2 /\ 4 \notin s3
  BY <1>1, <1>2, <1>3
<1>7. IsFiniteSet(s1) /\ Cardinality(s1) = Cardinality({}) + Len(a)
  BY <1>1, <1>5, <1>6, CountOne
<1>8. IsFiniteSet(s2) /\ Cardinality(s2) = Cardinality(s1) + Len(b)
  BY <1>2, <1>6, <1>7, CountOne
<1>9. IsFiniteSet(s3) /\ Cardinality(s3) = Cardinality(s2) + Len(c)
  BY <1>3, <1>6, <1>8, CountOne
<1>10. IsFiniteSet(s4) /\ Cardinality(s4) = Cardinality(s3) + Len(d)
  BY <1>4, <1>6, <1>9, CountOne
<1>12. {i \in 1..4 : <<a, b, c, d>>[i] # <<>>} = s4
  <2>1. /\ <<a, b, c, d>>[1] = a /\ <<a, b, c, d>>[2] = b
        /\ <<a, b, c, d>>[3] = c /\ <<a, b, c, d>>[4] = d
    OBVIOUS
  <2>2. \A i : i \in 1..4 <=> i \in {1, 2, 3, 4}
    OBVIOUS
  <2> QED
    BY <1>1, <1>2, <1>3, <1>4, <2>1, <2>2
<1>13. Len(a) \in Nat /\ Len(b) \in Nat /\ Len(c) \in Nat /\ Len(d) \in Nat
  BY LongOrNot
<1>14. Cardinality(s4) = Len(a) + Len(b) + Len(c) + Len(d)
  BY <1>5, <1>7, <1>8, <1>9, <1>10, <1>13
<1> QED
  BY <1>12, <1>14

\* Where each number is among those that are there.
LEMMA NumbersPlaced ==
  ASSUME NEW a \in Optional(Pairs), NEW b \in Optional(Pairs), NEW c \in Optional(Pairs),
         NEW n, n = Numbers(a, b, c),
         NEW second, second = (IF a = <<>> THEN 1 ELSE 2),
         NEW third, third = (IF b = <<>> THEN second ELSE second + 1)
  PROVE  /\ Len(n) = Len(a) + Len(b) + Len(c)
         /\ a # <<>> => a = <<n[1]>>
         /\ b # <<>> => b = <<n[second]>>
         /\ c # <<>> => c = <<n[third]>>
<1>1. a = <<>> \/ \E x \in Pairs : a = <<x>>
  BY Optionals
<1>2. b = <<>> \/ \E x \in Pairs : b = <<x>>
  BY Optionals
<1>3. c = <<>> \/ \E x \in Pairs : c = <<x>>
  BY Optionals
<1>5. a \in Seq(Pairs) /\ b \in Seq(Pairs) /\ c \in Seq(Pairs)
  BY LongOrNot
<1>6. PICK ab : ab = a \o b
  OBVIOUS
<1>7. /\ ab \in Seq(Pairs) /\ Len(ab) = Len(a) + Len(b)
      /\ \A i \in 1..Len(a) : ab[i] = a[i]
      /\ \A i \in 1..Len(b) : ab[Len(a) + i] = b[i]
  BY <1>5, <1>6, Joined
<1>8. n = ab \o c
  BY <1>6 DEF Numbers
<1>9. /\ Len(n) = Len(ab) + Len(c)
      /\ \A i \in 1..Len(ab) : n[i] = ab[i]
      /\ \A i \in 1..Len(c) : n[Len(ab) + i] = c[i]
  <2>1. ab \in Seq(Pairs)
    BY <1>7
  <2> QED
    BY <1>5, <1>8, <2>1, Joined
<1>10. /\ Len(a) = IF a = <<>> THEN 0 ELSE 1
       /\ Len(b) = IF b = <<>> THEN 0 ELSE 1
       /\ Len(c) = IF c = <<>> THEN 0 ELSE 1
  BY LongOrNot
<1>11. PICK la \in Nat, lb \in Nat, lc \in Nat : la = Len(a) /\ lb = Len(b) /\ lc = Len(c)
  BY <1>10
<1>12. la \in {0, 1} /\ lb \in {0, 1} /\ lc \in {0, 1}
       /\ (a = <<>> <=> la = 0) /\ (b = <<>> <=> lb = 0) /\ (c = <<>> <=> lc = 0)
  BY <1>10, <1>11
<1>13. Len(n) = la + lb + lc
  BY <1>7, <1>9, <1>11
<1>14. a # <<>> => a = <<n[1]>>
  <2> SUFFICES ASSUME a # <<>> PROVE a = <<n[1]>>
    OBVIOUS
  <2>1. ab[1] = a[1]
    BY <1>7, <1>11, <1>12
  <2>2. n[1] = ab[1]
    BY <1>7, <1>9, <1>11, <1>12
  <2> QED
    BY <1>1, <2>1, <2>2
<1>15. b # <<>> => b = <<n[la + 1]>>
  <2> SUFFICES ASSUME b # <<>> PROVE b = <<n[la + 1]>>
    OBVIOUS
  <2>1. ab[la + 1] = b[1]
    BY <1>7, <1>11, <1>12
  <2>2. n[la + 1] = ab[la + 1]
    BY <1>7, <1>9, <1>11, <1>12
  <2> QED
    BY <1>2, <2>1, <2>2
<1>16. c # <<>> => c = <<n[la + lb + 1]>>
  <2> SUFFICES ASSUME c # <<>> PROVE c = <<n[la + lb + 1]>>
    OBVIOUS
  <2>1. n[la + lb + 1] = c[1]
    BY <1>7, <1>9, <1>11, <1>12
  <2> QED
    BY <1>3, <2>1
<1>19. second = la + 1 /\ third = la + lb + 1
  BY <1>12
<1> QED
  BY <1>11, <1>13, <1>14, <1>15, <1>16, <1>19

\* The numbers that are there, counted.
LEMMA NumbersLong ==
  ASSUME NEW a \in Optional(Pairs), NEW b \in Optional(Pairs), NEW c \in Optional(Pairs),
         NEW n, n = Numbers(a, b, c), NEW i \in Nat, i = Len(a), NEW j \in Nat, j = Len(b),
         NEW k \in Nat, k = Len(c)
  PROVE  Len(n) = i + j + k
<1>1. PICK second : second = IF a = <<>> THEN 1 ELSE 2
  OBVIOUS
<1>2. PICK third : third = IF b = <<>> THEN second ELSE second + 1
  OBVIOUS
<1> QED
  BY <1>1, <1>2, NumbersPlaced, SMTT(30)

\* The wire form of an event whose text is as serde_json prints it: its own numbers.
LEMMA PackedIs ==
  ASSUME NEW e, IsEvent(e), e.json = "canonical"
  PROVE  LET p == e.payload IN
         Pack(e) = [id |-> "canonical", created |-> e.created[1], incident |-> "canonical",
                    severity |-> p.severity, source |-> p.source,
                    flags |-> {f \in {"latitude", "longitude", "accuracy"} : p[f] # <<>>},
                    numbers |-> Numbers(p.latitude, p.longitude, p.accuracy),
                    captured |-> p.captured, description |-> p.description]
<1>1. PICK p : p = e.payload
  OBVIOUS
<1>2. IsPayload(p)
  BY <1>1 DEF IsEvent
<1>3. PICK r : r = ReadPayload(e)
  OBVIOUS
<1>4. r = [latitude |-> Each(ReadNumber, p.latitude), longitude |-> Each(ReadNumber, p.longitude),
           accuracy |-> Each(ReadNumber, p.accuracy), captured |-> p.captured,
           source |-> p.source, description |-> p.description, severity |-> p.severity,
           incident |-> p.incident]
  BY <1>1, <1>2, <1>3 DEF ReadPayload, IsPayload
<1>5. /\ p.latitude \in Optional(Pairs) /\ p.longitude \in Optional(Pairs)
      /\ p.accuracy \in Optional(Pairs)
  BY <1>2 DEF IsPayload
<1>6. /\ r.latitude = <<>> <=> p.latitude = <<>>
      /\ r.longitude = <<>> <=> p.longitude = <<>>
      /\ r.accuracy = <<>> <=> p.accuracy = <<>>
  BY <1>4, <1>5, NumbersRead
<1>7. {f \in {"latitude", "longitude", "accuracy"} : r[f] # <<>>}
        = {f \in {"latitude", "longitude", "accuracy"} : p[f] # <<>>}
  <2>1. /\ r["latitude"] = r.latitude /\ r["longitude"] = r.longitude
        /\ r["accuracy"] = r.accuracy /\ p["latitude"] = p.latitude
        /\ p["longitude"] = p.longitude /\ p["accuracy"] = p.accuracy
    OBVIOUS
  <2> QED
    BY <1>6
<1>8. r.severity = p.severity /\ r.source = p.source /\ r.captured = p.captured
      /\ r.description = p.description
  BY <1>4
<1>9. e.json # "nested"
  OBVIOUS
<1> QED
  BY <1>1, <1>3, <1>7, <1>8, <1>9 DEF Pack, ExactNumber

\* What the bytes spell of it: an event whose payload is the very same.
LEMMA SpelledIs ==
  ASSUME NEW e, IsEvent(e), e.json = "canonical", e.payload.incident = "canonical"
  PROVE  Unpack(Pack(e))
           = [id |-> "canonical", key |-> "canonical", created |-> <<e.created[1], 0>>,
              json |-> "canonical", payload |-> e.payload]
<1>1. PICK p : p = e.payload
  OBVIOUS
<1>2. /\ p = [latitude |-> p.latitude, longitude |-> p.longitude, accuracy |-> p.accuracy,
              captured |-> p.captured, source |-> p.source, description |-> p.description,
              severity |-> p.severity, incident |-> p.incident]
      /\ p.latitude \in Optional(Pairs) /\ p.longitude \in Optional(Pairs)
      /\ p.accuracy \in Optional(Pairs)
  BY <1>1 DEF IsEvent, IsPayload
<1>3. PICK flags : flags = {f \in {"latitude", "longitude", "accuracy"} : p[f] # <<>>}
  OBVIOUS
<1>4. /\ "latitude" \in flags <=> p.latitude # <<>>
      /\ "longitude" \in flags <=> p.longitude # <<>>
      /\ "accuracy" \in flags <=> p.accuracy # <<>>
  BY <1>3
<1>5. PICK numbers : numbers = Numbers(p.latitude, p.longitude, p.accuracy)
  OBVIOUS
<1>6. PICK second : second = IF p.latitude = <<>> THEN 1 ELSE 2
  OBVIOUS
<1>7. PICK third : third = IF p.longitude = <<>> THEN second ELSE second + 1
  OBVIOUS
<1>8. /\ p.latitude # <<>> => p.latitude = <<numbers[1]>>
      /\ p.longitude # <<>> => p.longitude = <<numbers[second]>>
      /\ p.accuracy # <<>> => p.accuracy = <<numbers[third]>>
  <2>1. PICK lat \in Optional(Pairs), lon \in Optional(Pairs), acc \in Optional(Pairs) :
          lat = p.latitude /\ lon = p.longitude /\ acc = p.accuracy
    BY <1>2
  <2>2. /\ numbers = Numbers(lat, lon, acc)
        /\ second = (IF lat = <<>> THEN 1 ELSE 2)
        /\ third = (IF lon = <<>> THEN second ELSE second + 1)
    BY <1>5, <1>6, <1>7, <2>1
  <2>3. /\ lat # <<>> => lat = <<numbers[1]>>
        /\ lon # <<>> => lon = <<numbers[second]>>
        /\ acc # <<>> => acc = <<numbers[third]>>
    BY <2>2, NumbersPlaced, SMTT(30)
  <2> QED
    BY <2>1, <2>3
<1>9. PICK w : w = Pack(e)
  OBVIOUS
<1>10. w = [id |-> "canonical", created |-> e.created[1], incident |-> "canonical",
            severity |-> p.severity, source |-> p.source, flags |-> flags,
            numbers |-> numbers, captured |-> p.captured, description |-> p.description]
  BY <1>1, <1>3, <1>5, <1>9, PackedIs
<1>11. w.flags = flags /\ w.numbers = numbers
  BY <1>10
<1> DEFINE Before(f) == CASE f = "latitude" -> {} [] f = "longitude" -> {"latitude"}
                          [] f = "accuracy" -> {"latitude", "longitude"}
           Place(f) == LET n == {g \in Before(f) : g \in w.flags} IN
                       CASE n = {} -> 1 [] n = {"latitude", "longitude"} -> 3 [] OTHER -> 2
           Number(f) == IF f \in w.flags THEN << w.numbers[Place(f)] >> ELSE <<>>
<1>12. Number("latitude") = p.latitude
  <2>1. Before("latitude") = {}
    OBVIOUS
  <2>2. Place("latitude") = 1
    BY <2>1
  <2> HIDE DEF Place, Before
  <2> QED
    BY <2>2, <1>4, <1>8, <1>11
<1>13. Number("longitude") = p.longitude
  <2>1. Before("longitude") = {"latitude"}
    OBVIOUS
  <2>2. Place("longitude") = second
    <3> HIDE DEF Before
    <3>1. CASE p.latitude = <<>>
      <4>1. {g \in Before("longitude") : g \in w.flags} = {}
        BY <2>1, <3>1, <1>4, <1>11
      <4> QED
        BY <4>1, <3>1, <1>6
    <3>2. CASE p.latitude # <<>>
      <4>1. {g \in Before("longitude") : g \in w.flags} = {"latitude"}
        BY <2>1, <3>2, <1>4, <1>11
      <4> QED
        BY <4>1, <3>2, <1>6
    <3> QED
      BY <3>1, <3>2
  <2> HIDE DEF Place, Before
  <2> QED
    BY <2>2, <1>4, <1>8, <1>11
<1>14. Number("accuracy") = p.accuracy
  <2>1. Before("accuracy") = {"latitude", "longitude"}
    OBVIOUS
  <2>2. Place("accuracy") = third
    <3> HIDE DEF Before
    <3>1. CASE p.latitude = <<>> /\ p.longitude = <<>>
      <4>1. {g \in Before("accuracy") : g \in w.flags} = {}
        BY <2>1, <3>1, <1>4, <1>11
      <4> QED
        BY <4>1, <3>1, <1>6, <1>7
    <3>2. CASE p.latitude # <<>> /\ p.longitude = <<>>
      <4>1. {g \in Before("accuracy") : g \in w.flags} = {"latitude"}
        BY <2>1, <3>2, <1>4, <1>11
      <4> QED
        BY <4>1, <3>2, <1>6, <1>7
    <3>3. CASE p.latitude = <<>> /\ p.longitude # <<>>
      <4>1. {g \in Before("accuracy") : g \in w.flags} = {"longitude"}
        BY <2>1, <3>3, <1>4, <1>11
      <4>2. {"longitude"} # {} /\ {"longitude"} # {"latitude", "longitude"}
        OBVIOUS
      <4>3. Place("accuracy") = 2
        BY <4>1, <4>2
      <4> QED
        BY <4>3, <3>3, <1>6, <1>7
    <3>4. CASE p.latitude # <<>> /\ p.longitude # <<>>
      <4>1. {g \in Before("accuracy") : g \in w.flags} = {"latitude", "longitude"}
        BY <2>1, <3>4, <1>4, <1>11
      <4> QED
        BY <4>1, <3>4, <1>6, <1>7
    <3> QED
      BY <3>1, <3>2, <3>3, <3>4
  <2> HIDE DEF Place, Before
  <2> QED
    BY <2>2, <1>4, <1>8, <1>11
<1>15. Unpack(w) = [id |-> w.id, key |-> "canonical", created |-> <<w.created, 0>>,
                    json |-> "canonical",
                    payload |-> [incident |-> w.incident, description |-> w.description,
                                 severity |-> w.severity, source |-> w.source,
                                 latitude |-> Number("latitude"),
                                 longitude |-> Number("longitude"),
                                 accuracy |-> Number("accuracy"), captured |-> w.captured]]
  BY DEF Unpack
<1> HIDE DEF Number
<1>16. /\ w.id = "canonical" /\ w.created = e.created[1] /\ w.incident = "canonical"
       /\ w.severity = p.severity /\ w.source = p.source /\ w.captured = p.captured
       /\ w.description = p.description
  BY <1>10
<1>17. [incident |-> w.incident, description |-> w.description, severity |-> w.severity,
        source |-> w.source, latitude |-> Number("latitude"),
        longitude |-> Number("longitude"), accuracy |-> Number("accuracy"),
        captured |-> w.captured] = p
  BY <1>1, <1>2, <1>12, <1>13, <1>14, <1>16
<1> QED
  BY <1>1, <1>9, <1>15, <1>16, <1>17

\* A text has a size.
LEMMA SizesAreNumbers == \A t \in Texts : SizeOf[t] \in Int
<1>1. SizeOf[""] = 1
  BY DEF SizeOf, Texts
<1>2. SizeOf["spaces"] = 1
  BY DEF SizeOf, Texts
<1>3. SizeOf["tabs"] = 1
  BY DEF SizeOf, Texts
<1>4. SizeOf["short"] = 20
  BY DEF SizeOf, Texts
<1>5. SizeOf["padded"] = 20
  BY DEF SizeOf, Texts
<1>6. SizeOf["frame"] = 100
  BY DEF SizeOf, Texts
<1>7. SizeOf["byte"] = 255
  BY DEF SizeOf, Texts
<1>8. SizeOf["long"] = 1000
  BY DEF SizeOf, Texts
<1>9. SizeOf["huge"] = 3000
  BY DEF SizeOf, Texts
<1>10. ASSUME NEW t \in Texts PROVE SizeOf[t] \in Int
  <2>1. \/ t = "" \/ t = "spaces" \/ t = "tabs" \/ t = "short" \/ t = "padded"
        \/ t = "frame" \/ t = "byte" \/ t = "long" \/ t = "huge"
    BY DEF Texts
  <2>2. CASE t = "" \/ t = "spaces" \/ t = "tabs"
    <3>1. SizeOf[t] = 1
      BY <1>1, <1>2, <1>3, <2>2, Zenon
    <3> QED
      BY <3>1
  <2>3. CASE t = "short" \/ t = "padded"
    BY <1>4, <1>5, <2>3
  <2>4. CASE t = "frame" \/ t = "byte" \/ t = "long" \/ t = "huge"
    BY <1>6, <1>7, <1>8, <1>9, <2>4
  <2> QED
    BY <2>1, <2>2, <2>3, <2>4
<1> QED
  BY <1>10

\* A wire form, measured.
LEMMA WireIsLong ==
  ASSUME NEW lat \in Optional(Pairs), NEW lon \in Optional(Pairs), NEW acc \in Optional(Pairs),
         NEW spot \in Optional(Pairs), NEW text \in Texts,
         NEW w, w.numbers = Numbers(lat, lon, acc), w.captured = spot, w.description = text
  PROVE  SizeOfWire(w)
           = 118 + 8 * (Len(lat) + Len(lon) + Len(acc) + Len(spot)) + SizeOf[text]
<1>1. PICK a \in Nat, b \in Nat, c \in Nat :
        a = Len(lat) /\ b = Len(lon) /\ c = Len(acc)
  BY LongOrNot
<1>2. PICK numbers : numbers = Numbers(lat, lon, acc)
  OBVIOUS
<1>3. Len(numbers) = a + b + c
  BY <1>1, <1>2, NumbersLong
<1>4. PICK d \in Nat : d = Len(spot)
  BY LongOrNot
<1>5. PICK z \in Int : z = SizeOf[text]
  BY SizesAreNumbers
<1>6. PICK m \in Nat : m = Len(w.numbers)
  BY <1>1, <1>2, <1>3
<1>7. m = a + b + c /\ Len(w.captured) = d /\ SizeOf[w.description] = z
  BY <1>2, <1>3, <1>4, <1>5, <1>6
<1>8. SizeOfWire(w) = 98 + 16 + 3 + 8 * (m + d) + 1 + z
  BY <1>6, <1>7 DEF SizeOfWire
<1>9. SizeOfWire(w) = 118 + 8 * (a + b + c + d) + z
  BY <1>7, <1>8
<1> QED
  BY <1>1, <1>4, <1>5, <1>9

\* The bytes of a wire form, by what is in it: a frame holds seventy-four for the text and the
\* numbers, eight each.
LEMMA FitsWhen ==
  ASSUME NEW e, IsEvent(e), e.json = "canonical", NEW p, p = e.payload,
         NEW there, there = {i \in 1..4 : <<p.latitude, p.longitude, p.accuracy, p.captured>>[i]
                                           # <<>>}
  PROVE  /\ Cardinality(there) \in Nat /\ SizeOf[p.description] \in Int
         /\ SizeOfWire(Pack(e)) <= MaxEventPayload
              <=> SizeOf[p.description] + 8 * Cardinality(there) <= 74
<1>2. /\ p.latitude \in Optional(Pairs) /\ p.longitude \in Optional(Pairs)
      /\ p.accuracy \in Optional(Pairs) /\ p.captured \in Optional(Pairs)
      /\ p.description \in Texts
  BY DEF IsEvent, IsPayload
<1>3. PICK w : w = Pack(e)
  OBVIOUS
<1>4. w.numbers = Numbers(p.latitude, p.longitude, p.accuracy) /\ w.captured = p.captured
      /\ w.description = p.description
  BY <1>3, PackedIs
<1>5. PICK lat \in Optional(Pairs), lon \in Optional(Pairs), acc \in Optional(Pairs),
           spot \in Optional(Pairs) :
        lat = p.latitude /\ lon = p.longitude /\ acc = p.accuracy /\ spot = p.captured
  BY <1>2
<1>6. PICK a \in Nat, b \in Nat, c \in Nat, d \in Nat :
        a = Len(lat) /\ b = Len(lon) /\ c = Len(acc) /\ d = Len(spot)
  BY LongOrNot
<1>7. Cardinality(there) = a + b + c + d
  <2>1. there = {i \in 1..4 : <<lat, lon, acc, spot>>[i] # <<>>}
    BY <1>5
  <2>2. Cardinality(there) = Len(lat) + Len(lon) + Len(acc) + Len(spot)
    BY <2>1, CountFour
  <2> QED
    BY <1>6, <2>2
<1>8. PICK z \in Int : z = SizeOf[p.description]
  BY <1>2, SizesAreNumbers
<1>9. SizeOfWire(w) = 118 + 8 * (a + b + c + d) + z
  <2>1. PICK text \in Texts : text = p.description
    BY <1>2
  <2>2. w.numbers = Numbers(lat, lon, acc) /\ w.captured = spot /\ w.description = text
    BY <1>4, <1>5, <2>1
  <2>3. SizeOfWire(w) = 118 + 8 * (Len(lat) + Len(lon) + Len(acc) + Len(spot)) + SizeOf[text]
    BY <2>2, WireIsLong
  <2> QED
    <3>1. SizeOf[text] = z
      BY <1>8, <2>1
    <3>2. Len(lat) + Len(lon) + Len(acc) + Len(spot) = a + b + c + d
      BY <1>6
    <3> QED
      BY <2>3, <3>1, <3>2, SMTT(30)
<1>10. SizeOfWire(w) <= 192 <=> z + 8 * (a + b + c + d) <= 74
  BY <1>9
<1> QED
  BY <1>3, <1>7, <1>8, <1>10 DEF MaxEventPayload

\* The encoding is exact or refuses, and refuses nothing a frame can say.
LEMMA EncodesExactly ==
  ASSUME NEW e, IsEvent(e)
  PROVE  /\ EncodeEvent(e) # <<>> <=> Representable(e)
         /\ EncodeEvent(e) # <<>> => Unpack(EncodeEvent(e)[1]) = e
<1>1. PICK p : p = e.payload
  OBVIOUS
<1>2. IsPayload(p) /\ p.captured \in Optional(Pairs) /\ p.description \in Texts
  BY <1>1 DEF IsEvent, IsPayload
<1>3. e = [id |-> e.id, key |-> e.key, created |-> e.created, json |-> e.json,
           payload |-> e.payload]
      /\ e.created = <<e.created[1], e.created[2]>>
  BY DEF IsEvent, Pairs
<1>4. EncodeEvent(e) # <<>> =>
        Packable(e) /\ Unpack(Pack(e)) = e /\ EncodeEvent(e) = <<Pack(e)>>
  BY DEF EncodeEvent
<1>5. Packable(e) /\ Unpack(Pack(e)) = e => EncodeEvent(e) # <<>>
  BY DEF EncodeEvent
<1>6. (\A i \in DOMAIN p.captured : p.captured[i][1] <= LastNano)
        <=> (p.captured # <<>> => p.captured[1][1] <= LastNano)
  <2>1. CASE p.captured = <<>>
    BY <2>1
  <2>2. ASSUME NEW x \in Pairs, p.captured = <<x>>
        PROVE  (\A i \in DOMAIN p.captured : p.captured[i][1] <= LastNano)
                 <=> (p.captured # <<>> => p.captured[1][1] <= LastNano)
    <3>1. DOMAIN p.captured = {1} /\ p.captured # <<>>
      BY <2>2
    <3> QED
      BY <3>1
  <2> QED
    BY <1>2, <2>1, <2>2, Optionals
<1>9. PICK there : there = {i \in 1..4 : <<p.latitude, p.longitude, p.accuracy, p.captured>>[i]
                                        # <<>>}
  OBVIOUS
<1>7. ASSUME Representable(e) PROVE Packable(e) /\ Unpack(Pack(e)) = e
  <2>1. /\ e.id = "canonical" /\ e.key = "canonical" /\ e.json = "canonical"
        /\ e.created[2] = 0
        /\ p.incident = "canonical" /\ p.severity \in {"LOW", "HIGH"}
        /\ p.captured # <<>> => p.captured[1][1] <= LastNano
    BY <1>1, <1>7 DEF Representable
  <2>2. /\ Cardinality(there) \in Nat /\ SizeOf[p.description] \in Int
        /\ SizeOfWire(Pack(e)) <= MaxEventPayload
             <=> SizeOf[p.description] + 8 * Cardinality(there) <= 74
    BY <1>1, <1>9, <2>1, FitsWhen
  <2>4. SizeOf[p.description] + 8 * Cardinality(there) <= 74
    BY <1>1, <1>7, <1>9 DEF Representable
  <2>5. SizeOf[p.description] <= 255
    BY <2>2, <2>4
  <2>6. SizeOfWire(Pack(e)) <= MaxEventPayload
    BY <2>2, <2>4
  <2>7. Packable(e)
    BY <1>1, <1>6, <2>1, <2>5, <2>6 DEF Packable
  <2>8. Unpack(Pack(e)) = [id |-> "canonical", key |-> "canonical",
                           created |-> <<e.created[1], 0>>, json |-> "canonical",
                           payload |-> e.payload]
    BY <1>1, <2>1, SpelledIs
  <2> QED
    BY <1>3, <2>1, <2>7, <2>8
<1>8. ASSUME Packable(e), Unpack(Pack(e)) = e PROVE Representable(e)
  <2>1. PICK u : u = Unpack(Pack(e))
    OBVIOUS
  <2>2. /\ u.id = Pack(e).id /\ u.key = "canonical" /\ u.json = "canonical"
        /\ u.created = <<Pack(e).created, 0>> /\ u.payload.incident = Pack(e).incident
    BY <2>1 DEF Unpack
  <2>3. Pack(e).id = "canonical" /\ Pack(e).incident = "canonical"
    BY DEF Pack
  <2>4. /\ e.id = "canonical" /\ e.key = "canonical" /\ e.json = "canonical"
        /\ e.created[2] = 0 /\ p.incident = "canonical"
    BY <1>1, <1>8, <2>1, <2>2, <2>3
  <2>5. p.severity \in {"LOW", "HIGH"}
        /\ (\A i \in DOMAIN p.captured : p.captured[i][1] <= LastNano)
        /\ SizeOfWire(Pack(e)) <= MaxEventPayload
    BY <1>1, <1>8 DEF Packable
  <2>6. SizeOf[p.description] + 8 * Cardinality(there) <= 74
    BY <1>1, <1>9, <2>4, <2>5, FitsWhen
  <2> QED
    BY <1>1, <1>6, <1>9, <2>4, <2>5, <2>6 DEF Representable
<1> QED
  BY <1>4, <1>5, <1>7, <1>8

\* What another build's node may sign is an event.
LEMMA ForeignAreEvents ==
  ASSUME NEW e \in Foreign
  PROVE  IsEvent(e)
<1>1. e \in [id : STRING, key : STRING, created : Pairs, json : STRING,
             payload : [latitude : Optional(Pairs), longitude : Optional(Pairs),
                        accuracy : Optional(Pairs), captured : Optional(Pairs), source : STRING,
                        description : Texts, severity : STRING, incident : STRING]]
  BY RecordAssumption
<1>2. IsPayload(e.payload)
  BY <1>1 DEF IsPayload
<1> QED
  BY <1>1, <1>2 DEF IsEvent

\* The event there is, of a state of the invariant that holds one.
LEMMA TheEvent ==
  ASSUME RecordInv, event # <<>>
  PROVE  \E e : /\ IsEvent(e) /\ event = <<e>> /\ event[1] = e
                /\ mine \in {<<>>, Project(e)} /\ wire \in {<<>>, EncodeEvent(e)}
                /\ theirs \in [quic : {<<>>, Project(e)}, lora : {<<>>, Project(e)}]
                /\ author = "here" => mine # <<>>
  BY DEF RecordInv

\* The invariant is kept.
LEMMA RecordStays ==
  ASSUME RecordInv, [RecordNext]_recordVars
  PROVE  RecordInv'
<1>1. CASE UNCHANGED recordVars
  <2>1. author' = author /\ event' = event /\ mine' = mine /\ wire' = wire /\ theirs' = theirs
    BY <1>1 DEF recordVars
  <2> QED
    BY <2>1 DEF RecordInv
<1>2. ASSUME event = <<>>, NEW d \in Drafts, CreateIncident(d) PROVE RecordInv'
  <2>1. PICK e : e = Create(Validate(d)[1])
    OBVIOUS
  <2>2. Validate(d) # <<>> /\ author' = "here" /\ event' = <<e>> /\ mine' = Project(e)
        /\ wire' = wire /\ theirs' = theirs
    BY <1>2, <2>1 DEF CreateIncident
  <2>3. IsEvent(e) /\ Project(e) # <<>>
    BY <2>1, <2>2, CreatedIsProjected
  <2>4. wire = <<>> /\ theirs = [quic |-> <<>>, lora |-> <<>>]
    BY <1>2 DEF RecordInv
  <2>5. theirs' \in [quic : {<<>>, Project(e)}, lora : {<<>>, Project(e)}]
    BY <2>2, <2>4
  <2> QED
    BY <2>2, <2>3, <2>4, <2>5 DEF RecordInv
<1>3. ASSUME event = <<>>, NEW e \in Foreign, SignElsewhere(e) PROVE RecordInv'
  <2>1. event' = <<e>> /\ author' = "elsewhere" /\ mine' = mine /\ wire' = wire
        /\ theirs' = theirs
    BY <1>3 DEF SignElsewhere
  <2>2. mine = <<>> /\ wire = <<>> /\ theirs = [quic |-> <<>>, lora |-> <<>>]
    BY <1>3 DEF RecordInv
  <2>3. IsEvent(e)
    BY ForeignAreEvents
  <2>4. theirs' \in [quic : {<<>>, Project(e)}, lora : {<<>>, Project(e)}]
    BY <2>1, <2>2
  <2> QED
    BY <2>1, <2>2, <2>3, <2>4 DEF RecordInv
<1>4. CASE Replicate
  <2>1. event # <<>>
    BY <1>4 DEF Replicate
  <2>2. PICK e : /\ IsEvent(e) /\ event = <<e>> /\ event[1] = e
                 /\ mine \in {<<>>, Project(e)} /\ wire \in {<<>>, EncodeEvent(e)}
                 /\ theirs \in [quic : {<<>>, Project(e)}, lora : {<<>>, Project(e)}]
                 /\ author = "here" => mine # <<>>
    BY <2>1, TheEvent
  <2>3. /\ theirs' = [theirs EXCEPT !.quic = Project(e)]
        /\ author' = author /\ event' = event /\ mine' = mine /\ wire' = wire
    BY <1>4, <2>2 DEF Replicate
  <2>4. theirs' \in [quic : {<<>>, Project(e)}, lora : {<<>>, Project(e)}]
    BY <2>2, <2>3
  <2> QED
    BY <2>2, <2>3, <2>4 DEF RecordInv
<1>5. CASE TransmitEvent
  <2>1. event # <<>>
    BY <1>5 DEF TransmitEvent
  <2>2. PICK e : /\ IsEvent(e) /\ event = <<e>> /\ event[1] = e
                 /\ mine \in {<<>>, Project(e)} /\ wire \in {<<>>, EncodeEvent(e)}
                 /\ theirs \in [quic : {<<>>, Project(e)}, lora : {<<>>, Project(e)}]
                 /\ author = "here" => mine # <<>>
    BY <2>1, TheEvent
  <2>3. /\ wire' = EncodeEvent(e)
        /\ author' = author /\ event' = event /\ mine' = mine /\ theirs' = theirs
    BY <1>5, <2>2 DEF TransmitEvent
  <2> QED
    BY <2>2, <2>3 DEF RecordInv
<1>6. CASE HearOverLora
  <2>1. wire # <<>>
    BY <1>6 DEF HearOverLora
  <2>2. event # <<>>
    BY <2>1 DEF RecordInv
  <2>3. PICK e : /\ IsEvent(e) /\ event = <<e>> /\ event[1] = e
                 /\ mine \in {<<>>, Project(e)} /\ wire \in {<<>>, EncodeEvent(e)}
                 /\ theirs \in [quic : {<<>>, Project(e)}, lora : {<<>>, Project(e)}]
                 /\ author = "here" => mine # <<>>
    BY <2>2, TheEvent
  <2>4. wire = EncodeEvent(e) /\ Unpack(wire[1]) = e
    BY <2>1, <2>3, EncodesExactly
  <2>5. PICK row : row = (IF SignedPart(Unpack(wire[1])) = SignedPart(event[1])
                          THEN Project(Unpack(wire[1])) ELSE <<>>)
    OBVIOUS
  <2>6. row \in {<<>>, Project(e)}
    BY <2>4, <2>5
  <2>7. /\ theirs' = [theirs EXCEPT !.lora = row]
        /\ author' = author /\ event' = event /\ mine' = mine /\ wire' = wire
    BY <1>6, <2>5 DEF HearOverLora
  <2>8. theirs' \in [quic : {<<>>, Project(e)}, lora : {<<>>, Project(e)}]
    BY <2>3, <2>6, <2>7
  <2> QED
    BY <2>3, <2>7, <2>8 DEF RecordInv
<1> QED
  BY <1>1, <1>2, <1>3, <1>4, <1>5, <1>6 DEF RecordNext

\* What the invariant says of the rows and of the radio.
LEMMA RecordTells ==
  ASSUME RecordInv
  PROVE  RecordIsFaithful
<1>1. CASE event = <<>>
  <2>1. author = "none" /\ mine = <<>> /\ theirs = [quic |-> <<>>, lora |-> <<>>]
    BY <1>1 DEF RecordInv
  <2> QED
    BY <1>1, <2>1 DEF RecordIsFaithful, OneRecordEverywhere, LosslessOrRefused
<1>2. CASE event # <<>>
  <2>1. PICK e : /\ IsEvent(e) /\ event = <<e>> /\ event[1] = e
                 /\ mine \in {<<>>, Project(e)} /\ wire \in {<<>>, EncodeEvent(e)}
                 /\ theirs \in [quic : {<<>>, Project(e)}, lora : {<<>>, Project(e)}]
                 /\ author = "here" => mine # <<>>
    BY <1>2, TheEvent
  <2>2. \A row \in {mine, theirs.quic, theirs.lora} : row = <<>> \/ row = Project(e)
    BY <2>1
  <2>3. OneRecordEverywhere
    BY <2>1, <2>2 DEF OneRecordEverywhere
  <2>4. LosslessOrRefused
    BY <2>1, EncodesExactly DEF LosslessOrRefused
  <2> QED
    BY <2>3, <2>4 DEF RecordIsFaithful
<1> QED
  BY <1>1, <1>2

-----------------------------------------------------------------------------
(* What the parts promise *)

\* Whoever carries it and whatever they change: the envelope a node accepts
\* (Envelope::verify) and the request an origin answers (lora_sync::verify)
\* are what their sender signed; what this build makes another node of it
\* understands, and the answer starts with the first event missing, unless no
\* frame can hold that one.
THEOREM WhatIsSignedIsUnderstood == EnvelopeSpec /\ RequestSpec => []SignedIsUnderstood
<1>1. EnvelopeSpec => []EnvelopeIsSound
  BY EnvelopeStarts, EnvelopeStays, EnvelopeTells, PTL DEF EnvelopeSpec
<1>2. RequestSpec => []RequestIsMet
  BY RequestStarts, RequestStays, RequestTells, PTL DEF RequestSpec
<1>3. EnvelopeIsSound /\ RequestIsMet => SignedIsUnderstood
  BY DEF SignedIsUnderstood
<1> QED
  BY <1>1, <1>2, <1>3, PTL

\* However long a peer's fixes take and whatever the operator does to the map
\* file: a position shown as expired is of a peer that missed two heartbeats in
\* a row or ended (EXPIRES_AFTER_SECONDS); the frame and the checksum are of the
\* geometry drawn, and a map that covers the incidents covers each of them with
\* its margin (required_coverage, contains).
THEOREM TheMapIsHonest == AgeSpec /\ MapSpec => []MapIsHonest
<1>1. AgeSpec => [](AgeTypeOK /\ ExpiredMeansMissed)
  BY AgeStarts, AgeStays, AgeTells, PTL DEF AgeSpec
<1>2. MapSpec => []ChecksumDescribes
  BY MapStarts, MapStays, MapTellsChecksum, PTL DEF MapSpec
<1>3. MapSpec => []CoverageCoversIncidents
  BY MapStarts, MapStays, MapTellsCoverage, PTL DEF MapSpec
<1>4. AgeTypeOK /\ ExpiredMeansMissed /\ ChecksumDescribes /\ CoverageCoversIncidents
        => MapIsHonest
  BY DEF MapIsHonest
<1> QED
  BY <1>1, <1>2, <1>3, <1>4, PTL

\* Whatever the two threads ask of the platform and in whatever order it
\* answers: a heartbeat's report is accepted and read as the position that was
\* taken (publish_location, LocationReport::from_wire), and no number is lost
\* but to a radius that exceeds the Earth.
THEOREM PublishedHolds == PositionSpec => []PublishedIsFaithful
  BY PositionStarts, PositionStays, PositionTells, PTL DEF PositionSpec

\* However a reply is framed and wherever its connection breaks: what is taken
\* for the reply is all of it, or an error (read_response).
THEOREM RepliesAreWhole == ReplySpec => []ReplyIsWholeOrRefused
  BY ReplyStarts, ReplyStays, ReplyTells, PTL DEF ReplySpec

\* An event says one thing: what an operator was allowed to write is the same row wherever it
\* arrives and whichever way it came (NewIncident::validate, project_event), and the compact
\* encoding of lora_event_codec.rs is exact or refuses, and refuses nothing it could say.
THEOREM EventsSayOneThing == RecordSpec => []RecordIsFaithful
<1>1. RecordInit => RecordInv
  BY DEF RecordInit, RecordInv
<1>2. RecordInv /\ [RecordNext]_recordVars => RecordInv'
  BY RecordStays
<1>3. RecordInv => RecordIsFaithful
  BY RecordTells
<1> QED
  BY <1>1, <1>2, <1>3, PTL DEF RecordSpec
=============================================================================
