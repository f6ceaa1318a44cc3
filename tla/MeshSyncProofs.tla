--------------------------- MODULE MeshSyncProofs ---------------------------
(***************************************************************************)
(* Theorems about MeshSync: what its nodes hold, acknowledge and report as *)
(* SYNCED, for any nodes, any range and any bounds:                        *)
(*   1. its types, and links only to trusted peers;                        *)
(*   2. replication is sound, as long as no node starts over with an empty *)
(*      database (MaxIncarnation = 1);                                     *)
(*   3. no step replaces a stored event, or withdraws a SYNCED status      *)
(*      while the node keeps its database;                                 *)
(*   4. MeshSync implements EventReplication: every step of the engine,    *)
(*      with its messages, links and watermarks, is a step of the promise  *)
(*      or none.                                                           *)
(***************************************************************************)
EXTENDS MeshSync, EventLogProofs

-----------------------------------------------------------------------------
(* Messages *)

\* The fields every message in flight has, by kind.
LEMMA MessageFields ==
  ASSUME NEW m \in Message
  PROVE  /\ m.from \in Node /\ m.to \in Node
         /\ m.kind \in {"HELLO", "SYNC_REQUEST", "EVENT_BATCH", "ACK"}
         /\ m.kind = "SYNC_REQUEST" => m.have \in Knowledge
         /\ m.kind = "EVENT_BATCH" =>
              m.origin \in Node /\ m.events \in Row /\ m.complete \in BOOLEAN
         /\ m.kind = "ACK" => m.origin \in Node /\ m.through \in Marks
BY DEF Message

\* sync_watermarks yields a mark for every origin.
LEMMA HaveVectorType ==
  ASSUME TypeOK, NEW n \in Node
  PROVE  HaveVector(n) \in Knowledge
<1>1. \A o \in Node : log[n][o] \in Row
  BY DEF TypeOK
<1>. QED
  BY <1>1, WatermarkIsMark DEF HaveVector, Knowledge

\* What the engine sends are messages.
LEMMA MessagesMade ==
  ASSUME TypeOK, NEW n \in Node, NEW p \in Node
  PROVE  /\ Hello(n, p) \in Message
         /\ SyncRequest(n, p) \in Message
         /\ RoundRequests(n, p) \subseteq Message
         /\ \A o \in Node : \A k \in Marks :
              Ack(n, p, o, k) \in Message /\ Offer(n, p, o, k) \in Message
<1>1. SyncRequest(n, p) \in Message
  BY HaveVectorType DEF Message, SyncRequest
<1>2. ASSUME NEW o \in Node, NEW k \in Marks
      PROVE  Offer(n, p, o, k) \in Message
  <2>1. EventsSince(log[n][o], k) \in Row
    BY BatchFollowsMark DEF TypeOK
  <2>. QED
    BY <2>1 DEF Message, Offer
<1>. QED
  BY <1>1, <1>2 DEF Message, Hello, Ack, RoundRequests

-----------------------------------------------------------------------------
(* Links *)

\* The transitions of a link lead to states of a link.
LEMMA LinkOperators ==
  ASSUME NEW link \in LinkState, NEW state \in TrustState
  PROVE  /\ ApplyTrust(link, state) \in LinkState
         /\ Authenticated(link, state) \in LinkState
         /\ AfterOpenRound(link, state) \in LinkState
         /\ CompleteRound(link) \in LinkState
BY DEF LinkState, ApplyTrust, Authenticated, AfterOpenRound, OpensRound,
       CompleteRound

\* A link that has just been given the trust state agrees with it.
Agrees(link, state) ==
  /\ PermitsSync(link) => Permits(state)
  /\ link = "AWAITING_AUTHORIZATION" => ~Permits(state)

\* open_round leaves a link in agreement with the stored trust.
LEMMA OpenRoundAgrees ==
  ASSUME NEW link \in LinkState, NEW state \in TrustState
  PROVE  Agrees(AfterOpenRound(link, state), state)
BY DEF LinkState, ApplyTrust, AfterOpenRound, OpensRound, PermitsSync, Agrees

-----------------------------------------------------------------------------
(* Types *)

\* A node that starts has well-typed state.
LEMMA InitType == Init => TypeOK
<1>. SUFFICES ASSUME Init PROVE TypeOK
  OBVIOUS
<1>1. EmptyRow \in Row
  BY DEF EmptyRow, Row
<1>2. log \in [Node -> [Node -> Row]]
  BY <1>1 DEF Init, EmptyLog
<1>3. incarnation \in [Node -> Versions]
  BY LogBounds DEF Init, Versions
<1>4. acks \in [Node -> [Node -> Knowledge]]
  BY LogBounds DEF Init, NoAcks, Knowledge, Marks
<1>5. links \in [Node -> [Node -> LinkState]]
  BY DEF Init, Unlinked, LinkState
<1>6. faults \in 0..MaxFaults
  BY MeshBounds DEF Init
<1>7. trust \in [Node -> [Node -> TrustState]]
  BY MeshBounds DEF Init
<1>. QED
  BY <1>2, <1>3, <1>4, <1>5, <1>6, <1>7 DEF Init, TypeOK

\* Sending keeps the transport's types.
LEMMA SendType ==
  ASSUME TypeOK, NEW out, out \subseteq Message, Send(out)
  PROVE  /\ network' \subseteq Message
         /\ sessions' \subseteq InRange
         /\ faults' \in 0..MaxFaults
BY DEF TypeOK, Send, Sendable

\* Answering a message keeps the transport's types.
LEMMA AnswerType ==
  ASSUME TypeOK, NEW m, NEW out, out \subseteq Message, Answer(m, out)
  PROVE  /\ network' \subseteq Message
         /\ sessions' \subseteq InRange
         /\ faults' \in 0..MaxFaults
<1>1. Fault => faults' \in 0..MaxFaults
  BY MeshBounds DEF TypeOK, Fault
<1>. QED
  BY <1>1 DEF TypeOK, Answer, Sendable

\* open_round leaves a link that agrees with the trust of its peer.
LEMMA RoundLinkType ==
  ASSUME TypeOK, NEW n \in Node, NEW p \in Node
  PROVE  /\ links[n][p] \in LinkState
         /\ trust[n][p] \in TrustState
         /\ RoundLink(n, p) \in LinkState
         /\ Agrees(RoundLink(n, p), trust[n][p])
<1>1. links[n][p] \in LinkState /\ trust[n][p] \in TrustState
  BY DEF TypeOK
<1>. QED
  BY <1>1, LinkOperators, OpenRoundAgrees DEF RoundLink

\* open_rounds keeps the types of the links and the transport.
LEMMA OpenRoundsType ==
  ASSUME TypeOK, NEW n \in Node, OpenRounds(n)
  PROVE  /\ links' \in [Node -> [Node -> LinkState]]
         /\ network' \subseteq Message
         /\ sessions' \subseteq InRange
         /\ faults' \in 0..MaxFaults
<1>1. \A p \in Node : RoundLink(n, p) \in LinkState
  BY RoundLinkType
<1>2. links' \in [Node -> [Node -> LinkState]]
  BY <1>1 DEF TypeOK, OpenRounds
<1>3. UNION {RoundRequests(n, p) : p \in Node} \subseteq Message
  BY MessagesMade
<1>. QED
  BY <1>2, <1>3, SendType DEF OpenRounds

\* record_peer_ack keeps marks in range and never lowers one.
LEMMA RaiseMarksType ==
  ASSUME NEW marks \in Knowledge, NEW reported \in Knowledge
  PROVE  /\ RaiseMarks(marks, reported) \in Knowledge
         /\ \A o \in Node : RaiseMarks(marks, reported)[o] \in {marks[o], reported[o]}
         /\ \A o \in Node : marks[o] <= RaiseMarks(marks, reported)[o]
BY LogBounds DEF RaiseMarks, Knowledge, Marks

\* An Ack reports a mark for each origin, zero for all but one.
LEMMA AckMarksType ==
  ASSUME NEW o \in Node, NEW k \in Marks
  PROVE  [[q \in Node |-> 0] EXCEPT ![o] = k] \in Knowledge
BY LogBounds DEF Knowledge, Marks

\* A process that ends leaves well-typed memory.
LEMMA ForgetMemoryType ==
  ASSUME TypeOK, NEW n \in Node, ForgetMemory(n)
  PROVE  /\ links' \in [Node -> [Node -> LinkState]]
         /\ applied' \in [Node -> BOOLEAN]
         /\ unannounced' \in [Node -> BOOLEAN]
         /\ decided' \in [Node -> SUBSET Node]
         /\ sessions' \subseteq InRange
         /\ network' \subseteq Message
BY DEF TypeOK, ForgetMemory, Unlinked, LinkState

\* Commands and triggers keep every type.
LEMMA CommandType ==
  ASSUME TypeOK, NEW n \in Node,
         \/ AppendLocal(n)
         \/ NotifyLocal(n)
         \/ Reconcile(n)
         \/ FinishTick(n)
         \/ \E p \in Node : \/ ApprovePeer(n, p)
                           \/ RevokePeer(n, p)
                           \/ NotifyAuthorization(n, p)
  PROVE  TypeOK'
<1>1. CASE AppendLocal(n)
  <2>1. PICK s \in 1..MaxAuthored[n] : log' = [log EXCEPT ![n][n][s] = incarnation[n]]
    BY <1>1 DEF AppendLocal
  <2>2. s \in Seqs /\ incarnation[n] \in Versions
    <3>1. MaxAuthored[n] \in Marks
      BY MeshBounds
    <3>. QED
      BY <2>1, <3>1, LogBounds DEF Seqs, Marks, TypeOK
  <2>3. log' \in [Node -> [Node -> Row]]
    BY <2>1, <2>2 DEF TypeOK, Row
  <2>. QED
    BY <1>1, <2>3 DEF AppendLocal, TypeOK, transport
<1>2. CASE NotifyLocal(n)
  BY <1>2, OpenRoundsType DEF NotifyLocal, TypeOK, stored
<1>3. CASE Reconcile(n)
  BY <1>3, OpenRoundsType DEF Reconcile, TypeOK, stored
<1>4. CASE FinishTick(n)
  BY <1>4, OpenRoundsType DEF FinishTick, TypeOK, stored
<1>5. ASSUME NEW p \in Node, NEW state \in TrustState, Decide(n, p, state)
      PROVE  TypeOK'
  BY <1>5 DEF Decide, TypeOK, transport
<1>6. ASSUME NEW p \in Node, NotifyAuthorization(n, p) PROVE TypeOK'
  <2>1. RoundRequests(n, p) \subseteq Message /\ RoundLink(n, p) \in LinkState
    BY MessagesMade, RoundLinkType
  <2>. QED
    BY <1>6, <2>1, SendType DEF NotifyAuthorization, TypeOK, stored
<1>. QED
  BY <1>1, <1>2, <1>3, <1>4, <1>5, <1>6 DEF ApprovePeer, RevokePeer, TrustState

\* Sessions, losses and restarts keep every type.
LEMMA SessionType ==
  ASSUME TypeOK, NEW n \in Node,
         \/ Restart(n)
         \/ RestartWithoutDatabase(n)
         \/ \E p \in Node : \/ OpenSession(n, p)
                           \/ CloseSession(n, p)
                           \/ PeerConnected(n, p)
                           \/ PeerDisconnected(n, p)
  PROVE  TypeOK'
<1>1. CASE Restart(n)
  BY <1>1, ForgetMemoryType, MeshBounds DEF Restart, Fault, TypeOK, stored
<1>2. CASE RestartWithoutDatabase(n)
  <2>1. EmptyLog \in [Node -> Row] /\ NoAcks \in [Node -> Knowledge]
    BY LogBounds DEF EmptyLog, EmptyRow, Row, NoAcks, Knowledge, Marks
  <2>2. incarnation' \in [Node -> Versions]
    BY <1>2, LogBounds DEF RestartWithoutDatabase, TypeOK, Versions
  <2>3. trust' \in [Node -> [Node -> TrustState]]
    BY <1>2 DEF RestartWithoutDatabase, TypeOK, TrustState
  <2>. QED
    BY <1>2, <2>1, <2>2, <2>3, ForgetMemoryType DEF RestartWithoutDatabase, TypeOK
<1>3. ASSUME NEW p \in Node, OpenSession(n, p) PROVE TypeOK'
  BY <1>3 DEF OpenSession, TypeOK, stored, memory
<1>4. ASSUME NEW p \in Node, CloseSession(n, p) PROVE TypeOK'
  BY <1>4, MeshBounds DEF CloseSession, Fault, TypeOK, stored, memory
<1>5. ASSUME NEW p \in Node, PeerConnected(n, p) PROVE TypeOK'
  <2>1. AfterOpenRound("CONNECTED", trust[n][p]) \in LinkState
    BY RoundLinkType, LinkOperators DEF LinkState
  <2>2. {Hello(n, p)} \subseteq Message
    BY MessagesMade
  <2>. QED
    BY <1>5, <2>1, <2>2, SendType DEF PeerConnected, TypeOK, stored
<1>6. ASSUME NEW p \in Node, PeerDisconnected(n, p) PROVE TypeOK'
  BY <1>6 DEF PeerDisconnected, TypeOK, stored, LinkState
<1>. QED
  BY <1>1, <1>2, <1>3, <1>4, <1>5, <1>6

\* Handling a message keeps every type.
LEMMA ReceiveType ==
  ASSUME TypeOK, NEW n \in Node, NEW m \in network, Receive(n, m)
  PROVE  TypeOK'
<1>. DEFINE p == m.from
<1>1. m \in Message /\ p \in Node
  BY MessageFields DEF TypeOK
<1>2. links[n][p] \in LinkState /\ trust[n][p] \in TrustState
  BY <1>1, RoundLinkType
<1>3. CASE ReceiveHello(n, m)
  <2>. DEFINE state == AfterEnrollment(trust[n][p])
              link == Authenticated(links[n][p], state)
  <2>1. state \in TrustState
    BY <1>2 DEF AfterEnrollment, TrustState
  <2>2. link \in LinkState /\ AfterOpenRound(link, state) \in LinkState
    BY <1>2, <2>1, LinkOperators
  <2>3. (IF OpensRound(link, state) THEN {SyncRequest(n, p)} ELSE {}) \subseteq Message
    BY <1>1, MessagesMade
  <2>. HIDE DEF p, state, link
  <2>4. /\ trust' = [trust EXCEPT ![n][p] = state]
        /\ links' = [links EXCEPT ![n][p] = AfterOpenRound(link, state)]
        /\ Answer(m, IF OpensRound(link, state) THEN {SyncRequest(n, p)} ELSE {})
        /\ UNCHANGED <<log, incarnation, acks, synced, equivocating,
                       applied, unannounced, decided>>
    BY <1>3 DEF ReceiveHello, p, state, link
  <2>. QED
    BY <1>1, <2>1, <2>2, <2>3, <2>4, AnswerType DEF TypeOK
<1>4. CASE ReceiveSyncRequest(n, m)
  <2>. DEFINE ahead == PeerIsAhead(n, m.have)
              out == {Offer(n, p, o, m.have[o]) : o \in Available(n, m.have)}
                       \cup (IF ahead THEN RoundRequests(n, p) ELSE {})
  <2>1. m.have \in Knowledge
    BY <1>1, <1>4, MessageFields DEF ReceiveSyncRequest
  <2>2. out \subseteq Message
    BY <1>1, <2>1, MessagesMade DEF Knowledge, Available
  <2>3. /\ links' = IF ahead THEN [links EXCEPT ![n][p] = RoundLink(n, p)] ELSE links
        /\ acks' = [acks EXCEPT ![n][p] = RaiseMarks(acks[n][p], m.have)]
        /\ synced' = [synced EXCEPT ![n] = Acknowledged(n, acks'[n])]
        /\ Answer(m, out)
        /\ UNCHANGED <<log, incarnation, equivocating, trust, applied,
                       unannounced, decided>>
    BY <1>4 DEF ReceiveSyncRequest
  <2>. HIDE DEF p, ahead, out
  <2>4. links' \in [Node -> [Node -> LinkState]]
    BY <1>1, <2>3, RoundLinkType DEF TypeOK
  <2>5. acks' \in [Node -> [Node -> Knowledge]]
    BY <1>1, <2>1, <2>3, RaiseMarksType DEF TypeOK
  <2>6. synced' \in [Node -> SUBSET Seqs]
    BY <2>3 DEF TypeOK, Acknowledged, Held
  <2>. QED
    BY <2>2, <2>3, <2>4, <2>5, <2>6, AnswerType DEF TypeOK
<1>5. CASE ReceiveEventBatch(n, m)
  <2>. DEFINE o == m.origin
              row == ApplyEvents(log[n][o], m.events)
  <2>1. o \in Node /\ m.events \in Row /\ log[n][o] \in Row
    BY <1>1, <1>5, MessageFields DEF ReceiveEventBatch, TypeOK
  <2>2. row \in Row /\ Watermark(row) \in Marks
    BY <2>1, ApplyOnlyAdds, WatermarkIsMark
  <2>3. {Ack(n, p, o, Watermark(row))} \subseteq Message
    BY <1>1, <2>1, <2>2, MessagesMade
  <2>4. /\ log' = [log EXCEPT ![n][o] = row]
        /\ \/ equivocating' = equivocating
           \/ equivocating' = [equivocating EXCEPT ![n] = @ \cup {o}]
        /\ applied' = [applied EXCEPT ![n] = @ \/ StoresSome(log[n][o], m.events)]
        /\ \/ links' = links
           \/ links' = [links EXCEPT ![n][p] = CompleteRound(links[n][p])]
        /\ Answer(m, {Ack(n, p, o, Watermark(row))})
        /\ UNCHANGED <<incarnation, acks, synced, trust, unannounced, decided>>
    BY <1>5 DEF ReceiveEventBatch
  <2>. HIDE DEF p, o, row
  <2>5. links' \in [Node -> [Node -> LinkState]]
    <3>1. CompleteRound(links[n][p]) \in LinkState
      BY <1>2, LinkOperators
    <3>2. CASE links' = [links EXCEPT ![n][p] = CompleteRound(links[n][p])]
      BY <1>1, <3>1, <3>2 DEF TypeOK
    <3>. QED
      BY <2>4, <3>2 DEF TypeOK
  <2>6. applied' \in [Node -> BOOLEAN]
    BY <2>4 DEF TypeOK, StoresSome
  <2>7. log' \in [Node -> [Node -> Row]]
    BY <2>2, <2>4 DEF TypeOK
  <2>8. equivocating' \in [Node -> SUBSET Node]
    <3>1. CASE equivocating' = [equivocating EXCEPT ![n] = @ \cup {o}]
      BY <2>1, <3>1 DEF TypeOK
    <3>. QED
      BY <2>4, <3>1 DEF TypeOK
  <2>. QED
    BY <2>3, <2>4, <2>5, <2>6, <2>7, <2>8, AnswerType DEF TypeOK
<1>6. CASE ReceiveAck(n, m)
  <2>. DEFINE marks == [[o \in Node |-> 0] EXCEPT ![m.origin] = m.through]
  <2>1. marks \in Knowledge
    BY <1>1, <1>6, MessageFields, AckMarksType DEF ReceiveAck
  <2>2. /\ acks' = [acks EXCEPT ![n][p] = RaiseMarks(acks[n][p], marks)]
        /\ synced' = [synced EXCEPT ![n] = Acknowledged(n, acks'[n])]
        /\ Answer(m, {})
        /\ UNCHANGED <<log, incarnation, equivocating, trust, memory>>
    BY <1>6 DEF ReceiveAck
  <2>. HIDE DEF p, marks
  <2>3. acks' \in [Node -> [Node -> Knowledge]]
    BY <1>1, <2>1, <2>2, RaiseMarksType DEF TypeOK
  <2>4. synced' \in [Node -> SUBSET Seqs]
    BY <2>2 DEF TypeOK, Acknowledged, Held
  <2>. QED
    BY <2>2, <2>3, <2>4, AnswerType DEF TypeOK, memory
<1>7. CASE RejectMessage(n, m)
  BY <1>7, AnswerType DEF RejectMessage, TypeOK, stored, memory
<1>. QED
  BY <1>3, <1>4, <1>5, <1>6, <1>7 DEF Receive

\* Every step keeps every type.
LEMMA StepType == TypeOK /\ [Next]_vars => TypeOK'
<1>. SUFFICES ASSUME TypeOK, [Next]_vars PROVE TypeOK'
  OBVIOUS
<1>1. ASSUME NEW n \in Node,
             \/ AppendLocal(n) \/ NotifyLocal(n) \/ Reconcile(n) \/ FinishTick(n)
             \/ Restart(n) \/ RestartWithoutDatabase(n)
      PROVE  TypeOK'
  BY <1>1, CommandType, SessionType
<1>2. ASSUME NEW n \in Node, NEW p \in Node,
             \/ ApprovePeer(n, p) \/ RevokePeer(n, p) \/ NotifyAuthorization(n, p)
             \/ OpenSession(n, p) \/ CloseSession(n, p)
             \/ PeerConnected(n, p) \/ PeerDisconnected(n, p)
      PROVE  TypeOK'
  BY <1>2, CommandType, SessionType
<1>3. ASSUME NEW m \in network, LoseMessage(m) PROVE TypeOK'
  BY <1>3, MeshBounds DEF LoseMessage, Fault, TypeOK, stored, memory
<1>4. CASE UNCHANGED vars
  BY <1>4 DEF TypeOK, vars, stored, memory, transport
<1>. QED
  BY <1>1, <1>2, <1>3, <1>4, ReceiveType DEF Next

\* Every variable keeps its type, whatever the nodes, the range and the bounds.
THEOREM TypeCorrect == Spec => []TypeOK
BY InitType, StepType, PTL DEF Spec

-----------------------------------------------------------------------------
(* Links follow trust *)

\* What a step may do to one link: leave it and its trust alone, bring it in
\* agreement with trust, or leave a notification pending.
LinkStep(n, p) ==
  \/ Agrees(links'[n][p], trust'[n][p])
  \/ p \in decided'[n]
  \/ /\ links'[n][p] = links[n][p]
     /\ trust'[n][p] = trust[n][p]
     /\ p \in decided[n] => p \in decided'[n]

\* A step that changes neither links, trust nor decisions keeps their agreement.
LEMMA UnchangedLinks ==
  ASSUME UNCHANGED <<links, trust, decided>>, NEW n \in Node, NEW p \in Node
  PROVE  LinkStep(n, p)
BY DEF LinkStep

\* open_rounds keeps links in agreement with trust.
LEMMA OpenRoundsLinks ==
  ASSUME TypeOK, NEW n \in Node, OpenRounds(n), UNCHANGED <<trust, decided>>,
         NEW q \in Node, NEW r \in Node
  PROVE  LinkStep(q, r)
<1>1. links' = [links EXCEPT ![n] = [p \in Node |-> RoundLink(n, p)]]
  BY DEF OpenRounds
<1>2. CASE q = n
  <2>1. links'[q][r] = RoundLink(q, r) /\ trust'[q][r] = trust[q][r]
    BY <1>1, <1>2 DEF TypeOK
  <2>. QED
    BY <2>1, RoundLinkType DEF LinkStep
<1>3. CASE q # n
  BY <1>1, <1>3 DEF LinkStep, TypeOK
<1>. QED
  BY <1>2, <1>3

\* A step that changes one link and one decision to states that agree keeps all in agreement.
LEMMA OneLink ==
  ASSUME TypeOK, NEW n \in Node, NEW p \in Node, NEW link \in LinkState,
         NEW state \in TrustState, Agrees(link, state),
         links' = [links EXCEPT ![n][p] = link],
         trust' = [trust EXCEPT ![n][p] = state],
         NEW q \in Node, NEW r \in Node,
         r \in decided[q] => r \in decided'[q] \/ (q = n /\ r = p)
  PROVE  LinkStep(q, r)
<1>1. CASE q = n /\ r = p
  <2>1. links'[q][r] = link /\ trust'[q][r] = state
    BY <1>1 DEF TypeOK
  <2>. QED
    BY <2>1 DEF LinkStep
<1>2. CASE ~ (q = n /\ r = p)
  <2>1. links'[q][r] = links[q][r] /\ trust'[q][r] = trust[q][r]
    BY <1>2 DEF TypeOK
  <2>. QED
    BY <1>2, <2>1 DEF LinkStep
<1>. QED
  BY <1>1, <1>2

\* Storing the state a peer already has changes nothing.
LEMMA SameTrust ==
  ASSUME TypeOK, NEW n \in Node, NEW p \in Node
  PROVE  trust = [trust EXCEPT ![n][p] = trust[n][p]]
BY DEF TypeOK

\* A process that ends takes its links and its open decisions together.
LEMMA ForgetMemoryLinks ==
  ASSUME TypeOK, NEW n \in Node, ForgetMemory(n),
         \A q \in Node \ {n} : trust'[q] = trust[q],
         NEW q \in Node, NEW r \in Node
  PROVE  LinkStep(q, r)
<1>1. CASE q = n
  <2>1. links'[q][r] = "DISCONNECTED"
    BY <1>1 DEF ForgetMemory, Unlinked, TypeOK
  <2>. QED
    BY <2>1 DEF LinkStep, Agrees, PermitsSync
<1>2. CASE q # n
  BY <1>2 DEF ForgetMemory, LinkStep, TypeOK
<1>. QED
  BY <1>1, <1>2

\* Commands and triggers keep links in agreement with trust.
LEMMA CommandLinks ==
  ASSUME TypeOK, NEW n \in Node, NEW q \in Node, NEW r \in Node,
         \/ AppendLocal(n)
         \/ NotifyLocal(n)
         \/ Reconcile(n)
         \/ FinishTick(n)
         \/ \E p \in Node : \/ ApprovePeer(n, p)
                           \/ RevokePeer(n, p)
                           \/ NotifyAuthorization(n, p)
  PROVE  LinkStep(q, r)
<1>1. CASE AppendLocal(n)
  BY <1>1, UnchangedLinks DEF AppendLocal
<1>2. CASE NotifyLocal(n)
  BY <1>2, OpenRoundsLinks DEF NotifyLocal, stored
<1>3. CASE Reconcile(n)
  BY <1>3, OpenRoundsLinks DEF Reconcile, stored
<1>4. CASE FinishTick(n)
  BY <1>4, OpenRoundsLinks DEF FinishTick, stored
<1>5. ASSUME NEW p \in Node, NEW state \in TrustState, Decide(n, p, state)
      PROVE  LinkStep(q, r)
  <2>1. CASE q = n /\ r = p
    <3>1. decided' = [decided EXCEPT ![n] = decided[n] \cup {p}]
      BY <1>5 DEF Decide
    <3>2. r \in decided'[q]
      BY <2>1, <3>1 DEF TypeOK
    <3>. QED
      BY <3>2 DEF LinkStep
  <2>2. CASE ~ (q = n /\ r = p)
    BY <1>5, <2>2 DEF Decide, LinkStep, TypeOK
  <2>. QED
    BY <2>1, <2>2
<1>6. ASSUME NEW p \in Node, NotifyAuthorization(n, p) PROVE LinkStep(q, r)
  <2>1. r \in decided[q] => r \in decided'[q] \/ (q = n /\ r = p)
    BY <1>6 DEF NotifyAuthorization, TypeOK
  <2>2. /\ links' = [links EXCEPT ![n][p] = RoundLink(n, p)]
        /\ trust' = [trust EXCEPT ![n][p] = trust[n][p]]
    BY <1>6, SameTrust DEF NotifyAuthorization, stored
  <2>3. /\ RoundLink(n, p) \in LinkState
        /\ trust[n][p] \in TrustState
        /\ Agrees(RoundLink(n, p), trust[n][p])
    BY <1>6, RoundLinkType
  <2>. QED
    BY <1>6, <2>1, <2>2, <2>3, OneLink
<1>7. ASSUME NEW p \in Node, ApprovePeer(n, p) \/ RevokePeer(n, p)
      PROVE  LinkStep(q, r)
  <2>1. "TRUSTED" \in TrustState /\ "REVOKED" \in TrustState
    BY DEF TrustState
  <2>. QED
    BY <1>5, <1>7, <2>1 DEF ApprovePeer, RevokePeer
<1>. QED
  BY <1>1, <1>2, <1>3, <1>4, <1>6, <1>7

\* Sessions and restarts keep links in agreement with trust.
LEMMA SessionLinks ==
  ASSUME TypeOK, NEW n \in Node, NEW q \in Node, NEW r \in Node,
         \/ Restart(n)
         \/ RestartWithoutDatabase(n)
         \/ \E p \in Node : \/ OpenSession(n, p)
                           \/ CloseSession(n, p)
                           \/ PeerConnected(n, p)
                           \/ PeerDisconnected(n, p)
  PROVE  LinkStep(q, r)
<1>1. CASE Restart(n)
  BY <1>1, ForgetMemoryLinks DEF Restart, stored
<1>2. CASE RestartWithoutDatabase(n)
  <2>1. \A x \in Node \ {n} : trust'[x] = trust[x]
    BY <1>2 DEF RestartWithoutDatabase, TypeOK
  <2>. QED
    BY <1>2, <2>1, ForgetMemoryLinks DEF RestartWithoutDatabase
<1>3. ASSUME NEW p \in Node, OpenSession(n, p) \/ CloseSession(n, p)
      PROVE  LinkStep(q, r)
  BY <1>3, UnchangedLinks DEF OpenSession, CloseSession, stored, memory
<1>4. ASSUME NEW p \in Node, PeerConnected(n, p) PROVE LinkStep(q, r)
  <2>. DEFINE link == AfterOpenRound("CONNECTED", trust[n][p])
  <2>1. link \in LinkState /\ trust[n][p] \in TrustState /\ Agrees(link, trust[n][p])
    BY RoundLinkType, LinkOperators, OpenRoundAgrees DEF LinkState
  <2>2. /\ links' = [links EXCEPT ![n][p] = link]
        /\ trust' = [trust EXCEPT ![n][p] = trust[n][p]]
        /\ decided' = decided
    BY <1>4, SameTrust DEF PeerConnected, stored
  <2>. HIDE DEF link
  <2>. QED
    BY <2>1, <2>2, OneLink
<1>5. ASSUME NEW p \in Node, PeerDisconnected(n, p) PROVE LinkStep(q, r)
  <2>1. "DISCONNECTED" \in LinkState /\ Agrees("DISCONNECTED", trust[n][p])
    BY DEF LinkState, Agrees, PermitsSync
  <2>2. /\ links' = [links EXCEPT ![n][p] = "DISCONNECTED"]
        /\ trust' = [trust EXCEPT ![n][p] = trust[n][p]]
        /\ decided' = decided
    BY <1>5, SameTrust DEF PeerDisconnected, stored
  <2>. QED
    BY <2>1, <2>2, RoundLinkType, OneLink
<1>. QED
  BY <1>1, <1>2, <1>3, <1>4, <1>5

\* Handling a message keeps links in agreement with trust.
LEMMA ReceiveLinks ==
  ASSUME TypeOK, LinkFollowsTrust, NEW n \in Node, NEW m \in network, Receive(n, m),
         NEW q \in Node, NEW r \in Node
  PROVE  LinkStep(q, r)
<1>. DEFINE p == m.from
<1>1. p \in Node
  BY MessageFields DEF TypeOK
<1>2. links[n][p] \in LinkState /\ trust[n][p] \in TrustState
  BY <1>1, RoundLinkType
<1>3. CASE ReceiveHello(n, m)
  <2>. DEFINE state == AfterEnrollment(trust[n][p])
              link == AfterOpenRound(Authenticated(links[n][p], state), state)
  <2>1. state \in TrustState
    BY <1>2 DEF AfterEnrollment, TrustState
  <2>2. link \in LinkState /\ Agrees(link, state)
    BY <1>2, <2>1, LinkOperators, OpenRoundAgrees
  <2>3. /\ trust' = [trust EXCEPT ![n][p] = state]
        /\ links' = [links EXCEPT ![n][p] = link]
        /\ decided' = decided
    BY <1>3 DEF ReceiveHello
  <2>. HIDE DEF p, state, link
  <2>. QED
    BY <1>1, <2>1, <2>2, <2>3, OneLink
<1>4. CASE ReceiveSyncRequest(n, m)
  <2>1. /\ \/ links' = links
           \/ links' = [links EXCEPT ![n][p] = RoundLink(n, p)]
        /\ trust' = trust /\ decided' = decided
    BY <1>4 DEF ReceiveSyncRequest
  <2>2. trust = [trust EXCEPT ![n][p] = trust[n][p]]
    BY <1>1, SameTrust
  <2>. HIDE DEF p
  <2>3. CASE links' = links
    BY <2>1, <2>3, UnchangedLinks
  <2>4. CASE links' = [links EXCEPT ![n][p] = RoundLink(n, p)]
    <3>1. /\ RoundLink(n, p) \in LinkState /\ trust[n][p] \in TrustState
          /\ Agrees(RoundLink(n, p), trust[n][p])
      BY <1>1, RoundLinkType
    <3>2. trust' = [trust EXCEPT ![n][p] = trust[n][p]]
      BY <2>1, <2>2
    <3> QED
      BY <1>1, <2>1, <2>4, <3>1, <3>2, OneLink
  <2>. QED
    BY <2>1, <2>3, <2>4
<1>5. CASE ReceiveEventBatch(n, m)
  <2>1. /\ \/ links' = links
           \/ links' = [links EXCEPT ![n][p] = CompleteRound(links[n][p])]
        /\ trust' = trust /\ decided' = decided
    BY <1>5 DEF ReceiveEventBatch
  <2>. HIDE DEF p
  <2>2. CASE links' = links
    BY <2>1, <2>2, UnchangedLinks
  <2>3. CASE links' = [links EXCEPT ![n][p] = CompleteRound(links[n][p])] /\ q = n /\ r = p
    <3>1. links'[q][r] = CompleteRound(links[q][r])
      BY <2>3 DEF TypeOK
    <3>2. \/ r \in decided[q]
          \/ Agrees(links[q][r], trust[q][r])
      BY DEF LinkFollowsTrust, Agrees
    <3>. QED
      BY <2>1, <3>1, <3>2 DEF LinkStep, Agrees, CompleteRound, PermitsSync
  <2>4. CASE links' = [links EXCEPT ![n][p] = CompleteRound(links[n][p])] /\ ~ (q = n /\ r = p)
    BY <2>1, <2>4 DEF LinkStep, TypeOK
  <2>. QED
    BY <2>1, <2>2, <2>3, <2>4
<1>6. CASE ReceiveAck(n, m)
  BY <1>6, UnchangedLinks DEF ReceiveAck, memory
<1>7. CASE RejectMessage(n, m)
  BY <1>7, UnchangedLinks DEF RejectMessage, stored, memory
<1>. QED
  BY <1>3, <1>4, <1>5, <1>6, <1>7 DEF Receive

\* Every step keeps links in agreement with trust.
LEMMA NextLinks ==
  TypeOK /\ LinkFollowsTrust /\ [Next]_vars => LinkFollowsTrust'
<1>. SUFFICES ASSUME TypeOK, LinkFollowsTrust, [Next]_vars,
                     NEW q \in Node, NEW r \in Node
              PROVE  LinkStep(q, r)
  BY DEF LinkFollowsTrust, LinkStep, Agrees
<1>1. ASSUME NEW n \in Node,
             \/ AppendLocal(n) \/ NotifyLocal(n) \/ Reconcile(n) \/ FinishTick(n)
             \/ Restart(n) \/ RestartWithoutDatabase(n)
      PROVE  LinkStep(q, r)
  BY <1>1, CommandLinks, SessionLinks
<1>2. ASSUME NEW n \in Node, NEW p \in Node,
             \/ ApprovePeer(n, p) \/ RevokePeer(n, p) \/ NotifyAuthorization(n, p)
             \/ OpenSession(n, p) \/ CloseSession(n, p)
             \/ PeerConnected(n, p) \/ PeerDisconnected(n, p)
      PROVE  LinkStep(q, r)
  BY <1>2, CommandLinks, SessionLinks
<1>3. ASSUME NEW m \in network, LoseMessage(m) PROVE LinkStep(q, r)
  BY <1>3, UnchangedLinks DEF LoseMessage, stored, memory
<1>4. CASE UNCHANGED vars
  BY <1>4, UnchangedLinks DEF vars, stored, memory
<1>. QED
  BY <1>1, <1>2, <1>3, <1>4, ReceiveLinks DEF Next

\* Whatever decisions, sessions and messages interleave, a link permits
\* replication only with a trusted peer, unless the engine has still to be told.
THEOREM LinksFollowTrust == Spec => []LinkFollowsTrust
<1>1. Init => LinkFollowsTrust
  BY DEF Init, Unlinked, LinkFollowsTrust, PermitsSync
<1>. QED
  BY <1>1, NextLinks, TypeCorrect, PTL DEF Spec

-----------------------------------------------------------------------------
(* The inductive invariant *)

\* What a message claims is so: its sender holds what it says or offers, and a
\* batch leaves no hole in its receiver's log.
Truthful(m) ==
  /\ m.kind = "SYNC_REQUEST" =>
       \A o \in Node : 1..m.have[o] \subseteq Held(log[m.from][o])
  /\ m.kind = "ACK" => 1..m.through \subseteq Held(log[m.from][m.origin])
  /\ m.kind = "EVENT_BATCH" =>
       /\ Held(m.events) \subseteq Held(log[m.from][m.origin])
       /\ \A s \in Held(m.events) :
            1..s \subseteq Held(log[m.to][m.origin]) \cup Held(m.events)

MessagesTruthful == \A m \in network : Truthful(m)

LogsContiguous == \A n, o \in Node : Contiguous(log[n][o])

OriginHoldsAll == \A n, o \in Node : Held(log[n][o]) \subseteq Held(log[o][o])

SyncedHeld ==
  \A n \in Node : \A s \in synced[n] :
    /\ s \in Held(log[n][n])
    /\ \E p \in Node \ {n} : s \in Held(log[p][n])

Sound ==
  /\ TypeOK
  /\ AckedMeansHeld
  /\ MessagesTruthful
  /\ LogsContiguous
  /\ OriginHoldsAll
  /\ SyncedHeld

LogsGrow == \A n, o \in Node : Held(log[n][o]) \subseteq Held(log'[n][o])

-----------------------------------------------------------------------------
(* Claims stay true while logs grow *)

\* A truthful message stays truthful while logs grow.
LEMMA TruthfulStays ==
  ASSUME LogsGrow, NEW m \in Message, Truthful(m)
  PROVE  Truthful(m)'
<1>. /\ m.from \in Node /\ m.to \in Node
     /\ m.kind \in {"EVENT_BATCH", "ACK"} => m.origin \in Node
  BY MessageFields
<1>1. m.kind = "SYNC_REQUEST" =>
        \A o \in Node : 1..m.have[o] \subseteq Held(log'[m.from][o])
  BY DEF Truthful, LogsGrow
<1>2. m.kind = "ACK" => 1..m.through \subseteq Held(log'[m.from][m.origin])
  BY DEF Truthful, LogsGrow
<1>3. m.kind = "EVENT_BATCH" =>
        /\ Held(m.events) \subseteq Held(log'[m.from][m.origin])
        /\ \A s \in Held(m.events) :
             1..s \subseteq Held(log'[m.to][m.origin]) \cup Held(m.events)
  BY DEF Truthful, LogsGrow
<1>. QED
  BY <1>1, <1>2, <1>3 DEF Truthful

\* Messages stay truthful if the new ones are and logs only grow.
LEMMA MessagesStayTruthful ==
  ASSUME TypeOK, MessagesTruthful, LogsGrow,
         \A m \in network' : m \in network \/ Truthful(m)'
  PROVE  MessagesTruthful'
BY TruthfulStays DEF MessagesTruthful, TypeOK

\* Hellos and requests are truthful when they are sent.
LEMMA RequestTruthful ==
  ASSUME TypeOK, NEW n \in Node, NEW p \in Node
  PROVE  /\ Truthful(SyncRequest(n, p))
         /\ Truthful(Hello(n, p))
         /\ \A m \in RoundRequests(n, p) : Truthful(m)
<1>1. \A o \in Node : 1..HaveVector(n)[o] \subseteq Held(log[n][o])
  BY WatermarkIsMark DEF HaveVector, TypeOK
<1>. QED
  BY <1>1 DEF Truthful, SyncRequest, Hello, RoundRequests

\* A batch served to a truthful request is truthful.
LEMMA OfferTruthful ==
  ASSUME TypeOK, NEW n \in Node, NEW p \in Node, NEW o \in Node, NEW k \in Marks,
         1..k \subseteq Held(log[p][o])
  PROVE  Truthful(Offer(n, p, o, k))
<1>. DEFINE events == EventsSince(log[n][o], k)
<1>1. /\ Held(events) \subseteq Held(log[n][o])
      /\ \A s \in Held(events) : 1..s \subseteq 1..k \cup Held(events)
  BY BatchFollowsMark DEF TypeOK
<1>2. /\ Offer(n, p, o, k).kind = "EVENT_BATCH"
      /\ Offer(n, p, o, k).from = n /\ Offer(n, p, o, k).to = p
      /\ Offer(n, p, o, k).origin = o /\ Offer(n, p, o, k).events = events
  BY DEF Offer
<1>. HIDE DEF events
<1>. QED
  BY <1>1, <1>2 DEF Truthful

-----------------------------------------------------------------------------
(* Steps that leave logs, acknowledgements and statuses alone *)

\* A step that leaves logs and acknowledgements alone and sends the truth is sound.
LEMMA QuietStep ==
  ASSUME Sound, TypeOK', UNCHANGED <<log, acks, synced>>,
         \A m \in network' : m \in network \/ Truthful(m)
  PROVE  Sound'
<1>1. LogsGrow
  BY DEF LogsGrow
<1>2. ASSUME NEW m \in network', m \notin network PROVE Truthful(m)'
  <2>1. Truthful(m)
    BY <1>2
  <2>. QED
    BY <2>1 DEF Truthful
<1>3. MessagesTruthful'
  BY <1>1, <1>2, MessagesStayTruthful DEF Sound
<1>. QED
  BY <1>3 DEF Sound, AckedMeansHeld, LogsContiguous, OriginHoldsAll, SyncedHeld

\* Sending the truth adds only truthful messages.
LEMMA QuietSend ==
  ASSUME TypeOK, NEW out, \A m \in out : Truthful(m), Send(out)
  PROVE  \A m \in network' : m \in network \/ Truthful(m)
BY DEF Send, Sendable

\* Answering with the truth adds only truthful messages.
LEMMA QuietAnswer ==
  ASSUME TypeOK, NEW m, NEW out, \A a \in out : Truthful(a), Answer(m, out)
  PROVE  \A a \in network' : a \in network \/ Truthful(a)
BY DEF Answer, Sendable

\* A message that an answer adds is one it sent.
LEMMA AnswerIsSent ==
  ASSUME NEW m, NEW out, Answer(m, out), NEW a \in network', a \notin network
  PROVE  a \in out
BY DEF Answer, Sendable

\* open_rounds is sound.
LEMMA QuietOpenRounds ==
  ASSUME Sound, TypeOK', NEW n \in Node, OpenRounds(n), UNCHANGED stored
  PROVE  Sound'
<1>1. \A m \in UNION {RoundRequests(n, p) : p \in Node} : Truthful(m)
  BY RequestTruthful DEF Sound
<1>2. \A m \in network' : m \in network \/ Truthful(m)
  BY <1>1, QuietSend DEF OpenRounds, Sound
<1>. QED
  BY <1>2, QuietStep DEF stored

-----------------------------------------------------------------------------
(* Steps that change them *)

\* A local write is sound: the author's log has no gap, so the next number is one past its mark.
LEMMA AppendSound ==
  ASSUME Sound, TypeOK', NEW n \in Node, AppendLocal(n)
  PROVE  Sound'
<1>1. PICK s \in 1..MaxAuthored[n] :
        /\ IsNextSequence(log[n][n], s)
        /\ log' = [log EXCEPT ![n][n][s] = incarnation[n]]
  BY DEF AppendLocal
<1>2. s \in Seqs /\ incarnation[n] \in Versions
  <2>1. MaxAuthored[n] \in Marks
    BY MeshBounds
  <2>. QED
    BY <1>1, <2>1, LogBounds DEF Seqs, Marks, Sound, TypeOK
<1>3. incarnation[n] # NotHeld
  BY <1>2, LogBounds DEF Versions, NotHeld
<1>4. /\ \A q, o \in Node : ~ (q = n /\ o = n) => log'[q][o] = log[q][o]
      /\ log'[n][n] = [log[n][n] EXCEPT ![s] = incarnation[n]]
  BY <1>1 DEF Sound, TypeOK
<1>5. Held(log'[n][n]) = Held(log[n][n]) \cup {s}
  <2>1. log[n][n] \in Row
    BY DEF Sound, TypeOK
  <2>. QED
    BY <1>2, <1>3, <1>4, <2>1 DEF Held, Row
<1>6. LogsGrow
  BY <1>4, <1>5 DEF LogsGrow
<1>7. /\ acks' = acks /\ synced' = synced /\ network' = network
  BY DEF AppendLocal, transport
<1>8. MessagesTruthful'
  BY <1>6, <1>7, MessagesStayTruthful DEF Sound
<1>9. AckedMeansHeld'
  BY <1>6, <1>7 DEF AckedMeansHeld, LogsGrow, Sound
<1>10. SyncedHeld'
  <2>1. ASSUME NEW q \in Node, NEW t \in synced[q]
        PROVE  /\ t \in Held(log'[q][q])
               /\ \E p \in Node \ {q} : t \in Held(log'[p][q])
    BY <1>6 DEF LogsGrow, Sound, SyncedHeld
  <2>. QED
    BY <1>7, <2>1 DEF SyncedHeld
<1>11. LogsContiguous'
  <2>1. 1..s \subseteq Held(log[n][n]) \cup {s}
    <3>1. CASE s = 1
      BY <3>1
    <3>2. CASE s - 1 \in Held(log[n][n])
      <4>1. 1..(s - 1) \subseteq Held(log[n][n])
        BY <3>2 DEF Sound, LogsContiguous, Contiguous
      <4>. QED
        BY <1>2, <4>1, LogBounds DEF Seqs
    <3>. QED
      BY <1>1, <3>1, <3>2 DEF IsNextSequence
  <2>2. Contiguous(log'[n][n])
    BY <1>5, <2>1 DEF Sound, LogsContiguous, Contiguous
  <2>. QED
    BY <1>4, <2>2 DEF Sound, LogsContiguous
<1>12. OriginHoldsAll'
  <2>1. ASSUME NEW q \in Node, NEW o \in Node
        PROVE  Held(log'[q][o]) \subseteq Held(log'[o][o])
    <3>1. CASE q = n /\ o = n
      BY <3>1
    <3>2. CASE ~ (q = n /\ o = n)
      BY <1>4, <1>6, <3>2 DEF LogsGrow, Sound, OriginHoldsAll
    <3>. QED
      BY <3>1, <3>2
  <2>. QED
    BY <2>1 DEF OriginHoldsAll
<1>. QED
  BY <1>8, <1>9, <1>10, <1>11, <1>12 DEF Sound

\* Raising what is known of a peer to marks that it holds, as both handlers of
\* a peer's marks do.
LEMMA MarksSound ==
  ASSUME Sound, TypeOK', NEW n \in Node, NEW p \in Node, NEW marks \in Knowledge,
         \A o \in Node : 1..marks[o] \subseteq Held(log[p][o]),
         log' = log,
         acks' = [acks EXCEPT ![n][p] = RaiseMarks(acks[n][p], marks)],
         synced' = [synced EXCEPT ![n] = Acknowledged(n, acks'[n])],
         \A m \in network' : m \in network \/ Truthful(m)
  PROVE  Sound'
<1>1. AckedMeansHeld'
  <2>1. ASSUME NEW q \in Node, NEW r \in Node, NEW o \in Node
        PROVE  1..acks'[q][r][o] \subseteq Held(log[r][o])
    <3>1. 1..acks[q][r][o] \subseteq Held(log[r][o])
      BY DEF Sound, AckedMeansHeld
    <3>2. CASE q = n /\ r = p
      <4>1. acks[n][p] \in Knowledge
        BY DEF Sound, TypeOK
      <4>2. acks'[q][r] = RaiseMarks(acks[n][p], marks)
        BY <3>2 DEF Sound, TypeOK
      <4>3. acks'[q][r][o] \in {acks[n][p][o], marks[o]}
        BY <4>1, <4>2, RaiseMarksType
      <4>. QED
        BY <3>1, <3>2, <4>3
    <3>3. CASE ~ (q = n /\ r = p)
      BY <3>1, <3>3 DEF Sound, TypeOK
    <3>. QED
      BY <3>2, <3>3
  <2>. QED
    BY <2>1 DEF AckedMeansHeld
<1>2. SyncedHeld'
  <2>1. ASSUME NEW q \in Node, NEW s \in synced'[q]
        PROVE  /\ s \in Held(log[q][q])
               /\ \E r \in Node \ {q} : s \in Held(log[r][q])
    <3>1. CASE q = n
      <4>1. s \in Acknowledged(n, acks'[n])
        BY <2>1, <3>1 DEF Sound, TypeOK
      <4>2. PICK r \in Node \ {n} : acks'[n][r][n] >= s
        BY <4>1 DEF Acknowledged
      <4>3. s \in Held(log[n][n]) /\ s \in Seqs
        BY <4>1 DEF Acknowledged, Held
      <4>4. acks'[n][r][n] \in Marks
        BY <4>2 DEF TypeOK, Knowledge
      <4>5. s \in 1..acks'[n][r][n]
        BY <4>2, <4>3, <4>4, LogBounds DEF Seqs, Marks
      <4>. QED
        BY <1>1, <3>1, <4>2, <4>3, <4>5 DEF AckedMeansHeld
    <3>2. CASE q # n
      BY <2>1, <3>2 DEF Sound, TypeOK, SyncedHeld
    <3>. QED
      BY <3>1, <3>2
  <2>. QED
    BY <2>1 DEF SyncedHeld
<1>3. LogsGrow
  BY DEF LogsGrow
<1>4. MessagesTruthful'
  <2>1. ASSUME NEW m \in network', m \notin network PROVE Truthful(m)'
    <3>1. Truthful(m)
      BY <2>1
    <3>. QED
      BY <3>1 DEF Truthful
  <2>. QED
    BY <1>3, <2>1, MessagesStayTruthful DEF Sound
<1>5. LogsContiguous' /\ OriginHoldsAll'
  BY DEF Sound, LogsContiguous, OriginHoldsAll
<1>. QED
  BY <1>1, <1>2, <1>4, <1>5 DEF Sound

\* Serving a request is sound: the marks it carries are held by its sender.
LEMMA SyncRequestSound ==
  ASSUME Sound, TypeOK', NEW n \in Node, NEW m \in network, ReceiveSyncRequest(n, m)
  PROVE  Sound'
<1>. DEFINE p == m.from
            requests == IF PeerIsAhead(n, m.have) THEN RoundRequests(n, p) ELSE {}
            out == {Offer(n, p, o, m.have[o]) : o \in Available(n, m.have)} \cup requests
<1>1. m \in Message /\ p \in Node /\ m.have \in Knowledge
  BY MessageFields DEF Sound, TypeOK, ReceiveSyncRequest
<1>2. \A o \in Node : 1..m.have[o] \subseteq Held(log[p][o])
  BY DEF Sound, MessagesTruthful, Truthful, ReceiveSyncRequest
<1>3. \A a \in out : Truthful(a)
  <2>1. \A o \in Available(n, m.have) : Truthful(Offer(n, p, o, m.have[o]))
    BY <1>1, <1>2, OfferTruthful DEF Sound, Knowledge, Available
  <2>2. \A a \in requests : Truthful(a)
    BY <1>1, RequestTruthful DEF Sound
  <2>. QED
    BY <2>1, <2>2
<1>4. Answer(m, out)
  BY DEF ReceiveSyncRequest
<1>. HIDE DEF out, p
<1>5. \A a \in network' : a \in network \/ Truthful(a)
  BY <1>3, <1>4, QuietAnswer DEF Sound
<1>6. /\ log' = log
      /\ acks' = [acks EXCEPT ![n][p] = RaiseMarks(acks[n][p], m.have)]
      /\ synced' = [synced EXCEPT ![n] = Acknowledged(n, acks'[n])]
  BY DEF ReceiveSyncRequest, p
<1>. QED
  BY <1>1, <1>2, <1>5, <1>6, MarksSound

\* Recording an Ack is sound: its mark is held by its sender.
LEMMA AckSound ==
  ASSUME Sound, TypeOK', NEW n \in Node, NEW m \in network, ReceiveAck(n, m)
  PROVE  Sound'
<1>. DEFINE p == m.from
            marks == [[o \in Node |-> 0] EXCEPT ![m.origin] = m.through]
<1>1. m \in Message /\ p \in Node /\ m.origin \in Node /\ m.through \in Marks
  BY MessageFields DEF Sound, TypeOK, ReceiveAck
<1>2. marks \in Knowledge
  BY <1>1, AckMarksType
<1>3. \A o \in Node : 1..marks[o] \subseteq Held(log[p][o])
  <2>1. 1..m.through \subseteq Held(log[p][m.origin])
    BY DEF Sound, MessagesTruthful, Truthful, ReceiveAck
  <2>. QED
    BY <1>1, <2>1
<1>4. /\ log' = log
      /\ acks' = [acks EXCEPT ![n][p] = RaiseMarks(acks[n][p], marks)]
      /\ synced' = [synced EXCEPT ![n] = Acknowledged(n, acks'[n])]
      /\ Answer(m, {})
  BY DEF ReceiveAck
<1>. HIDE DEF marks, p
<1>5. \A a \in network' : a \in network \/ Truthful(a)
  BY <1>4, QuietAnswer DEF Sound
<1>. QED
  BY <1>1, <1>2, <1>3, <1>4, <1>5, MarksSound

\* Applying a batch is sound: it starts at or below the mark of its receiver and has no gap.
LEMMA EventBatchSound ==
  ASSUME Sound, TypeOK', NEW n \in Node, NEW m \in network, ReceiveEventBatch(n, m)
  PROVE  Sound'
<1>. DEFINE p == m.from
            o == m.origin
            row == ApplyEvents(log[n][o], m.events)
<1>1. /\ m \in Message /\ m.to = n /\ p \in Node /\ o \in Node
      /\ m.events \in Row /\ log[n][o] \in Row
  BY MessageFields DEF Sound, TypeOK, ReceiveEventBatch, Arrives
<1>2. /\ Held(m.events) \subseteq Held(log[p][o])
      /\ \A s \in Held(m.events) : 1..s \subseteq Held(log[n][o]) \cup Held(m.events)
  BY <1>1 DEF Sound, MessagesTruthful, Truthful, ReceiveEventBatch
<1>3. row \in Row /\ Held(row) = Held(log[n][o]) \cup Held(m.events)
  BY <1>1, ApplyOnlyAdds
<1>4. /\ log' = [log EXCEPT ![n][o] = row]
      /\ acks' = acks /\ synced' = synced
      /\ Answer(m, {Ack(n, p, o, Watermark(row))})
  BY DEF ReceiveEventBatch
<1>5. 1..Watermark(row) \subseteq Held(row)
  BY <1>3, WatermarkIsMark
<1>. HIDE DEF p, o, row
<1>6. /\ log'[n][o] = row
      /\ \A q, r \in Node : ~ (q = n /\ r = o) => log'[q][r] = log[q][r]
  BY <1>1, <1>4 DEF Sound, TypeOK
<1>7. LogsGrow
  BY <1>3, <1>6 DEF LogsGrow
<1>8. MessagesTruthful'
  <2>1. ASSUME NEW a \in network', a \notin network PROVE Truthful(a)'
    <3>1. a = Ack(n, p, o, Watermark(row))
      BY <1>4, <2>1, AnswerIsSent
    <3>2. /\ a.kind = "ACK" /\ a.from = n
          /\ a.origin = o /\ a.through = Watermark(row)
      BY <3>1 DEF Ack
    <3>3. 1..a.through \subseteq Held(log'[a.from][a.origin])
      BY <1>5, <1>6, <3>2
    <3>. QED
      BY <3>2, <3>3 DEF Truthful
  <2>. QED
    BY <1>7, <2>1, MessagesStayTruthful DEF Sound
<1>9. AckedMeansHeld'
  BY <1>4, <1>7 DEF AckedMeansHeld, LogsGrow, Sound
<1>10. SyncedHeld'
  <2>1. ASSUME NEW q \in Node, NEW t \in synced[q]
        PROVE  /\ t \in Held(log'[q][q])
               /\ \E r \in Node \ {q} : t \in Held(log'[r][q])
    BY <1>7 DEF LogsGrow, Sound, SyncedHeld
  <2>. QED
    BY <1>4, <2>1 DEF SyncedHeld
<1>11. LogsContiguous'
  <2>1. Contiguous(row)
    BY <1>1, <1>2, <1>3 DEF Sound, LogsContiguous, Contiguous
  <2>. QED
    BY <1>6, <2>1 DEF Sound, LogsContiguous
<1>12. OriginHoldsAll'
  <2>1. ASSUME NEW q \in Node, NEW r \in Node
        PROVE  Held(log'[q][r]) \subseteq Held(log'[r][r])
    <3>1. CASE q = n /\ r = o
      <4>1. Held(row) \subseteq Held(log[o][o])
        BY <1>1, <1>2, <1>3 DEF Sound, OriginHoldsAll
      <4>. QED
        BY <1>1, <1>6, <1>7, <3>1, <4>1 DEF LogsGrow
    <3>2. CASE ~ (q = n /\ r = o)
      BY <1>6, <1>7, <3>2 DEF LogsGrow, Sound, OriginHoldsAll
    <3>. QED
      BY <3>1, <3>2
  <2>. QED
    BY <2>1 DEF OriginHoldsAll
<1>. QED
  BY <1>8, <1>9, <1>10, <1>11, <1>12 DEF Sound

\* The empty system is sound.
LEMMA InitSound == Init => Sound
<1>. SUFFICES ASSUME Init PROVE Sound
  OBVIOUS
<1>1. \A n, o \in Node : Held(log[n][o]) = {}
  BY DEF Init, EmptyLog, EmptyRow, Held
<1>2. AckedMeansHeld
  BY DEF Init, NoAcks, AckedMeansHeld
<1>3. MessagesTruthful /\ SyncedHeld
  BY DEF Init, MessagesTruthful, SyncedHeld
<1>4. LogsContiguous /\ OriginHoldsAll
  BY <1>1 DEF LogsContiguous, Contiguous, OriginHoldsAll
<1>. QED
  BY <1>2, <1>3, <1>4, InitType DEF Sound

\* Every step is sound while databases survive.
LEMMA NextSound ==
  ASSUME MaxIncarnation = 1
  PROVE  Sound /\ [Next]_vars => Sound'
<1>. SUFFICES ASSUME Sound, [Next]_vars PROVE Sound'
  OBVIOUS
<1>. TypeOK'
  BY StepType DEF Sound
<1>1. ASSUME NEW n \in Node, AppendLocal(n) PROVE Sound'
  BY <1>1, AppendSound
<1>2. ASSUME NEW n \in Node, NotifyLocal(n) \/ Reconcile(n) \/ FinishTick(n)
      PROVE  Sound'
  BY <1>2, QuietOpenRounds DEF NotifyLocal, Reconcile, FinishTick
<1>3. ASSUME NEW n \in Node, Restart(n) PROVE Sound'
  <2>1. \A m \in network' : m \in network
    BY <1>3 DEF Restart, ForgetMemory
  <2>. QED
    BY <1>3, <2>1, QuietStep DEF Restart, stored
<1>4. ASSUME NEW n \in Node, RestartWithoutDatabase(n) PROVE FALSE
  <2>1. incarnation[n] \in 1..1
    BY DEF Sound, TypeOK, Versions
  <2>. QED
    BY <1>4, <2>1 DEF RestartWithoutDatabase
<1>5. ASSUME NEW n \in Node, NEW p \in Node,
             ApprovePeer(n, p) \/ RevokePeer(n, p)
      PROVE  Sound'
  BY <1>5, QuietStep DEF ApprovePeer, RevokePeer, Decide, transport
<1>6. ASSUME NEW n \in Node, NEW p \in Node,
             OpenSession(n, p) \/ CloseSession(n, p) \/ PeerDisconnected(n, p)
      PROVE  Sound'
  <2>1. /\ \A m \in network' : m \in network
        /\ UNCHANGED <<log, acks, synced>>
    BY <1>6 DEF OpenSession, CloseSession, PeerDisconnected, stored
  <2>. QED
    BY <2>1, QuietStep
<1>7. ASSUME NEW n \in Node, NEW p \in Node, NotifyAuthorization(n, p)
      PROVE  Sound'
  <2>1. \A m \in network' : m \in network \/ Truthful(m)
    BY <1>7, RequestTruthful, QuietSend DEF NotifyAuthorization, Sound
  <2>. QED
    BY <1>7, <2>1, QuietStep DEF NotifyAuthorization, stored
<1>8. ASSUME NEW n \in Node, NEW p \in Node, PeerConnected(n, p)
      PROVE  Sound'
  <2>1. \A m \in {Hello(n, p)} : Truthful(m)
    BY RequestTruthful DEF Sound
  <2>2. \A m \in network' : m \in network \/ Truthful(m)
    BY <1>8, <2>1, QuietSend DEF PeerConnected, Sound
  <2>. QED
    BY <1>8, <2>2, QuietStep DEF PeerConnected, stored
<1>9. ASSUME NEW m \in network, LoseMessage(m) PROVE Sound'
  <2>1. /\ \A a \in network' : a \in network
        /\ UNCHANGED <<log, acks, synced>>
    BY <1>9 DEF LoseMessage, stored
  <2>. QED
    BY <2>1, QuietStep
<1>10. ASSUME NEW n \in Node, NEW m \in network, ReceiveHello(n, m)
       PROVE  Sound'
  <2>. DEFINE state == AfterEnrollment(trust[n][m.from])
              link == Authenticated(links[n][m.from], state)
              out == IF OpensRound(link, state) THEN {SyncRequest(n, m.from)} ELSE {}
  <2>1. m.from \in Node
    BY MessageFields DEF Sound, TypeOK
  <2>2. \A a \in out : Truthful(a)
    BY <2>1, RequestTruthful DEF Sound
  <2>3. Answer(m, out) /\ UNCHANGED <<log, acks, synced>>
    BY <1>10 DEF ReceiveHello
  <2>. HIDE DEF out
  <2>4. \A a \in network' : a \in network \/ Truthful(a)
    BY <2>2, <2>3, QuietAnswer DEF Sound
  <2>. QED
    BY <2>3, <2>4, QuietStep
<1>11. ASSUME NEW n \in Node, NEW m \in network, RejectMessage(n, m)
       PROVE  Sound'
  <2>1. \A a \in network' : a \in network \/ Truthful(a)
    BY <1>11, QuietAnswer DEF RejectMessage, Sound
  <2>. QED
    BY <1>11, <2>1, QuietStep DEF RejectMessage, stored
<1>12. CASE UNCHANGED vars
  BY <1>12, QuietStep DEF vars, stored, transport
<1>. QED
  BY <1>1, <1>2, <1>3, <1>4, <1>5, <1>6, <1>7, <1>8, <1>9, <1>10, <1>11, <1>12,
     SyncRequestSound, AckSound, EventBatchSound DEF Next, Receive

-----------------------------------------------------------------------------
(* The theorems *)

\* The strengthening that the theorems below follow from.
THEOREM ReplicationSound ==
  ASSUME MaxIncarnation = 1
  PROVE  Spec => []Sound
BY InitSound, NextSound, PTL DEF Spec

\* What a node believes a peer holds, the peer does hold, whatever was lost,
\* repeated, overtaken or interrupted.
THEOREM AcknowledgedIsHeld ==
  ASSUME MaxIncarnation = 1
  PROVE  Spec => []AckedMeansHeld
<1>1. Sound => AckedMeansHeld
  BY DEF Sound
<1>. QED
  BY <1>1, ReplicationSound, PTL

\* An incident shown as SYNCED is held, as it was written, by another node.
THEOREM SyncedIsReplicated ==
  ASSUME MaxIncarnation = 1
  PROVE  Spec => []SyncedMeansReplicated
<1>1. Sound => SyncedMeansReplicated
  <2>. SUFFICES ASSUME Sound, NEW n \in Node, NEW s \in synced[n]
                PROVE  \E p \in Node \ {n} : log[p][n][s] = log[n][n][s]
    BY DEF SyncedMeansReplicated
  <2>1. PICK p \in Node \ {n} : s \in Held(log[p][n])
    BY DEF Sound, SyncedHeld
  <2>2. s \in Held(log[n][n]) /\ s \in Seqs
    BY DEF Sound, SyncedHeld, Held
  <2>3. \A q \in Node : log[q][n][s] \in {0, 1}
    BY <2>2 DEF Sound, TypeOK, Row, Versions, NotHeld
  <2>4. log[p][n][s] # 0 /\ log[n][n][s] # 0
    BY <2>1, <2>2 DEF Held, NotHeld
  <2>. QED
    BY <2>3, <2>4
<1>. QED
  BY <1>1, ReplicationSound, PTL

\* Every log is a prefix of its origin's, so a watermark says all there is to
\* say of it.
THEOREM PrefixesOnly ==
  ASSUME MaxIncarnation = 1
  PROVE  Spec => []LogsArePrefixes
<1>1. Sound => LogsArePrefixes
  <2>. SUFFICES ASSUME Sound, NEW n \in Node, NEW o \in Node
                PROVE  /\ Held(log[n][o]) = 1..Watermark(log[n][o])
                       /\ Watermark(log[n][o]) <= Watermark(log[o][o])
    BY DEF LogsArePrefixes
  <2>1. log[n][o] \in Row /\ log[o][o] \in Row /\ Contiguous(log[n][o])
    BY DEF Sound, TypeOK, LogsContiguous
  <2>2. Held(log[n][o]) = 1..Watermark(log[n][o])
    BY <2>1, ContiguousIsPrefix
  <2>3. 1..Watermark(log[n][o]) \subseteq Held(log[o][o])
    BY <2>2 DEF Sound, OriginHoldsAll
  <2>. QED
    BY <2>1, <2>2, <2>3, WatermarkIsMark, WatermarkIsHighest
<1>. QED
  BY <1>1, ReplicationSound, PTL

-----------------------------------------------------------------------------
(* What no step undoes *)

\* What the database is for these two properties.
Durable == <<log, incarnation, acks, synced>>

\* The steps that change it, and those that do not.
LEMMA DurableSteps ==
  ASSUME [Next]_vars
  PROVE  \/ UNCHANGED Durable
         \/ \E n \in Node : AppendLocal(n) \/ RestartWithoutDatabase(n)
         \/ \E n \in Node : \E m \in network :
              \/ ReceiveSyncRequest(n, m)
              \/ ReceiveEventBatch(n, m)
              \/ ReceiveAck(n, m)
<1>1. CASE UNCHANGED vars
  BY <1>1 DEF vars, stored, Durable
<1>2. ASSUME NEW n \in Node,
             NotifyLocal(n) \/ Reconcile(n) \/ FinishTick(n) \/ Restart(n)
      PROVE  UNCHANGED Durable
  BY <1>2 DEF NotifyLocal, Reconcile, FinishTick, Restart, stored, Durable
<1>3. ASSUME NEW n \in Node, NEW p \in Node,
             \/ ApprovePeer(n, p) \/ RevokePeer(n, p) \/ NotifyAuthorization(n, p)
             \/ OpenSession(n, p) \/ CloseSession(n, p)
             \/ PeerConnected(n, p) \/ PeerDisconnected(n, p)
      PROVE  UNCHANGED Durable
  BY <1>3 DEF ApprovePeer, RevokePeer, Decide, NotifyAuthorization, OpenSession,
              CloseSession, PeerConnected, PeerDisconnected, stored, Durable
<1>4. ASSUME NEW m \in network, LoseMessage(m) PROVE UNCHANGED Durable
  BY <1>4 DEF LoseMessage, stored, Durable
<1>5. ASSUME NEW n \in Node, NEW m \in network,
             ReceiveHello(n, m) \/ RejectMessage(n, m)
      PROVE  UNCHANGED Durable
  BY <1>5 DEF ReceiveHello, RejectMessage, stored, Durable
<1>. QED
  BY <1>1, <1>2, <1>3, <1>4, <1>5 DEF Next, Receive

-----------------------------------------------------------------------------
(* Stored events *)

\* A local write keeps what is held.
LEMMA AppendKeepsEvents ==
  ASSUME TypeOK, NEW n \in Node, AppendLocal(n)
  PROVE  KeepsEvents
<1>1. PICK s \in 1..MaxAuthored[n] :
        /\ IsNextSequence(log[n][n], s)
        /\ log' = [log EXCEPT ![n][n][s] = incarnation[n]]
  BY DEF AppendLocal
<1>2. s \notin Held(log[n][n])
  BY <1>1, LogBounds DEF IsNextSequence, Held, Seqs
<1>3. \A q, o \in Node : \A t \in Seqs :
        ~ (q = n /\ o = n /\ t = s) => log'[q][o][t] = log[q][o][t]
  BY <1>1 DEF TypeOK, Row
<1>. QED
  BY <1>2, <1>3 DEF KeepsEvents, Held

\* A batch keeps what is held.
LEMMA BatchKeepsEvents ==
  ASSUME TypeOK, NEW n \in Node, NEW m \in network, ReceiveEventBatch(n, m)
  PROVE  KeepsEvents
<1>. DEFINE o == m.origin
            row == ApplyEvents(log[n][o], m.events)
<1>1. o \in Node /\ m.events \in Row /\ log[n][o] \in Row
  BY MessageFields DEF TypeOK, ReceiveEventBatch
<1>2. \A s \in Held(log[n][o]) : row[s] = log[n][o][s]
  BY <1>1, ApplyOnlyAdds
<1>3. log' = [log EXCEPT ![n][o] = row]
  BY DEF ReceiveEventBatch
<1>. HIDE DEF o, row
<1>4. /\ log'[n][o] = row
      /\ \A q, r \in Node : ~ (q = n /\ r = o) => log'[q][r] = log[q][r]
  BY <1>1, <1>3 DEF TypeOK
<1>. QED
  BY <1>2, <1>4 DEF KeepsEvents

\* A node that starts over with an empty database keeps no promise of the old
\* one, and breaks none of the others'.
LEMMA NewDatabase ==
  ASSUME TypeOK, NEW n \in Node, RestartWithoutDatabase(n)
  PROVE  /\ incarnation'[n] # incarnation[n]
         /\ synced'[n] = {}
         /\ \A q \in Node \ {n} :
              log'[q] = log[q] /\ acks'[q] = acks[q] /\ synced'[q] = synced[q]
<1>1. incarnation[n] \in Nat
  BY LogBounds DEF TypeOK, Versions
<1>. QED
  BY <1>1 DEF RestartWithoutDatabase, TypeOK

\* Every step keeps what a surviving database holds.
LEMMA NextKeepsEvents == TypeOK /\ [Next]_vars => [KeepsEvents]_vars
<1>. SUFFICES ASSUME TypeOK, [Next]_vars PROVE KeepsEvents
  OBVIOUS
<1>1. CASE UNCHANGED log
  BY <1>1 DEF KeepsEvents
<1>2. ASSUME NEW n \in Node, RestartWithoutDatabase(n) PROVE KeepsEvents
  BY <1>2, NewDatabase DEF KeepsEvents
<1>3. ASSUME NEW n \in Node, NEW m \in network,
             ReceiveSyncRequest(n, m) \/ ReceiveAck(n, m)
      PROVE  UNCHANGED log
  BY <1>3 DEF ReceiveSyncRequest, ReceiveAck
<1>. QED
  BY <1>1, <1>2, <1>3, AppendKeepsEvents, BatchKeepsEvents, DurableSteps DEF Durable

\* No step replaces an event that a living database holds, not even by another
\* that its own origin signed with the same number.
THEOREM EventsAreKept == Spec => NothingOverwritten
BY TypeCorrect, NextKeepsEvents, PTL DEF Spec, NothingOverwritten

-----------------------------------------------------------------------------
(* SYNCED *)

\* What is shown as SYNCED follows from the acknowledgements now stored.
SyncedIsKnown == \A n \in Node : synced[n] \subseteq Acknowledged(n, acks[n])

\* More events and higher marks acknowledge no fewer events.
LEMMA AcknowledgedGrows ==
  ASSUME NEW n \in Node, NEW ackedBy, NEW more,
         Held(log[n][n]) \subseteq Held(log'[n][n]),
         \A p, o \in Node : /\ ackedBy[p][o] \in Marks
                            /\ more[p][o] \in Marks
                            /\ ackedBy[p][o] <= more[p][o]
  PROVE  Acknowledged(n, ackedBy) \subseteq
           {s \in Held(log'[n][n]) : \E p \in Node \ {n} : more[p][n] >= s}
<1>1. \A s \in Held(log[n][n]) : s \in Nat
  BY LogBounds DEF Held, Seqs
<1>2. \A k \in Marks : k \in Nat
  BY LogBounds DEF Marks
<1>. QED
  BY <1>1, <1>2 DEF Acknowledged

\* Raising marks and recomputing sync_status keeps what was SYNCED.
LEMMA MarksKnown ==
  ASSUME TypeOK, TypeOK', SyncedIsKnown, NEW n \in Node, NEW p \in Node,
         NEW marks \in Knowledge,
         log' = log,
         acks' = [acks EXCEPT ![n][p] = RaiseMarks(acks[n][p], marks)],
         synced' = [synced EXCEPT ![n] = Acknowledged(n, acks'[n])]
  PROVE  SyncedIsKnown' /\ KeepsSynced
<1>1. /\ synced'[n] = Acknowledged(n, acks'[n])
      /\ \A q \in Node \ {n} : synced'[q] = synced[q] /\ acks'[q] = acks[q]
  BY DEF TypeOK
<1>2. ASSUME NEW r \in Node, NEW o \in Node
      PROVE  /\ acks[n][r][o] \in Marks /\ acks'[n][r][o] \in Marks
             /\ acks[n][r][o] <= acks'[n][r][o]
  <2>1. acks[n][r] \in Knowledge /\ acks'[n][r] \in Knowledge
    BY DEF TypeOK
  <2>2. CASE r = p
    <3>1. acks'[n][r] = RaiseMarks(acks[n][r], marks)
      BY <2>2 DEF TypeOK
    <3>. QED
      BY <2>1, <3>1, RaiseMarksType DEF Knowledge
  <2>3. CASE r # p
    <3>1. acks'[n][r] = acks[n][r]
      BY <2>3 DEF TypeOK
    <3>. QED
      BY <2>1, <3>1, LogBounds DEF Knowledge, Marks
  <2>. QED
    BY <2>2, <2>3
<1>3. Acknowledged(n, acks[n]) \subseteq Acknowledged(n, acks'[n])
  BY <1>2, AcknowledgedGrows DEF Acknowledged
<1>4. KeepsSynced
  BY <1>1, <1>3 DEF KeepsSynced, SyncedIsKnown
<1>5. SyncedIsKnown'
  BY <1>1 DEF SyncedIsKnown, Acknowledged
<1>. QED
  BY <1>4, <1>5

\* A step that adds to logs and leaves acknowledgements and statuses alone.
LEMMA GrowingLogsKnown ==
  ASSUME SyncedIsKnown, UNCHANGED <<acks, synced>>,
         \A n \in Node : Held(log[n][n]) \subseteq Held(log'[n][n])
  PROVE  SyncedIsKnown' /\ KeepsSynced
BY DEF SyncedIsKnown, KeepsSynced, Acknowledged

\* Every step keeps what is SYNCED at a surviving database.
LEMMA NextSynced ==
  TypeOK /\ SyncedIsKnown /\ [Next]_vars => SyncedIsKnown' /\ KeepsSynced
<1>. SUFFICES ASSUME TypeOK, SyncedIsKnown, [Next]_vars
              PROVE  SyncedIsKnown' /\ KeepsSynced
  OBVIOUS
<1>. TypeOK'
  BY StepType
<1>1. CASE UNCHANGED Durable
  BY <1>1, GrowingLogsKnown DEF Durable
<1>2. ASSUME NEW n \in Node, AppendLocal(n)
      PROVE  SyncedIsKnown' /\ KeepsSynced
  <2>1. \A q \in Node : Held(log[q][q]) \subseteq Held(log'[q][q])
    BY <1>2, AppendKeepsEvents DEF KeepsEvents, AppendLocal, Held
  <2>. QED
    BY <1>2, <2>1, GrowingLogsKnown DEF AppendLocal
<1>3. ASSUME NEW n \in Node, NEW m \in network, ReceiveEventBatch(n, m)
      PROVE  SyncedIsKnown' /\ KeepsSynced
  <2>1. \A q \in Node : Held(log[q][q]) \subseteq Held(log'[q][q])
    BY <1>3, BatchKeepsEvents DEF KeepsEvents, ReceiveEventBatch, Held
  <2>. QED
    BY <1>3, <2>1, GrowingLogsKnown DEF ReceiveEventBatch
<1>4. ASSUME NEW n \in Node, RestartWithoutDatabase(n)
      PROVE  SyncedIsKnown' /\ KeepsSynced
  BY <1>4, NewDatabase DEF SyncedIsKnown, KeepsSynced, Acknowledged
<1>5. ASSUME NEW n \in Node, NEW m \in network, ReceiveSyncRequest(n, m)
      PROVE  SyncedIsKnown' /\ KeepsSynced
  <2>1. m.from \in Node /\ m.have \in Knowledge
    BY <1>5, MessageFields DEF TypeOK, ReceiveSyncRequest
  <2>2. /\ log' = log
        /\ acks' = [acks EXCEPT ![n][m.from] = RaiseMarks(acks[n][m.from], m.have)]
        /\ synced' = [synced EXCEPT ![n] = Acknowledged(n, acks'[n])]
    BY <1>5 DEF ReceiveSyncRequest
  <2>. QED
    BY <2>1, <2>2, MarksKnown
<1>6. ASSUME NEW n \in Node, NEW m \in network, ReceiveAck(n, m)
      PROVE  SyncedIsKnown' /\ KeepsSynced
  <2>. DEFINE marks == [[o \in Node |-> 0] EXCEPT ![m.origin] = m.through]
  <2>1. m.from \in Node /\ marks \in Knowledge
    BY <1>6, MessageFields, AckMarksType DEF TypeOK, ReceiveAck
  <2>2. /\ log' = log
        /\ acks' = [acks EXCEPT ![n][m.from] = RaiseMarks(acks[n][m.from], marks)]
        /\ synced' = [synced EXCEPT ![n] = Acknowledged(n, acks'[n])]
    BY <1>6 DEF ReceiveAck
  <2>. HIDE DEF marks
  <2>. QED
    BY <2>1, <2>2, MarksKnown
<1>. QED
  BY <1>1, <1>2, <1>3, <1>4, <1>5, <1>6, DurableSteps

\* A living database never takes SYNCED back.
THEOREM SyncedIsKept == Spec => SyncedStays
<1>1. Init => SyncedIsKnown
  BY DEF Init, SyncedIsKnown
<1>2. TypeOK /\ SyncedIsKnown /\ [Next]_vars => SyncedIsKnown'
  BY NextSynced
<1>3. TypeOK /\ SyncedIsKnown /\ [Next]_vars => [KeepsSynced]_vars
  BY NextSynced
<1>. QED
  BY <1>1, <1>2, <1>3, TypeCorrect, PTL DEF Spec, SyncedStays

-----------------------------------------------------------------------------
(* The promise of replication *)

\* The refinement mapping.
prefixBar == [n \in Node |-> HaveVector(n)]
trustedBar == [n \in Node |-> {p \in Node : Permits(trust[n][p])}]

\* The mapping of one node's state only depends on what it maps.
LEMMA Stutter ==
  ASSUME UNCHANGED <<log, trust, synced>>
  PROVE  UNCHANGED Promise!vars
BY DEF Promise!vars, HaveVector

\* The engine starts where the promise starts.
LEMMA InitRefines == Init => Promise!Init
<1>. SUFFICES ASSUME Init PROVE Promise!Init
  OBVIOUS
<1>1. \A n, o \in Node : Watermark(log[n][o]) = 0
  <2>1. EmptyRow \in Row /\ Held(EmptyRow) = {}
    BY DEF EmptyRow, Row, Held
  <2>2. Watermark(EmptyRow) = 0
    BY <2>1, WatermarkIsMark, LogBounds DEF Marks
  <2>. QED
    BY <2>2 DEF Init, EmptyLog
<1>2. prefixBar = [n \in Node |-> [o \in Node |-> 0]]
  BY <1>1 DEF prefixBar, HaveVector
<1>3. trustedBar \in [Node -> SUBSET Node]
  BY DEF trustedBar
<1>4. synced = [n \in Node |-> {}]
  BY DEF Init
<1>. QED
  BY <1>2, <1>3, <1>4 DEF Promise!Init, prefixBar, trustedBar

\* A step that raises one watermark changes the mapped prefix at one place.
LEMMA OnePrefix ==
  ASSUME TypeOK, NEW n \in Node, NEW o \in Node, NEW row,
         log' = [log EXCEPT ![n][o] = row]
  PROVE  prefixBar' = [prefixBar EXCEPT ![n][o] = Watermark(row)]
<1>1. /\ log'[n][o] = row
      /\ \A q, r \in Node : ~ (q = n /\ r = o) => log'[q][r] = log[q][r]
  BY DEF TypeOK
<1>2. prefixBar' = [q \in Node |-> [r \in Node |-> Watermark(log'[q][r])]]
  BY DEF prefixBar, HaveVector
<1>3. prefixBar = [q \in Node |-> [r \in Node |-> Watermark(log[q][r])]]
  BY DEF prefixBar, HaveVector
<1>4. [prefixBar EXCEPT ![n][o] = Watermark(row)] =
        [q \in Node |-> [r \in Node |->
           IF q = n /\ r = o THEN Watermark(row) ELSE Watermark(log[q][r])]]
  BY <1>3
<1>5. prefixBar' = [q \in Node |-> [r \in Node |->
           IF q = n /\ r = o THEN Watermark(row) ELSE Watermark(log[q][r])]]
  BY <1>1, <1>2
<1>. QED
  BY <1>4, <1>5

\* A local write is a write of the promise.
LEMMA AppendRefines ==
  ASSUME Sound, TypeOK', NEW n \in Node, AppendLocal(n)
  PROVE  Promise!Write(n)
<1>1. PICK s \in 1..MaxAuthored[n] :
        /\ IsNextSequence(log[n][n], s)
        /\ log' = [log EXCEPT ![n][n][s] = incarnation[n]]
  BY DEF AppendLocal
<1>. DEFINE row == [log[n][n] EXCEPT ![s] = incarnation[n]]
            w == Watermark(log[n][n])
<1>2. s \in Seqs /\ incarnation[n] \in Versions /\ log[n][n] \in Row
  <2>1. MaxAuthored[n] \in Marks
    BY MeshBounds
  <2>. QED
    BY <1>1, <2>1, LogBounds DEF Seqs, Marks, Sound, TypeOK
<1>3. row \in Row /\ Held(row) = Held(log[n][n]) \cup {s}
  <2>1. incarnation[n] # NotHeld
    BY <1>2, LogBounds DEF Versions, NotHeld
  <2>. QED
    BY <1>2, <2>1 DEF Row, Held
<1>4. Held(log[n][n]) = 1..w /\ w \in Marks
  BY <1>2, ContiguousIsPrefix, WatermarkIsMark DEF Sound, LogsContiguous
<1>5. s = w + 1
  <2>1. s \in Nat /\ s >= 1 /\ w \in Nat
    BY <1>2, <1>4, LogBounds DEF Seqs, Marks
  <2>2. \A h \in 1..w : h < s
    BY <1>1, <1>4 DEF IsNextSequence
  <2>3. s = 1 \/ s - 1 \in 1..w
    BY <1>1, <1>4 DEF IsNextSequence
  <2>4. w < s
    <3>1. CASE w = 0
      BY <2>1, <3>1
    <3>2. CASE w # 0
      BY <2>1, <2>2, <3>2
    <3>. QED
      BY <3>1, <3>2
  <2>. QED
    BY <2>1, <2>3, <2>4
<1>6. Watermark(row) = w + 1
  <2>1. Held(row) = 1..(w + 1) /\ w + 1 \in Marks
    <3>1. w \in Nat /\ w + 1 \in Marks
      BY <1>2, <1>4, <1>5, LogBounds DEF Seqs, Marks
    <3>2. Held(row) = (1..w) \cup {w + 1}
      BY <1>3, <1>4, <1>5
    <3>. HIDE DEF w, row
    <3>. QED
      BY <3>1, <3>2
  <2>2. w + 1 <= Watermark(row)
    BY <1>3, <2>1, WatermarkIsHighest
  <2>3. Watermark(row) \in Marks /\ 1..Watermark(row) \subseteq 1..(w + 1)
    BY <1>3, <2>1, WatermarkIsMark
  <2>4. Watermark(row) <= w + 1
    BY <2>1, <2>2, <2>3, LogBounds DEF Marks
  <2>. QED
    BY <2>1, <2>2, <2>3, <2>4, LogBounds DEF Marks
<1>7. w < MaxSeq
  BY <1>2, <1>4, <1>5, LogBounds DEF Seqs, Marks
<1>8. prefixBar' = [prefixBar EXCEPT ![n][n] = w + 1]
  <2>1. log' = [log EXCEPT ![n][n] = row]
    BY <1>1 DEF Sound, TypeOK
  <2>. HIDE DEF row, w
  <2>. QED
    BY <1>6, <2>1, OnePrefix DEF Sound
<1>9. prefixBar[n][n] = w
  BY DEF prefixBar, HaveVector
<1>10. UNCHANGED <<trustedBar, synced>>
  BY DEF AppendLocal, trustedBar
<1>. QED
  BY <1>7, <1>8, <1>9, <1>10 DEF Promise!Write, prefixBar, trustedBar

\* A change of one node's trust is a decision of the promise.
LEMMA DecideRefines ==
  ASSUME TypeOK, NEW n \in Node, UNCHANGED <<log, synced>>,
         \A q \in Node \ {n} : trust'[q] = trust[q]
  PROVE  Promise!Decide(n)
<1>. DEFINE peers == {p \in Node : Permits(trust'[n][p])}
<1>1. trustedBar' = [trustedBar EXCEPT ![n] = peers]
  BY DEF trustedBar
<1>2. peers \in SUBSET Node
  OBVIOUS
<1>3. UNCHANGED <<prefixBar, synced>>
  BY DEF prefixBar, HaveVector
<1>. HIDE DEF peers
<1>. QED
  BY <1>1, <1>2, <1>3 DEF Promise!Decide, prefixBar, trustedBar

\* Recomputing sync_status is a report of the promise.
LEMMA ReportRefines ==
  ASSUME Sound, Sound', KeepsSynced, NEW n \in Node, UNCHANGED <<log, trust, incarnation>>,
         synced' = [synced EXCEPT ![n] = Acknowledged(n, acks'[n])]
  PROVE  Promise!Report(n)
<1>. DEFINE reported == Acknowledged(n, acks'[n])
<1>1. synced'[n] = reported
  BY DEF Sound, TypeOK
<1>2. synced[n] \subseteq reported
  BY <1>1 DEF KeepsSynced
<1>3. \A q \in Node : prefixBar[q][n] = Watermark(log[q][n]) /\ log[q][n] \in Row
  BY DEF prefixBar, HaveVector, Sound, TypeOK
<1>4. \A q \in Node : Held(log[q][n]) = 1..prefixBar[q][n]
  BY <1>3, ContiguousIsPrefix DEF Sound, LogsContiguous
<1>5. \A s \in reported : s \in Held(log[n][n])
                        /\ \E p \in Node \ {n} : s \in Held(log[p][n])
  <2>1. \A s \in synced'[n] : /\ s \in Held(log'[n][n])
                             /\ \E p \in Node \ {n} : s \in Held(log'[p][n])
    BY DEF Sound, SyncedHeld
  <2>2. log' = log
    OBVIOUS
  <2>. HIDE DEF reported
  <2>. QED
    BY <1>1, <2>1, <2>2
<1>6. reported \in SUBSET (1..prefixBar[n][n])
  BY <1>4, <1>5
<1>7. \A s \in reported : \E p \in Node \ {n} : s <= prefixBar[p][n]
  <2>1. \A q \in Node : prefixBar[q][n] \in Nat
    BY <1>3, WatermarkIsMark, LogBounds DEF Marks
  <2>. HIDE DEF reported
  <2>. QED
    BY <1>4, <1>5, <2>1
<1>8. UNCHANGED <<prefixBar, trustedBar>>
  BY DEF prefixBar, trustedBar, HaveVector
<1>9. synced' = [synced EXCEPT ![n] = reported]
  OBVIOUS
<1>. HIDE DEF reported
<1>. QED
  BY <1>2, <1>6, <1>7, <1>8, <1>9 DEF Promise!Report, prefixBar, trustedBar

\* A batch applied teaches what its sender holds, or nothing.
LEMMA BatchRefines ==
  ASSUME Sound, NEW n \in Node, NEW m \in network, ReceiveEventBatch(n, m)
  PROVE  UNCHANGED Promise!vars \/ Promise!Learn(n, m.from, m.origin)
<1>. DEFINE p == m.from
            o == m.origin
            row == ApplyEvents(log[n][o], m.events)
            k == Watermark(row)
<1>1. /\ p \in Node /\ o \in Node /\ m.events \in Row
      /\ log[n][o] \in Row /\ log[p][o] \in Row /\ m.to = n
  BY MessageFields DEF Sound, TypeOK, ReceiveEventBatch, Arrives
<1>2. p \in trustedBar[n]
  BY <1>1 DEF ReceiveEventBatch, Authorized, trustedBar
<1>3. row \in Row /\ Held(row) = Held(log[n][o]) \cup Held(m.events)
  BY <1>1, ApplyOnlyAdds
<1>4. k \in Marks /\ 1..k \subseteq Held(row)
  BY <1>3, WatermarkIsMark
<1>5. Watermark(log[n][o]) <= k
  <2>1. Watermark(log[n][o]) \in Marks /\ 1..Watermark(log[n][o]) \subseteq Held(row)
    BY <1>1, <1>3, WatermarkIsMark
  <2>. QED
    BY <1>3, <2>1, WatermarkIsHighest
<1>6. log' = [log EXCEPT ![n][o] = row] /\ UNCHANGED <<trust, synced>>
  BY DEF ReceiveEventBatch
<1>7. CASE Held(m.events) \subseteq Held(log[n][o])
  <2>1. \A s \in Seqs : row[s] = log[n][o][s]
    BY <1>1, <1>7 DEF ApplyEvents, Held, Row
  <2>2. row = log[n][o]
    BY <1>1, <1>3, <2>1 DEF Row
  <2>3. log' = log
    BY <1>6, <2>2 DEF Sound, TypeOK
  <2>. QED
    BY <1>6, <2>3, Stutter
<1>8. CASE ~ (Held(m.events) \subseteq Held(log[n][o]))
  <2>1. PICK s \in Held(m.events) : s \notin Held(log[n][o])
    BY <1>8
  <2>2. /\ Held(log[n][o]) = 1..Watermark(log[n][o])
        /\ Held(log[p][o]) = 1..Watermark(log[p][o])
        /\ Watermark(log[n][o]) \in Nat /\ Watermark(log[p][o]) \in Nat
    BY <1>1, ContiguousIsPrefix, WatermarkIsMark, LogBounds
       DEF Sound, LogsContiguous, Marks
  <2>3. Held(m.events) \subseteq Held(log[p][o])
    BY DEF Sound, MessagesTruthful, Truthful, ReceiveEventBatch
  <2>4. s \in 1..Watermark(log[p][o])
    BY <2>1, <2>2, <2>3
  <2>5. Watermark(log[n][o]) <= Watermark(log[p][o])
    BY <2>1, <2>2, <2>4
  <2>6. Held(row) \subseteq Held(log[p][o])
    BY <1>3, <2>2, <2>3, <2>5
  <2>7. k <= Watermark(log[p][o])
    BY <1>1, <1>4, <2>6, WatermarkIsHighest
  <2>8. k \in prefixBar[n][o]..prefixBar[p][o]
    BY <1>1, <1>4, <1>5, <2>2, <2>7, LogBounds DEF prefixBar, HaveVector, Marks
  <2>9. prefixBar' = [prefixBar EXCEPT ![n][o] = k]
    <3>1. TypeOK
      BY DEF Sound
    <3>2. o \in Node /\ log' = [log EXCEPT ![n][o] = row]
      BY <1>1, <1>6
    <3>. HIDE DEF p, o, row
    <3>3. prefixBar' = [prefixBar EXCEPT ![n][o] = Watermark(row)]
      BY <3>1, <3>2, OnePrefix
    <3>. QED
      BY <3>3
  <2>10. UNCHANGED <<trustedBar, synced>>
    BY <1>6 DEF trustedBar
  <2>. HIDE DEF p, o, k
  <2>11. Promise!Learn(n, p, o)
    BY <1>2, <2>8, <2>9, <2>10 DEF Promise!Learn, prefixBar, trustedBar
  <2>. QED
    BY <2>11 DEF p, o
<1>. QED
  BY <1>7, <1>8

\* Every step of the engine is a step of the promise or a stutter.
LEMMA StepRefines ==
  ASSUME MaxIncarnation = 1
  PROVE  Sound /\ Sound' /\ [KeepsSynced]_vars /\ [Next]_vars
           => [Promise!Next]_(Promise!vars)
<1>. SUFFICES ASSUME Sound, Sound', [KeepsSynced]_vars, [Next]_vars
              PROVE  Promise!Next \/ UNCHANGED Promise!vars
  OBVIOUS
<1>. TypeOK /\ TypeOK'
  BY DEF Sound
<1>1. CASE UNCHANGED vars
  BY <1>1, Stutter DEF vars, stored
<1>2. ASSUME NEW n \in Node, AppendLocal(n) PROVE Promise!Next
  BY <1>2, AppendRefines DEF Promise!Next
<1>3. ASSUME NEW n \in Node,
             NotifyLocal(n) \/ Reconcile(n) \/ FinishTick(n) \/ Restart(n)
      PROVE  UNCHANGED Promise!vars
  BY <1>3, Stutter DEF NotifyLocal, Reconcile, FinishTick, Restart, stored
<1>4. ASSUME NEW n \in Node, NEW p \in Node, ApprovePeer(n, p) \/ RevokePeer(n, p)
      PROVE  Promise!Next
  <2>1. /\ UNCHANGED <<log, synced>>
        /\ \A q \in Node \ {n} : trust'[q] = trust[q]
    BY <1>4 DEF ApprovePeer, RevokePeer, Decide, TypeOK
  <2>. QED
    BY <2>1, DecideRefines DEF Promise!Next
<1>5. ASSUME NEW n \in Node, NEW p \in Node,
             \/ NotifyAuthorization(n, p) \/ OpenSession(n, p) \/ CloseSession(n, p)
             \/ PeerConnected(n, p) \/ PeerDisconnected(n, p)
      PROVE  UNCHANGED Promise!vars
  BY <1>5, Stutter DEF NotifyAuthorization, OpenSession, CloseSession,
                       PeerConnected, PeerDisconnected, stored
<1>6. ASSUME NEW m \in network, LoseMessage(m) PROVE UNCHANGED Promise!vars
  BY <1>6, Stutter DEF LoseMessage, stored
<1>7. ASSUME NEW n \in Node, NEW m \in network, ReceiveHello(n, m) PROVE Promise!Next
  <2>1. /\ UNCHANGED <<log, synced>>
        /\ \A q \in Node \ {n} : trust'[q] = trust[q]
    BY <1>7 DEF ReceiveHello, TypeOK
  <2>. QED
    BY <2>1, DecideRefines DEF Promise!Next
<1>8. ASSUME NEW n \in Node, NEW m \in network,
             ReceiveSyncRequest(n, m) \/ ReceiveAck(n, m)
      PROVE  Promise!Next \/ UNCHANGED Promise!vars
  <2>1. /\ UNCHANGED <<log, trust, incarnation>>
        /\ synced' = [synced EXCEPT ![n] = Acknowledged(n, acks'[n])]
    BY <1>8 DEF ReceiveSyncRequest, ReceiveAck
  <2>2. CASE KeepsSynced
    BY <2>1, <2>2, ReportRefines DEF Promise!Next
  <2>3. CASE UNCHANGED vars
    BY <1>1, <2>3
  <2>. QED
    BY <2>2, <2>3
<1>9. ASSUME NEW n \in Node, NEW m \in network, ReceiveEventBatch(n, m)
      PROVE  Promise!Next \/ UNCHANGED Promise!vars
  <2>1. m.from \in Node /\ m.origin \in Node
    BY <1>9, MessageFields DEF TypeOK, ReceiveEventBatch
  <2>. QED
    BY <1>9, <2>1, BatchRefines DEF Promise!Next
<1>10. ASSUME NEW n \in Node, NEW m \in network, RejectMessage(n, m)
       PROVE  UNCHANGED Promise!vars
  BY <1>10, Stutter DEF RejectMessage, stored
<1>11. ASSUME NEW n \in Node, RestartWithoutDatabase(n) PROVE FALSE
  <2>1. incarnation[n] \in 1..1
    BY <1>11 DEF TypeOK, Versions
  <2>. QED
    BY <1>11, <2>1 DEF RestartWithoutDatabase
<1>. QED
  BY <1>1, <1>2, <1>3, <1>4, <1>5, <1>6, <1>7, <1>8, <1>9, <1>10, <1>11
     DEF Next, Receive

\* As long as no node starts over with an empty database, MeshSync implements
\* EventReplication: a node's prefix of a log only grows, by its author's hand
\* or from a peer that its operator trusts at that moment, and only an event
\* that another node holds is reported as shared.
THEOREM RefinesReplication ==
  ASSUME MaxIncarnation = 1
  PROVE  Spec => ImplementsReplication
<1>1. Spec => [][KeepsSynced]_vars
  BY SyncedIsKept DEF SyncedStays
<1>. QED
  BY <1>1, InitRefines, StepRefines, ReplicationSound, PTL
     DEF Spec, ImplementsReplication, Promise!Spec
=============================================================================
