------------------------------ MODULE MeshSync ------------------------------
(***************************************************************************)
(* SecureMesh replication: the nodes' event logs, trust decisions, links   *)
(* and acknowledgement watermarks, and the sync engine (sync/mod.rs) that  *)
(* reconciles them over a transport that reorders and may lose messages.   *)
(*                                                                         *)
(* One action is one critical section.  The engine runs under the mesh     *)
(* lock, so a handler is one step; the operator's commands first commit to *)
(* the database and only then take the lock to tell the engine, so each of *)
(* them is two steps with anything in between, a crash included.           *)
(***************************************************************************)
EXTENDS EventLog, PeerLink, FiniteSets

CONSTANTS
  Node,         \* the identities (one keypair each)
  InRange,      \* the unordered pairs of nodes the transport can connect
  Operator,     \* bound: nodes whose operator approves, rejects and revokes
  InitTrust,    \* trust decisions already stored when the behaviour starts
  MaxAuthored,  \* bound: events each node's operator writes
  Losable,      \* the kinds of message the transport may lose
  Redelivers,   \* whether the transport may deliver a message twice
  Sweeps,       \* whether the reconciliation sweep runs
  Overlaps,     \* whether a session may be replaced before both ends saw it end
  MaxInFlight,  \* bound: messages in flight when a node starts something new
  MaxFaults     \* bound: losses, redeliveries, dropped sessions, restarts

ASSUME MeshBounds ==
  /\ Operator \subseteq Node
  /\ \A pair \in InRange : \E n, p \in Node : n # p /\ pair = {n, p}
  /\ InitTrust \in [Node -> [Node -> TrustState]]
  /\ MaxAuthored \in [Node -> Marks]
  /\ {Redelivers, Sweeps, Overlaps} \subseteq BOOLEAN
  /\ MaxInFlight \in Nat /\ MaxFaults \in Nat

VARIABLES
  log,           \* events: what node n holds of origin o at each number
  incarnation,   \* which database node n is writing to
  acks,          \* peer_ack_watermarks
  synced,        \* n's own incidents whose sync_status is SYNCED
  equivocating,  \* nodes.equivocating
  trust,         \* nodes.trust_state of its peers; its own entry is never read
  links,         \* SyncEngine.links (in memory)
  applied,       \* report.events_applied > 0 in the tick under way
  unannounced,   \* append_local_event committed, notify_local_event to come
  decided,       \* trust committed, notify_authorization_changed to come
  sessions,      \* open transport sessions
  network,       \* messages in flight, in no order
  faults         \* faults so far

stored == <<log, incarnation, acks, synced, equivocating, trust>>
memory == <<links, applied, unannounced, decided>>
transport == <<sessions, network, faults>>
vars == <<stored, memory, transport>>

Knowledge == [Node -> Marks]

Message ==
  [kind : {"HELLO"}, from : Node, to : Node]
    \cup [kind : {"SYNC_REQUEST"}, from : Node, to : Node, have : Knowledge]
    \cup [kind : {"EVENT_BATCH"}, from : Node, to : Node,
          origin : Node, events : Row, complete : BOOLEAN]
    \cup [kind : {"ACK"}, from : Node, to : Node, origin : Node, through : Marks]

TypeOK ==
  /\ log \in [Node -> [Node -> Row]]
  /\ incarnation \in [Node -> Versions]
  /\ acks \in [Node -> [Node -> Knowledge]]
  /\ synced \in [Node -> SUBSET Seqs]
  /\ equivocating \in [Node -> SUBSET Node]
  /\ trust \in [Node -> [Node -> TrustState]]
  /\ links \in [Node -> [Node -> LinkState]]
  /\ applied \in [Node -> BOOLEAN]
  /\ unannounced \in [Node -> BOOLEAN]
  /\ decided \in [Node -> SUBSET Node]
  /\ sessions \subseteq InRange
  /\ network \subseteq Message
  /\ faults \in 0..MaxFaults

Unlinked == [p \in Node |-> "DISCONNECTED"]
NoAcks == [p \in Node |-> [o \in Node |-> 0]]
EmptyLog == [o \in Node |-> EmptyRow]

Init ==
  /\ log = [n \in Node |-> EmptyLog]
  /\ incarnation = [n \in Node |-> 1]
  /\ acks = [n \in Node |-> NoAcks]
  /\ synced = [n \in Node |-> {}]
  /\ equivocating = [n \in Node |-> {}]
  /\ trust = InitTrust
  /\ links = [n \in Node |-> Unlinked]
  /\ applied = [n \in Node |-> FALSE]
  /\ unannounced = [n \in Node |-> FALSE]
  /\ decided = [n \in Node |-> {}]
  /\ sessions = {}
  /\ network = {}
  /\ faults = 0

-----------------------------------------------------------------------------
(* Messages and rounds *)

\* SyncEngine::send ignores the transport's error: with no session, no message.
Sendable(out) == {m \in out : {m.from, m.to} \in sessions}

Room == Cardinality(network) < MaxInFlight
Fault == faults < MaxFaults /\ faults' = faults + 1

Send(out) ==
  /\ network' = network \cup Sendable(out)
  /\ UNCHANGED <<sessions, faults>>

\* The handler of m answers with out; m is gone, unless it comes again.
Answer(m, out) ==
  /\ UNCHANGED sessions
  /\ \/ network' = (network \ {m}) \cup Sendable(out) /\ UNCHANGED faults
     \/ Redelivers /\ Fault /\ network' = network \cup Sendable(out)

\* Mutant of HaveVector: the number wanted next.
WantVector(n) == [o \in Node |-> Watermark(log[n][o]) + 1]

\* sync_watermarks
HaveVector(n) == [o \in Node |-> Watermark(log[n][o])]

Hello(n, p) == [kind |-> "HELLO", from |-> n, to |-> p]
SyncRequest(n, p) ==
  [kind |-> "SYNC_REQUEST", from |-> n, to |-> p, have |-> HaveVector(n)]
Ack(n, p, o, mark) ==
  [kind |-> "ACK", from |-> n, to |-> p, origin |-> o, through |-> mark]

\* open_round with one peer
RoundLink(n, p) == AfterOpenRound(links[n][p], trust[n][p])
RoundRequests(n, p) ==
  IF OpensRound(links[n][p], trust[n][p]) THEN {SyncRequest(n, p)} ELSE {}

\* open_rounds with every link
OpenRounds(n) ==
  /\ links' = [links EXCEPT ![n] = [p \in Node |-> RoundLink(n, p)]]
  /\ Send(UNION {RoundRequests(n, p) : p \in Node})

\* Mutant of Acknowledged: off by one.
AlmostAcknowledged(n, ackedBy) ==
  {s \in Held(log[n][n]) : \E p \in Node \ {n} : ackedBy[p][n] + 1 >= s}

\* refresh_local_sync_status, given the acknowledgements now stored
Acknowledged(n, ackedBy) ==
  {s \in Held(log[n][n]) : \E p \in Node \ {n} : ackedBy[p][n] >= s}

-----------------------------------------------------------------------------
(* The operator's commands: the database first, the engine after *)

\* append_local_event up to the release of the local_append guard
AppendLocal(n) ==
  /\ \E s \in 1..MaxAuthored[n] :
       /\ IsNextSequence(log[n][n], s)
       /\ log' = [log EXCEPT ![n][n][s] = incarnation[n]]
  /\ unannounced' = [unannounced EXCEPT ![n] = TRUE]
  /\ UNCHANGED <<incarnation, acks, synced, equivocating, trust,
                 links, applied, decided, transport>>

\* notify_local_event, then SyncEngine::on_local_event
NotifyLocal(n) ==
  /\ unannounced[n] /\ ~applied[n] /\ Room
  /\ unannounced' = [unannounced EXCEPT ![n] = FALSE]
  /\ OpenRounds(n)
  /\ UNCHANGED <<stored, applied, decided>>

\* require_known_peer: the nodes table has a row for p
Known(n, p) ==
  \/ trust[n][p] # "UNKNOWN"
  \/ links[n][p] # "DISCONNECTED"
  \/ Held(log[n][p]) # {}

Decide(n, p, state) ==
  /\ n \in Operator /\ p # n /\ Known(n, p)
  /\ trust' = [trust EXCEPT ![n][p] = state]
  /\ decided' = [decided EXCEPT ![n] = @ \cup {p}]
  /\ UNCHANGED <<log, incarnation, acks, synced, equivocating,
                 links, applied, unannounced, transport>>

ApprovePeer(n, p) == Decide(n, p, "TRUSTED")
RevokePeer(n, p) == Decide(n, p, "REVOKED")  \* reject_peer stores the same

\* notify_authorization_changed, then SyncEngine::on_authorization_changed
NotifyAuthorization(n, p) ==
  /\ p \in decided[n] /\ ~applied[n] /\ Room
  /\ decided' = [decided EXCEPT ![n] = @ \ {p}]
  /\ links' = [links EXCEPT ![n][p] = RoundLink(n, p)]
  /\ Send(RoundRequests(n, p))
  /\ UNCHANGED <<stored, applied, unannounced>>

\* reconcile, every RECONCILE_INTERVAL_SECS, and sync_all_peers
Reconcile(n) ==
  /\ Sweeps /\ ~applied[n] /\ Room
  /\ OpenRounds(n)
  /\ UNCHANGED <<stored, applied, unannounced, decided>>

-----------------------------------------------------------------------------
(* Sessions and failures *)

\* The transport connects two nodes.  Unless sessions overlap, both ends have
\* seen the last one end; an end that has not may still have messages of it.
OpenSession(n, p) ==
  /\ {n, p} \in InRange \ sessions
  /\ \/ Overlaps
     \/ links[n][p] = "DISCONNECTED" /\ links[p][n] = "DISCONNECTED"
  /\ sessions' = sessions \cup {{n, p}}
  /\ LET earlier == {m \in network : {m.from, m.to} = {n, p}}
         unseen == {m \in earlier : links[m.to][m.from] = "DISCONNECTED"}
     IN \E kept \in SUBSET (earlier \ unseen) : network' = (network \ earlier) \cup kept
  /\ UNCHANGED <<stored, memory, faults>>

CloseSession(n, p) ==
  /\ {n, p} \in sessions
  /\ Fault
  /\ sessions' = sessions \ {{n, p}}
  /\ UNCHANGED <<stored, memory, network>>

\* MeshEvent::PeerConnected, surfaced when the peer is identified and only if
\* the transport did not already list it: on_peer_connected
PeerConnected(n, p) ==
  /\ {n, p} \in sessions
  /\ links[n][p] = "DISCONNECTED"
  /\ links' = [links EXCEPT ![n][p] = AfterOpenRound("CONNECTED", trust[n][p])]
  /\ Send({Hello(n, p)})
  /\ UNCHANGED <<stored, applied, unannounced, decided>>

\* MeshEvent::PeerDisconnected: nothing p sent before it is still to come.
PeerDisconnected(n, p) ==
  /\ {n, p} \notin sessions
  /\ links[n][p] # "DISCONNECTED"
  /\ links' = [links EXCEPT ![n][p] = "DISCONNECTED"]
  /\ network' = {m \in network : m.from # p \/ m.to # n}
  /\ UNCHANGED <<stored, applied, unannounced, decided, sessions, faults>>

LoseMessage(m) ==
  /\ m.kind \in Losable
  /\ Fault
  /\ network' = network \ {m}
  /\ UNCHANGED <<stored, memory, sessions>>

\* What a process that ends takes with it: its links, the tick it was in, the
\* engine calls its commands had still to make, its sessions and its inbox.
ForgetMemory(n) ==
  /\ links' = [links EXCEPT ![n] = Unlinked]
  /\ applied' = [applied EXCEPT ![n] = FALSE]
  /\ unannounced' = [unannounced EXCEPT ![n] = FALSE]
  /\ decided' = [decided EXCEPT ![n] = {}]
  /\ sessions' = {pair \in sessions : n \notin pair}
  /\ network' = {m \in network : m.to # n}

\* The process ends anywhere and NodeRuntime::initialize runs again.
Restart(n) ==
  /\ Fault
  /\ ForgetMemory(n)
  /\ UNCHANGED stored

\* The same, finding no database but the keypair still in its keystore file.
RestartWithoutDatabase(n) ==
  /\ incarnation[n] < MaxIncarnation
  /\ incarnation' = [incarnation EXCEPT ![n] = @ + 1]
  /\ log' = [log EXCEPT ![n] = EmptyLog]
  /\ acks' = [acks EXCEPT ![n] = NoAcks]
  /\ synced' = [synced EXCEPT ![n] = {}]
  /\ equivocating' = [equivocating EXCEPT ![n] = {}]
  /\ trust' = [trust EXCEPT ![n] = [p \in Node |-> "UNKNOWN"]]
  /\ ForgetMemory(n)
  /\ UNCHANGED faults

-----------------------------------------------------------------------------
(* SyncEngine::on_message, one action per handler *)

\* The transport hands up only messages of peers it has identified.
Arrives(n, m) == m.to = n /\ links[n][m.from] # "DISCONNECTED"

\* Mutant of Authorized: authorized when the round was, so not asked again.
AlwaysAuthorized(n, m) == TRUE

\* SyncEngine::authorize: the trust store is read for every message.
Authorized(n, m) == Permits(trust[n][m.from])

\* record_enrollment_request moves UNKNOWN to PENDING, as one step here;
\* TrustStore has the gap between its read and its write.
AfterEnrollment(state) == IF state = "UNKNOWN" THEN "PENDING" ELSE state

ReceiveHello(n, m) ==
  /\ Arrives(n, m) /\ m.kind = "HELLO"
  /\ LET p == m.from
         state == AfterEnrollment(trust[n][p])
         link == Authenticated(links[n][p], state)
     IN /\ trust' = [trust EXCEPT ![n][p] = state]
        /\ links' = [links EXCEPT ![n][p] = AfterOpenRound(link, state)]
        /\ Answer(m, IF OpensRound(link, state) THEN {SyncRequest(n, p)} ELSE {})
  /\ UNCHANGED <<log, incarnation, acks, synced, equivocating,
                 applied, unannounced, decided>>

\* serve_sync_request: the batches for what the peer lacks
Available(n, have) == {o \in Node : Watermark(log[n][o]) > have[o]}
Offer(n, p, o, after) ==
  LET events == EventsSince(log[n][o], after)
  IN [kind |-> "EVENT_BATCH", from |-> n, to |-> p, origin |-> o, events |-> events,
      complete |-> Watermark(log[n][o]) \in Held(events)]

\* Mutants of PeerIsAhead: the other direction forgotten; the comparison not strict.
PeerIgnored(n, have) == FALSE
PeerIsLevel(n, have) == \E o \in Node : have[o] >= Watermark(log[n][o])

PeerIsAhead(n, have) == \E o \in Node : have[o] > Watermark(log[n][o])

\* Mutant of RaiseMarks: the last report wins.
ReplaceMarks(marks, reported) == reported

\* record_peer_ack keeps the highest mark a peer reported.
RaiseMarks(marks, reported) ==
  [o \in Node |-> IF reported[o] > marks[o] THEN reported[o] ELSE marks[o]]

ReceiveSyncRequest(n, m) ==
  /\ Arrives(n, m) /\ m.kind = "SYNC_REQUEST" /\ Authorized(n, m)
  /\ LET p == m.from
         ahead == PeerIsAhead(n, m.have)
     IN /\ links' = IF ahead THEN [links EXCEPT ![n][p] = RoundLink(n, p)] ELSE links
        /\ acks' = [acks EXCEPT ![n][p] = RaiseMarks(@, m.have)]
        /\ synced' = [synced EXCEPT ![n] = Acknowledged(n, acks'[n])]
        /\ Answer(m, {Offer(n, p, o, m.have[o]) : o \in Available(n, m.have)}
                       \cup (IF ahead THEN RoundRequests(n, p) ELSE {}))
  /\ UNCHANGED <<log, incarnation, equivocating, trust, applied, unannounced, decided>>

\* EVENT_BATCH: apply_batch, its Ack, and the end of the round
ReceiveEventBatch(n, m) ==
  /\ Arrives(n, m) /\ m.kind = "EVENT_BATCH" /\ Authorized(n, m)
  /\ LET p == m.from
         o == m.origin
         row == ApplyEvents(log[n][o], m.events)
     IN /\ log' = [log EXCEPT ![n][o] = row]
        /\ equivocating' = IF ConflictsWith(log[n][o], m.events)
                           THEN [equivocating EXCEPT ![n] = @ \cup {o}]
                           ELSE equivocating
        /\ applied' = [applied EXCEPT ![n] = @ \/ StoresSome(log[n][o], m.events)]
        /\ links' = IF m.complete
                    THEN [links EXCEPT ![n][p] = CompleteRound(@)] ELSE links
        /\ Answer(m, {Ack(n, p, o, Watermark(row))})
  /\ UNCHANGED <<incarnation, acks, synced, trust, unannounced, decided>>

ReceiveAck(n, m) ==
  /\ Arrives(n, m) /\ m.kind = "ACK" /\ Authorized(n, m)
  /\ LET marks == [[o \in Node |-> 0] EXCEPT ![m.origin] = m.through]
     IN acks' = [acks EXCEPT ![n][m.from] = RaiseMarks(@, marks)]
  /\ synced' = [synced EXCEPT ![n] = Acknowledged(n, acks'[n])]
  /\ Answer(m, {})
  /\ UNCHANGED <<log, incarnation, equivocating, trust, memory>>

\* authorize fails: the message is counted as rejected and changes nothing.
RejectMessage(n, m) ==
  /\ Arrives(n, m) /\ m.kind # "HELLO" /\ ~Authorized(n, m)
  /\ Answer(m, {})
  /\ UNCHANGED <<stored, memory>>

Receive(n, m) ==
  \/ ReceiveHello(n, m)
  \/ ReceiveSyncRequest(n, m)
  \/ ReceiveEventBatch(n, m)
  \/ ReceiveAck(n, m)
  \/ RejectMessage(n, m)

\* Mutant of FinishTick: nothing is relayed.
FinishSilently(n) ==
  /\ applied[n]
  /\ applied' = [applied EXCEPT ![n] = FALSE]
  /\ UNCHANGED <<stored, links, unannounced, decided, transport>>

\* The end of SyncEngine::tick: what was learned is relayed.
FinishTick(n) ==
  /\ applied[n]
  /\ applied' = [applied EXCEPT ![n] = FALSE]
  /\ OpenRounds(n)
  /\ UNCHANGED <<stored, unannounced, decided>>

-----------------------------------------------------------------------------

Next ==
  \/ \E n \in Node : \/ AppendLocal(n)
                     \/ NotifyLocal(n)
                     \/ Reconcile(n)
                     \/ FinishTick(n)
                     \/ Restart(n)
                     \/ RestartWithoutDatabase(n)
  \/ \E n, p \in Node : \/ ApprovePeer(n, p)
                        \/ RevokePeer(n, p)
                        \/ NotifyAuthorization(n, p)
                        \/ OpenSession(n, p)
                        \/ CloseSession(n, p)
                        \/ PeerConnected(n, p)
                        \/ PeerDisconnected(n, p)
  \/ \E m \in network : LoseMessage(m) \/ \E n \in Node : Receive(n, m)

Spec == Init /\ [][Next]_vars
-----------------------------------------------------------------------------
(* Safety *)

\* What a node believes a peer holds, the peer does hold: an acknowledgement
\* watermark never runs ahead of the peer's log, whatever was lost, repeated
\* or overtaken (record_peer_ack, apply_batch, serve_sync_request).
AckedMeansHeld ==
  \A n, p, o \in Node : 1..acks[n][p][o] \subseteq Held(log[p][o])

\* An incident shown as SYNCED is held by some other node: its author may be
\* lost without losing it (refresh_local_sync_status).
SyncedMeansReplicated ==
  \A n \in Node : \A s \in synced[n] :
    \E p \in Node \ {n} : log[p][n][s] = log[n][n][s]

\* Replication leaves no hole: every log is a prefix of its origin's, although
\* batches overtake and repeat one another (events_since, apply_batch).
LogsArePrefixes ==
  \A n, o \in Node :
    /\ Held(log[n][o]) = 1..Watermark(log[n][o])
    /\ Watermark(log[n][o]) <= Watermark(log[o][o])

\* A link is ready to replicate only with a peer that is trusted, and waits
\* for an operator only with one that is not, except between the commit of a
\* decision and the notification that follows it (PeerLink::apply_trust).
LinkFollowsTrust ==
  \A n, p \in Node :
    \/ p \in decided[n]
    \/ /\ PermitsSync(links[n][p]) => Permits(trust[n][p])
       /\ links[n][p] = "AWAITING_AUTHORIZATION" => ~Permits(trust[n][p])

\* The event first stored at a number stays there while the database lives,
\* also when its origin forked its log (apply_event on a conflict).
KeepsEvents ==
  \A n, o \in Node : \A s \in Held(log[n][o]) :
    incarnation'[n] = incarnation[n] => log'[n][o][s] = log[n][o][s]
NothingOverwritten == [][KeepsEvents]_vars

\* SYNCED is never taken back: the status is recomputed from watermarks that
\* only grow (refresh_local_sync_status).
KeepsSynced ==
  \A n \in Node :
    incarnation'[n] = incarnation[n] => synced[n] \subseteq synced'[n]
SyncedStays == [][KeepsSynced]_vars

\* The engine with its messages and links does what EventReplication promises.
Promise == INSTANCE EventReplication WITH
  prefix <- [n \in Node |-> HaveVector(n)],
  trusted <- [n \in Node |-> {p \in Node : Permits(trust[n][p])}],
  shared <- synced

ImplementsReplication == Promise!Spec

-----------------------------------------------------------------------------
(* Liveness *)

\* The threads run: the mesh loop ticks, commands get the mesh lock, and the
\* transport keeps discovering, identifying and delivering.
Fairness ==
  /\ \A n \in Node : WF_vars(FinishTick(n)) /\ WF_vars(NotifyLocal(n))
                     /\ WF_vars(Reconcile(n))
  /\ \A n, p \in Node :
       /\ WF_vars(NotifyAuthorization(n, p))
       /\ WF_vars(OpenSession(n, p))
       /\ WF_vars(PeerConnected(n, p))
       /\ WF_vars(PeerDisconnected(n, p))
       /\ \A kind \in {"HELLO", "SYNC_REQUEST", "EVENT_BATCH", "ACK"} :
            WF_vars(\E m \in network : m.from = p /\ m.kind = kind /\ Receive(n, m))

FairSpec == Spec /\ Fairness

MutualTrust(n, p) == Permits(trust[n][p]) /\ Permits(trust[p][n])
AllTrust == \A n, p \in Node : {n, p} \in InRange => MutualTrust(n, p)
AllAgree == \A n, p \in Node : {n, p} \in InRange => log[n] = log[p]
AllSynced == \A n \in Node : synced[n] = Held(log[n][n])

\* Operators and authors have stopped: everything they did is announced.
Idle == \A n \in Node : ~unannounced[n] /\ decided[n] = {}

\* Once operators settle on trusting each other, neighbours come to hold the
\* same log and every author sees its incidents SYNCED, whoever wrote, whoever
\* approved first, and through relays (the triggers of SyncTrigger).
Converges == <>[](AllTrust /\ Idle) => <>[](AllAgree /\ AllSynced)

\* No link waits for ever for the one HELLO of its session.  One does when the
\* HELLO was lost, or when the peer was not told of the session, because its
\* transport had not yet seen the last one end (its map still lists the node).
Greeted == \A n, p \in Node : []<>(links[n][p] # "CONNECTED")

Unforked == \A n \in Node : incarnation[n] = 1

\* With the sweep, neighbours that trust each other agree in the end whatever
\* message was lost, session dropped or replaced, or process restarted, while
\* no database is lost and every link hears its HELLO: the sweep passes over a
\* link that did not (open_round, begin_round).
Recovers ==
  ([]Unforked /\ Greeted /\ <>[](AllTrust /\ Idle)) => <>[](AllAgree /\ AllSynced)

\* Rounds terminate: with the sweep off, once operators and authors stop, the
\* mesh falls silent (the comments on Relay and PeerAhead in sync/mod.rs).
FallsSilent == <>[]Idle => <>[](network = {} /\ \A n \in Node : ~applied[n])
=============================================================================
