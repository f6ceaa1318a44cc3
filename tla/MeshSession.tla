----------------------------- MODULE MeshSession -----------------------------
(***************************************************************************)
(* The libp2p transport of two nodes (networking/libp2p_transport.rs) and  *)
(* what it tells their engines.  libp2p may hold several connections to    *)
(* one peer; each end sees each of them open and close in its own time,    *)
(* and learns who is behind it by identify, which races the first message. *)
(* Out of this the swarm thread makes one session: CONNECTED when a peer   *)
(* is first identified, DISCONNECTED when its last connection closes.      *)
(* MeshSync takes sessions as given; here is how they come about.          *)
(***************************************************************************)
EXTENDS PeerLink, Naturals, FiniteSets, Sequences

CONSTANTS
  Node,      \* two nodes in range of each other
  MaxConn,   \* bound: connections opened
  MaxRuns,   \* bound: processes a node runs, one after the other
  MaxFaults  \* bound: connections cut while both ends run, and failed writes

ASSUME SessionBounds ==
  /\ MaxConn \in Nat /\ MaxRuns \in Nat \ {0} /\ MaxFaults \in Nat
  /\ \E a, b \in Node : a # b /\ Node = {a, b}

VARIABLES
  life,         \* the process a node runs
  dialing,      \* swarm.dial or send_request is opening a connection
  ends,         \* connections the swarm of a node has established
  unidentified, \* ... whose identify information has not arrived
  known,        \* the peer is in known, routing and peers of run_swarm
  inbox,        \* SharedState.inbox, not yet polled
  commands,     \* HELLOs the engine has handed to the swarm thread
  wire,         \* HELLOs sent on a connection
  link,         \* the engine's link, as far as the handshake takes it
  nodes,        \* the row of the peer in table nodes
  missed,       \* history: session events whose handling failed
  opened, faults  \* connections opened, and faults, so far

swarm == <<dialing, ends, unidentified, known>>
rows == <<nodes, missed>>
core == <<inbox, commands, link, rows>>
sessionVars == <<life, swarm, core, wire, opened, faults>>

Conn == 1..MaxConn
MeshEvent == {"CONNECTED", "DISCONNECTED", "HELLO"}
NodeStatus == {"none", "ONLINE", "OFFLINE"}
OnWire == [to : Node, conn : Conn, life : 1..MaxRuns]
Other(n) == CHOOSE p \in Node : p # n

SessionTypeOK ==
  /\ life \in [Node -> 1..MaxRuns]
  /\ dialing \in [Node -> BOOLEAN]
  /\ ends \in [Node -> SUBSET Conn]
  /\ unidentified \in [Node -> SUBSET Conn]
  /\ \A n \in Node : unidentified[n] \subseteq ends[n]
  /\ known \in [Node -> BOOLEAN]
  /\ inbox \in [Node -> Seq(MeshEvent)]
  /\ commands \in [Node -> 0..MaxConn]
  /\ wire \subseteq OnWire
  /\ link \in [Node -> {"DISCONNECTED", "CONNECTED", "AUTHENTICATED"}]
  /\ nodes \in [Node -> NodeStatus]
  /\ missed \in [Node -> SUBSET {"CONNECTED", "DISCONNECTED"}]
  /\ opened \in 0..MaxConn
  /\ faults \in 0..MaxFaults

SessionInit ==
  /\ life = [n \in Node |-> 1]
  /\ dialing = [n \in Node |-> FALSE]
  /\ ends = [n \in Node |-> {}]
  /\ unidentified = [n \in Node |-> {}]
  /\ known = [n \in Node |-> FALSE]
  /\ inbox = [n \in Node |-> <<>>]
  /\ commands = [n \in Node |-> 0]
  /\ wire = {}
  /\ link = [n \in Node |-> "DISCONNECTED"]
  /\ nodes = [n \in Node |-> "none"]
  /\ missed = [n \in Node |-> {}]
  /\ opened = 0 /\ faults = 0

Surface(n, event) == inbox' = [inbox EXCEPT ![n] = Append(@, event)]

-----------------------------------------------------------------------------
(* libp2p *)

\* mDNS Discovered: swarm.dial, which libp2p ignores while it is connected
Dial(n) ==
  /\ ends[n] = {} /\ ~dialing[n]
  /\ dialing' = [dialing EXCEPT ![n] = TRUE]
  /\ UNCHANGED <<life, ends, unidentified, known, core, wire, opened, faults>>

\* A dial of either node succeeds: a connection of its own at both ends.
Establish(n) ==
  /\ dialing[n] /\ opened < MaxConn
  /\ dialing' = [dialing EXCEPT ![n] = FALSE]
  /\ opened' = opened + 1
  /\ ends' = [p \in Node |-> ends[p] \cup {opened'}]
  /\ unidentified' = [p \in Node |-> unidentified[p] \cup {opened'}]
  /\ UNCHANGED <<life, known, core, wire, faults>>

-----------------------------------------------------------------------------
(* run_swarm, one event at a time *)

\* Mutant of Announces: every identify is announced.
AnnouncesAll(n) == TRUE

\* guard.peers.insert(..).is_none()
Announces(n) == ~known[n]

\* identify::Event::Received
Identify(n, c) ==
  /\ c \in unidentified[n]
  /\ unidentified' = [unidentified EXCEPT ![n] = @ \ {c}]
  /\ known' = [known EXCEPT ![n] = TRUE]
  /\ IF Announces(n) THEN Surface(n, "CONNECTED") ELSE UNCHANGED inbox
  /\ UNCHANGED <<life, dialing, ends, commands, wire, link, rows, opened, faults>>

\* Command::Send: send_request picks a connection, or dials for one and waits.
Transmit(n) ==
  /\ commands[n] > 0
  /\ \/ /\ \E c \in ends[n] :
             wire' = wire \cup {[to |-> Other(n), conn |-> c, life |-> life[n]]}
        /\ commands' = [commands EXCEPT ![n] = @ - 1]
        /\ UNCHANGED dialing
     \/ /\ ends[n] = {} /\ ~dialing[n]
        /\ dialing' = [dialing EXCEPT ![n] = TRUE]
        /\ UNCHANGED <<commands, wire>>
  /\ UNCHANGED <<life, ends, unidentified, known, inbox, link, rows, opened, faults>>

\* Mutant of Admits: a message is handed up whoever sent it.
AdmitsAll(n) == TRUE

\* known.get(&peer): a peer not identified is not heard
Admits(n) == known[n]

\* request_response::Event::Message
Deliver(m) ==
  /\ m \in wire /\ m.conn \in ends[m.to]
  /\ wire' = wire \ {m}
  /\ IF Admits(m.to) THEN Surface(m.to, "HELLO") ELSE UNCHANGED inbox
  /\ UNCHANGED <<life, swarm, commands, link, rows, opened, faults>>

\* Mutants of LastOne: any connection that closes ends the session; none does.
AnyOne(n, c) == TRUE
NoneIs(n, c) == FALSE

\* num_established = 0
LastOne(n, c) == ends[n] = {c}

\* ConnectionClosed, of a connection the peer no longer has, or that is cut
ConnectionClosed(n, c) ==
  /\ c \in ends[n]
  /\ IF c \in ends[Other(n)]
     THEN faults < MaxFaults /\ faults' = faults + 1
     ELSE UNCHANGED faults
  /\ ends' = [ends EXCEPT ![n] = @ \ {c}]
  /\ unidentified' = [unidentified EXCEPT ![n] = @ \ {c}]
  /\ wire' = {m \in wire : m.to # n \/ m.conn # c}
  /\ IF LastOne(n, c) /\ known[n]
     THEN known' = [known EXCEPT ![n] = FALSE] /\ Surface(n, "DISCONNECTED")
     ELSE UNCHANGED <<known, inbox>>
  /\ UNCHANGED <<life, dialing, commands, link, rows, opened>>

-----------------------------------------------------------------------------
(* The engine *)

\* What SyncEngine::tick makes of an event; a HELLO of a peer without a link
\* finds nothing to move.
NextLink(state, event) ==
  CASE event = "CONNECTED" -> "CONNECTED"
    [] event = "DISCONNECTED" -> "DISCONNECTED"
    [] event = "HELLO" -> IF state = "CONNECTED" THEN "AUTHENTICATED" ELSE state

\* Mutant of Drained: the event is handed out and stays.
Copied(queue) == queue

\* std::mem::take, one event at a time
Drained(queue) == Tail(queue)

\* Mutant of NextRow: a session that ends leaves the row as it was.
RowStays(row, event) == IF event = "CONNECTED" THEN "ONLINE" ELSE row

\* register_peer inserts or updates the row; mark_node_offline updates it.
NextRow(row, event) ==
  CASE event = "CONNECTED" -> "ONLINE"
    [] event = "DISCONNECTED" -> IF row = "none" THEN row ELSE "OFFLINE"
    [] event = "HELLO" -> row

\* The event is handled: a new peer is registered, its link made and greeted,
\* if send still finds the route; an error of send is dropped.
Handle(n, event) ==
  /\ link' = [link EXCEPT ![n] = NextLink(@, event)]
  /\ nodes' = [nodes EXCEPT ![n] = NextRow(@, event)]
  /\ commands' = [commands EXCEPT ![n] =
       IF event = "CONNECTED" /\ known[n] THEN @ + 1 ELSE @]
  /\ missed' = [missed EXCEPT ![n] = IF event = "HELLO" THEN @ ELSE {}]
  /\ UNCHANGED faults

\* The database refuses the write: register_peer comes before the link is made,
\* links.remove before mark_node_offline, record_peer_protocol before anything.
\* The failure is logged and the next event taken.
FailToHandle(n, event) ==
  /\ faults < MaxFaults /\ faults' = faults + 1
  /\ link' = [link EXCEPT ![n] = IF event = "DISCONNECTED" THEN "DISCONNECTED" ELSE @]
  /\ missed' = [missed EXCEPT ![n] =
       CASE event = "CONNECTED" -> @ \cup {event}
         [] event = "DISCONNECTED" -> {event}
         [] event = "HELLO" -> @]
  /\ UNCHANGED <<nodes, commands>>

\* poll_events and tick
Poll(n) ==
  /\ inbox[n] # <<>>
  /\ inbox' = [inbox EXCEPT ![n] = Drained(@)]
  /\ \/ Handle(n, Head(inbox[n]))
     \/ FailToHandle(n, Head(inbox[n]))
  /\ UNCHANGED <<life, swarm, wire, opened>>

\* Mutant of Marked: the rows are as the last process left them.
NotMarked(row) == row

\* mark_all_peers_offline
Marked(row) == IF row = "ONLINE" THEN "OFFLINE" ELSE row

\* The process ends, and another starts; the peer is left to notice.
ProcessRestart(n) ==
  /\ life[n] < MaxRuns
  /\ life' = [life EXCEPT ![n] = @ + 1]
  /\ dialing' = [dialing EXCEPT ![n] = FALSE]
  /\ ends' = [ends EXCEPT ![n] = {}]
  /\ unidentified' = [unidentified EXCEPT ![n] = {}]
  /\ known' = [known EXCEPT ![n] = FALSE]
  /\ inbox' = [inbox EXCEPT ![n] = <<>>]
  /\ commands' = [commands EXCEPT ![n] = 0]
  /\ wire' = {m \in wire : m.to # n}
  /\ link' = [link EXCEPT ![n] = "DISCONNECTED"]
  /\ nodes' = [nodes EXCEPT ![n] = Marked(@)]
  /\ missed' = [missed EXCEPT ![n] = {}]
  /\ UNCHANGED <<opened, faults>>

\* What the dashboard says.  Connections are what the engine has links to, read under its lock;
\* peers are the rows of the database, read after it.
ConnectedPeers(n) == IF link[n] # "DISCONNECTED" THEN {Other(n)} ELSE {}
KnownPeers(n) == IF nodes[n] # "none" THEN {Other(n)} ELSE {}

\* Mutant of PeersShown: the stored status is shown for the live one.
PeersAsStored(n) ==
  [p \in KnownPeers(n) |-> IF nodes[n] = "ONLINE" THEN "CONNECTED" ELSE "DISCONNECTED"]

PeersShown(n) ==
  [p \in KnownPeers(n) |-> IF p \in ConnectedPeers(n) THEN "CONNECTED" ELSE "DISCONNECTED"]

\* The row of the network, and the counts beside it.
NetworkStatus(n) ==
  CASE ConnectedPeers(n) # {} -> "Connected"
    [] ConnectedPeers(n) = {} /\ KnownPeers(n) # {} -> "Disconnected"
    [] OTHER -> "Listening"

NetworkCounts(n) ==
  [online |-> ConnectedPeers(n) # {}, connected |-> Cardinality(ConnectedPeers(n)),
   known |-> Cardinality(KnownPeers(n))]

-----------------------------------------------------------------------------

SwarmStep(n) ==
  \/ \E c \in Conn : Identify(n, c) \/ (c \notin ends[Other(n)] /\ ConnectionClosed(n, c))
  \/ Transmit(n)
  \/ \E m \in wire : m.to = n /\ Deliver(m)

SessionNext ==
  \E n \in Node :
    \/ Dial(n)
    \/ Establish(n)
    \/ \E c \in Conn : Identify(n, c) \/ ConnectionClosed(n, c)
    \/ Transmit(n)
    \/ \E m \in wire : Deliver(m)
    \/ Poll(n)
    \/ ProcessRestart(n)

SessionSpec == SessionInit /\ [][SessionNext]_sessionVars

\* The swarm threads and the mesh loops go on: what arrived is identified and
\* delivered, what ended is noticed, and the engine ticks.
SessionFairness ==
  \A n \in Node : WF_sessionVars(SwarmStep(n)) /\ WF_sessionVars(Poll(n))

SessionFairSpec == SessionSpec /\ SessionFairness
-----------------------------------------------------------------------------

\* The engine has heard of the session, though it may have failed to make its link.
Heard(n) == link[n] # "DISCONNECTED" \/ "CONNECTED" \in missed[n]

\* Whether the first i events of a queue leave a session open: the last that tells of it
\* opens it, or none does and it was open before.
LeavesOpen(queue, i, before) ==
  \E j \in 0..i :
    /\ IF j = 0 THEN before ELSE queue[j] = "CONNECTED"
    /\ \A k \in (j + 1)..i : queue[k] # "DISCONNECTED"

\* Whether a session is announced to the engine, after i events of the inbox
Announced(n, i) == LeavesOpen(inbox[n], i, Heard(n))

\* The transport tells a well-formed story, however connections overlap: a
\* session is announced when there is none and ended when there is one, and a
\* message comes from a peer whose session is open (MeshTransport's contract).
StoryIsWellFormed ==
  \A n \in Node : \A i \in DOMAIN inbox[n] :
    (inbox[n][i] = "CONNECTED") <=> ~Announced(n, i - 1)

\* An engine that has read its inbox has a link exactly while its transport
\* lists the peer, which it does only with a connection: no peer is invisible
\* to the engine but one whose registration failed, and no link outlives its
\* session (the loop in run_swarm).
LinkMirrorsTransport ==
  \A n \in Node :
    /\ known[n] <=> Announced(n, Len(inbox[n]))
    /\ known[n] => ends[n] # {}

\* The dashboard tells what the engine has: a peer with a link is listed, as
\* connected and ONLINE, is no more than the peers known, and a row says ONLINE
\* of no other peer, in this process or the last, unless the write that ends
\* the session failed.
DashboardIsHonest ==
  \A n \in Node :
    /\ NetworkStatus(n) = "Connected" => nodes[n] = "ONLINE"
    /\ NetworkStatus(n) = "Connected" <=> \E p \in DOMAIN PeersShown(n) : PeersShown(n)[p] = "CONNECTED"
    /\ NetworkCounts(n).connected <= NetworkCounts(n).known
    /\ nodes[n] = "ONLINE" =>
         NetworkStatus(n) = "Connected" \/ "DISCONNECTED" \in missed[n]

\* What the transport knows, what the engine is told and what the dashboard
\* shows, in their right relation.
SessionsAreSound ==
  SessionTypeOK /\ StoryIsWellFormed /\ LinkMirrorsTransport /\ DashboardIsHonest

Joined == \E c \in Conn : \A n \in Node : c \in ends[n]

\* A connection that lasts is seen by both engines, and a peer that is gone for
\* good is, too, whatever was opened, cut or restarted before; but a peer whose
\* registration failed stays unseen for as long as the session lasts.
SessionsAreSeen ==
  \A n \in Node :
    /\ <>[]Joined => <>[](link[n] # "DISCONNECTED" \/ "CONNECTED" \in missed[n])
    /\ <>[](~Joined) => <>[](link[n] = "DISCONNECTED")
=============================================================================
