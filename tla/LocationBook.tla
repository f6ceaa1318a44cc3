---------------------------- MODULE LocationBook ----------------------------
(***************************************************************************)
(* Where peers say they are (domain/peer_location.rs), at one node.  Peers *)
(* number their positions from 1 in every process; a position may arrive   *)
(* late, twice, or never.  The book is memory of the engine and is filled  *)
(* on the trust of the moment, so the module extends the trust store: with *)
(* the mesh thread's handler, the node's own heartbeat, and the second     *)
(* half of the operator's commands, which commit, and then wait for the    *)
(* mesh lock to drop the position of a revoked peer.                       *)
(***************************************************************************)
EXTENDS TrustStore

CONSTANTS
  MaxLife,  \* bound: processes a peer runs, one after the other
  MaxReport \* bound: positions a peer reports in one process

ASSUME ReportBounds == MaxLife \in Nat \ {0} /\ MaxReport \in Nat

VARIABLES
  publisher, \* the process a peer runs and the sequence it last used
  flight,    \* heartbeats sent to this node
  place,     \* SyncEngine.peer_locations: none or one report of each peer
  newest,    \* history: the latest report handled since place was last empty
  reading,   \* the heartbeat whose sender the handler found authorized
  telling,   \* links that broadcast_location has still to visit
  cleared,   \* the link it found authorized, before it sends
  settling   \* the decision that committed and waits for the mesh lock

placed == <<place, newest>>
engine == <<placed, reading, telling, cleared>>
peers == <<publisher, flight>>
bookVars == <<vars, engine, peers, settling>>

Report == [life : 1..MaxLife, seq : 1..MaxReport]
NoReport == [life |-> 0, seq |-> 0]
Heartbeat == [peer : Peer, report : Report]
Settling == [decision : Decision, peer : Peer]

BookTypeOK ==
  /\ TypeOK
  /\ publisher \in [Peer -> [life : 1..MaxLife, seq : 0..MaxReport]]
  /\ flight \subseteq Heartbeat
  /\ place \in [Peer -> Report \cup {NoReport}]
  /\ newest \in [Peer -> Report \cup {NoReport}]
  /\ reading \subseteq Heartbeat
  /\ telling \subseteq Peer
  /\ cleared \subseteq Peer
  /\ settling \subseteq Settling

BookInit ==
  /\ Init
  /\ publisher = [p \in Peer |-> [life |-> 1, seq |-> 0]]
  /\ flight = {}
  /\ place = [p \in Peer |-> NoReport]
  /\ newest = [p \in Peer |-> NoReport]
  /\ reading = {} /\ telling = {} /\ cleared = {} /\ settling = {}

Held(p) == place[p] # NoReport
Denies(decision) == Target(decision) = "REVOKED"

\* Mutant of MeshLockFree: nothing waits for a handler under way.
NoMeshLock == TRUE

\* A handler and a broadcast run under the mesh lock from end to end.
MeshLockFree ==
  handshake = {} /\ reading = {} /\ telling = {} /\ cleared = {}

-----------------------------------------------------------------------------
(* The peers *)

\* publish_location at a peer: the counter moves on, and the heartbeat is sent
\* if that peer has a link to this node and trusts it.
Publish(p) ==
  /\ publisher[p].seq < MaxReport
  /\ publisher' = [publisher EXCEPT ![p].seq = @ + 1]
  /\ flight' \in {flight, flight \cup {[peer |-> p, report |-> publisher'[p]]}}
  /\ UNCHANGED <<vars, engine, settling>>

\* Its process ends; location_sequence is memory and starts at 0 again.
PeerRestarts(p) ==
  /\ publisher[p].life < MaxLife
  /\ publisher' = [publisher EXCEPT ![p] = [life |-> @.life + 1, seq |-> 0]]
  /\ UNCHANGED <<vars, engine, flight, settling>>

-----------------------------------------------------------------------------
(* The mesh thread *)

HandleHello(p) == MeshLockFree /\ ReadForHello(p)

\* on_message, LocationHeartbeat: authorize reads the trust state.  A heartbeat
\* of a peer that is not trusted goes no further.  flight may still hold it,
\* to come again.
ReceiveHeartbeat(h) ==
  /\ MeshLockFree /\ h \in flight /\ h.peer \in registered
  /\ flight' \in {flight, flight \ {h}}
  /\ reading' = IF Permits(trust[h.peer]) THEN {h} ELSE {}
  /\ UNCHANGED <<vars, placed, telling, cleared, publisher, settling>>

\* Mutant of IsNewer: the last to arrive wins.
IsAnother(offered, held) == offered # held

\* The comparison of PeerLocationBook::accept: by sequence alone
IsNewer(offered, held) == offered.seq > held.seq

\* history: the order in which the peer made its reports
IsLater(offered, held) ==
  \/ offered.life > held.life
  \/ offered.life = held.life /\ offered.seq > held.seq

\* PeerLocationBook::accept
Accept ==
  \E h \in reading :
    /\ place' = [place EXCEPT ![h.peer] = IF IsNewer(h.report, @) THEN h.report ELSE @]
    /\ newest' = [newest EXCEPT ![h.peer] = IF IsLater(h.report, @) THEN h.report ELSE @]
    /\ reading' = {}
    /\ UNCHANGED <<vars, telling, cleared, peers, settling>>

-----------------------------------------------------------------------------
(* The heartbeat thread *)

\* publish_location has a fix and a sequence, and takes the mesh lock.
Broadcast(links) ==
  /\ MeshLockFree /\ links # {} /\ links \subseteq registered
  /\ telling' = links
  /\ UNCHANGED <<vars, placed, reading, cleared, peers, settling>>

\* broadcast_location reads the state of the next peer, and passes it over ...
ClearRecipient(p) ==
  /\ cleared = {} /\ p \in telling
  /\ telling' = telling \ {p}
  /\ cleared' = IF Permits(trust[p]) THEN {p} ELSE {}
  /\ UNCHANGED <<vars, placed, reading, peers, settling>>

\* ... or sends to it.
Tell ==
  /\ cleared # {}
  /\ cleared' = {}
  /\ UNCHANGED <<vars, placed, reading, telling, peers, settling>>

-----------------------------------------------------------------------------
(* The main thread *)

\* The next command starts when the last has returned.
StartCommand(decision, p) ==
  /\ settling = {}
  /\ ReadForDecision(decision, p)
  /\ UNCHANGED <<engine, peers, settling>>

CommitDecision ==
  /\ FinishDecision
  /\ settling' = {[decision |-> c.decision, peer |-> c.peer] : c \in command}
  /\ UNCHANGED <<engine, peers>>

\* Mutant of Forgets: the position is left to age.
NeverForgets(decision) == FALSE

\* revoke_peer calls forget_peer_location; reject_peer does not.
Forgets(decision) == decision = "REVOKE"

\* forget_peer_location and notify_authorization_changed, under the mesh lock
SettleDecision ==
  /\ MeshLockFree
  /\ \E s \in settling :
       LET kept(reports) ==
             [p \in Peer |-> IF Forgets(s.decision) /\ p = s.peer THEN NoReport ELSE reports[p]]
       IN place' = kept(place) /\ newest' = kept(newest)
  /\ settling' = {}
  /\ UNCHANGED <<vars, reading, telling, cleared, peers>>

\* The process ends anywhere: the book is gone, the trust store is not.
BookRestart ==
  /\ Restart
  /\ place' = [p \in Peer |-> NoReport]
  /\ newest' = [p \in Peer |-> NoReport]
  /\ reading' = {} /\ telling' = {} /\ cleared' = {} /\ settling' = {}
  /\ flight' = {}
  /\ UNCHANGED publisher

-----------------------------------------------------------------------------

BookNext ==
  \/ \E p \in Peer : \/ Publish(p)
                     \/ PeerRestarts(p)
                     \/ ClearRecipient(p)
                     \/ \E decision \in Decision : StartCommand(decision, p)
                     \/ /\ \/ RegisterPeer(p) \/ HandleHello(p)
                        /\ UNCHANGED <<engine, peers, settling>>
  \/ FinishHello /\ UNCHANGED <<engine, peers, settling>>
  \/ \E h \in flight : ReceiveHeartbeat(h)
  \/ Accept
  \/ \E links \in SUBSET Peer : Broadcast(links)
  \/ Tell
  \/ CommitDecision
  \/ SettleDecision
  \/ BookRestart

BookSpec == BookInit /\ [][BookNext]_bookVars
-----------------------------------------------------------------------------

\* A denial of p that has not returned to the operator yet
DenialUnderWay(p) == \E s \in settling : s.peer = p /\ Denies(s.decision)

\* The last decision about p was to reject it: the command that leaves the
\* position it found.
LastRejected(p) ==
  \E i \in EntriesOf(p) :
    /\ audit[i].kind = "REJECTED"
    /\ \A j \in EntriesOf(p) : j > i => audit[j].kind = "REQUESTED"

\* Once revoke_peer has returned, the book says nothing of that peer until it
\* is approved again, whichever heartbeat was being handled and wherever the
\* process ended: a position is held of a trusted peer, of one whose denial is
\* still under way, or of one that was rejected (forget_peer_location).
RevokedIsForgotten ==
  \A p \in Peer : Held(p) =>
    trust[p] = "TRUSTED" \/ DenialUnderWay(p) \/ LastRejected(p)

\* The handler and the broadcast read the trust state and act on it later.  No
\* decision that has returned comes between: the peer they act for is trusted,
\* or its denial is waiting for them (authorize, broadcast_location).
AuthorizedIsCurrent ==
  \A p \in cleared \cup {h.peer : h \in reading} :
    trust[p] = "TRUSTED" \/ DenialUnderWay(p)

\* A position held is the latest handled, whatever order they came in; or the
\* peer restarted and has not yet counted past what it had reported before
\* (PeerLocationBook::accept).
BookIsNewest ==
  \A p \in Peer :
    \/ place[p] = newest[p]
    \/ /\ place[p].life < newest[p].life
       /\ place[p].seq >= newest[p].seq

\* A denial that has returned leaves nothing: no position, and no handler or
\* broadcast that still acts for the peer.
RevocationHolds == RevokedIsForgotten /\ AuthorizedIsCurrent

\* One report of each peer, of the right kind, and the latest there is.
BookIsSound == BookTypeOK /\ BookIsNewest
=============================================================================
