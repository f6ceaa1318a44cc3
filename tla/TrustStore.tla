----------------------------- MODULE TrustStore -----------------------------
(***************************************************************************)
(* One node's trust store (storage/trust.rs): the trust state of every     *)
(* peer and the append-only audit log of how it came about.                *)
(*                                                                         *)
(* Two threads change it.  The mesh thread handles one HELLO at a time,    *)
(* the main thread runs one operator command at a time.  Each reads the    *)
(* state in one database operation and writes its transition in another,   *)
(* with nothing that holds the two together, so each is two actions.       *)
(***************************************************************************)
EXTENDS PeerLink, Naturals, Sequences

CONSTANTS
  Peer,     \* identities other than the local node's
  MaxAudit  \* bound: audit entries after which nothing new is started

ASSUME AuditBound == MaxAudit \in Nat

VARIABLES
  registered,  \* peers with a row in nodes
  trust,       \* nodes.trust_state
  audit,       \* peer_trust_events, by sequence
  handshake,   \* the HELLO whose record_enrollment_request is under way
  command      \* the operator command under way

stored == <<registered, trust, audit>>
vars == <<stored, handshake, command>>

Decision == {"APPROVE", "REJECT", "REVOKE"}
Kind == {"REQUESTED", "APPROVED", "REJECTED", "REVOKED", "REINSTATED"}
Entry == [peer : Peer, kind : Kind, from : TrustState, to : TrustState]
Read == [peer : Peer, state : TrustState]
Command == [decision : Decision, peer : Peer, state : TrustState]

TypeOK ==
  /\ registered \subseteq Peer
  /\ trust \in [Peer -> TrustState]
  /\ audit \in Seq(Entry)
  /\ handshake \subseteq Read
  /\ command \subseteq Command

Init ==
  /\ registered = {}
  /\ trust = [p \in Peer |-> "UNKNOWN"]
  /\ audit = <<>>
  /\ handshake = {}
  /\ command = {}

Room == Len(audit) < MaxAudit

\* Mutant of Transition: the state is stored for the operator's decisions only.
ForgetPending(p, kind, from, to) ==
  /\ trust' = IF to = "PENDING" THEN trust ELSE [trust EXCEPT ![p] = to]
  /\ audit' = Append(audit, [peer |-> p, kind |-> kind, from |-> from, to |-> to])
  /\ UNCHANGED registered

\* apply_trust_transition: one transaction writes the state and its entry.
\* The state it found is what the caller read, not what the row now holds.
Transition(p, kind, from, to) ==
  /\ trust' = [trust EXCEPT ![p] = to]
  /\ audit' = Append(audit, [peer |-> p, kind |-> kind, from |-> from, to |-> to])
  /\ UNCHANGED registered

-----------------------------------------------------------------------------
(* The mesh thread *)

\* register_peer, for a peer that connects or whose event is stored
RegisterPeer(p) ==
  /\ registered' = registered \cup {p}
  /\ UNCHANGED <<trust, audit, handshake, command>>

\* record_enrollment_request reads the state of the peer that said HELLO
ReadForHello(p) ==
  /\ Room /\ handshake = {} /\ p \in registered
  /\ handshake' = {[peer |-> p, state |-> trust[p]]}
  /\ UNCHANGED <<stored, command>>

\* Mutant of FinishHello: every HELLO asks for enrollment again.
EnrollAlways ==
  \E read \in handshake :
    /\ Transition(read.peer, "REQUESTED", read.state, "PENDING")
    /\ handshake' = {}
    /\ UNCHANGED command

\* ... and moves it to PENDING if it read UNKNOWN
FinishHello ==
  \E read \in handshake :
    /\ \/ read.state = "UNKNOWN"
          /\ Transition(read.peer, "REQUESTED", read.state, "PENDING")
       \/ read.state # "UNKNOWN" /\ UNCHANGED stored
    /\ handshake' = {}
    /\ UNCHANGED command

-----------------------------------------------------------------------------
(* The main thread *)

\* require_known_peer, for a decision of the operator
ReadForDecision(decision, p) ==
  /\ Room /\ command = {} /\ p \in registered
  /\ command' = {[decision |-> decision, peer |-> p, state |-> trust[p]]}
  /\ UNCHANGED <<stored, handshake>>

\* Mutant of Target: the decision is stored for the state it leads to.
DecisionItself(decision) == decision

Target(decision) == IF decision = "APPROVE" THEN "TRUSTED" ELSE "REVOKED"

KindOf(decision, from) ==
  CASE decision = "APPROVE" -> IF from = "REVOKED" THEN "REINSTATED" ELSE "APPROVED"
    [] decision = "REJECT"  -> "REJECTED"
    [] decision = "REVOKE"  -> "REVOKED"

\* approve_peer, reject_peer and revoke_peer write, or find it done
FinishDecision ==
  \E c \in command :
    /\ \/ c.state # Target(c.decision)
          /\ Transition(c.peer, KindOf(c.decision, c.state), c.state, Target(c.decision))
       \/ c.state = Target(c.decision) /\ UNCHANGED stored
    /\ command' = {}
    /\ UNCHANGED handshake

\* The process ends between any two database operations.
Restart ==
  /\ handshake' = {}
  /\ command' = {}
  /\ UNCHANGED stored

-----------------------------------------------------------------------------

Next ==
  \/ \E p \in Peer : \/ RegisterPeer(p)
                     \/ ReadForHello(p)
                     \/ \E decision \in Decision : ReadForDecision(decision, p)
  \/ FinishHello
  \/ FinishDecision
  \/ Restart

Spec == Init /\ [][Next]_vars
-----------------------------------------------------------------------------

EntriesOf(p) == {i \in DOMAIN audit : audit[i].peer = p}
Enrolled(p) == \E i \in EntriesOf(p) : audit[i].kind = "REQUESTED"

\* The audit log accounts for every state: a peer is in the state its last
\* entry moved it to, or has no entry and is UNKNOWN, whatever the threads
\* overtook and wherever the process ended (apply_trust_transition).
AuditAccountsForTrust ==
  \A p \in Peer :
    \/ trust[p] = "UNKNOWN" /\ EntriesOf(p) = {}
    \/ \E last \in EntriesOf(p) :
         /\ audit[last].to = trust[p]
         /\ \A i \in EntriesOf(p) : i <= last

\* A peer asks to be enrolled at most once in the life of the database: it can
\* not bring itself back before the operator (record_enrollment_request).
EnrolsOnce ==
  \A i, j \in DOMAIN audit :
    audit[i].kind = "REQUESTED" /\ audit[j].kind = "REQUESTED"
      /\ audit[i].peer = audit[j].peer => i = j

\* The audit log tells the trust states, and no request in it twice.
AuditIsFaithful == AuditAccountsForTrust /\ EnrolsOnce

\* Steps that lift the denial of p, and an approval of p under way.
Lifts(p) == trust[p] = "REVOKED" /\ trust'[p] # "REVOKED"
Approving(p) == \E c \in command : c.decision = "APPROVE" /\ c.peer = p

\* Once a peer's request is on record, nothing but an approval of that very
\* peer by the operator lifts a denial of it (record_enrollment_request).
EnrolledStaysDenied ==
  [][\A p \in Peer : Enrolled(p) /\ Lifts(p) => Approving(p)]_vars

\* The documented rule, for a peer not yet enrolled too: a revoked peer stays
\* revoked until the operator approves it.
DeniedStaysDenied == [][\A p \in Peer : Lifts(p) => Approving(p)]_vars
=============================================================================
