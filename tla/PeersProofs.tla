---------------------------- MODULE PeersProofs -----------------------------
(***************************************************************************)
(* Theorems about TrustStore, LocationBook and MeshSession, for any set of *)
(* peers, any bounds, an audit log of any length, and any number of        *)
(* connections, processes and faults.                                      *)
(*                                                                         *)
(* The store: besides what the properties say, a peer whose request is on  *)
(* record is never UNKNOWN again, and no HELLO still under way read it as  *)
(* UNKNOWN.                                                                *)
(*                                                                         *)
(* The book's steps are steps of the trust store, so its invariant carries *)
(* over.  That a denial leaves nothing behind is not inductive: it rests   *)
(* on who excludes whom.  The mesh lock keeps handlers and broadcasts out  *)
(* of a HELLO; a command excludes the settling of the last one; what a     *)
(* command has read may be stale in one way only; and a HELLO that read    *)
(* UNKNOWN, the one write no command knows of, is about a peer of whom     *)
(* nothing is held.                                                        *)
(*                                                                         *)
(* Sessions: the transport, the engine and the dashboard of a node agree   *)
(* about the session of its peer.  The argument follows the queue between  *)
(* the swarm thread and the engine: what it tells starts from what the     *)
(* engine has heard and ends at what the transport knows.                  *)
(***************************************************************************)
EXTENDS LocationBook, MeshSession, FiniteSetTheorems, SequenceTheorems, TLAPS

-----------------------------------------------------------------------------
(* The trust store *)

\* A peer on record as enrolled is known, to the store and to the mesh thread.
EnrolledIsKnown ==
  \A p \in Peer : Enrolled(p) =>
    /\ trust[p] # "UNKNOWN"
    /\ \A read \in handshake : read.peer = p => read.state # "UNKNOWN"

IInv == TypeOK /\ AuditAccountsForTrust /\ EnrolsOnce /\ EnrolledIsKnown

\* What a transition leaves behind: the old entries, and one more at the end.
LEMMA TransitionAppends ==
  ASSUME TypeOK, NEW p \in Peer, NEW kind \in Kind,
         NEW from \in TrustState, NEW to \in TrustState,
         Transition(p, kind, from, to)
  PROVE  /\ trust' \in [Peer -> TrustState]
         /\ trust'[p] = to
         /\ \A q \in Peer \ {p} : trust'[q] = trust[q]
         /\ audit' \in Seq(Entry)
         /\ Len(audit') = Len(audit) + 1
         /\ DOMAIN audit = 1..Len(audit) /\ Len(audit) \in Nat
         /\ DOMAIN audit' = 1..(Len(audit) + 1)
         /\ \A i \in DOMAIN audit : audit'[i] = audit[i]
         /\ audit'[Len(audit) + 1] = [peer |-> p, kind |-> kind, from |-> from, to |-> to]
         /\ registered' = registered
<1> DEFINE entry == [peer |-> p, kind |-> kind, from |-> from, to |-> to]
<1>1. entry \in Entry
  BY DEF Entry
<1>2. audit \in Seq(Entry) /\ audit' = Append(audit, entry)
  BY DEF TypeOK, Transition
<1> HIDE DEF entry
<1>3. /\ audit' \in Seq(Entry)
      /\ Len(audit') = Len(audit) + 1
      /\ DOMAIN audit = 1..Len(audit) /\ Len(audit) \in Nat
      /\ DOMAIN audit' = 1..(Len(audit) + 1)
      /\ \A i \in DOMAIN audit : audit'[i] = audit[i]
      /\ audit'[Len(audit) + 1] = entry
  BY <1>1, <1>2, AppendProperties
<1>4. /\ trust' \in [Peer -> TrustState]
      /\ trust'[p] = to
      /\ \A q \in Peer \ {p} : trust'[q] = trust[q]
      /\ registered' = registered
  BY DEF TypeOK, Transition
<1> QED
  BY <1>3, <1>4 DEF entry

\* A transition keeps the audit log an account of the trust states.
LEMMA TransitionAccounts ==
  ASSUME TypeOK, AuditAccountsForTrust, NEW p \in Peer, NEW kind \in Kind,
         NEW from \in TrustState, NEW to \in TrustState,
         Transition(p, kind, from, to)
  PROVE  AuditAccountsForTrust'
<1> DEFINE n == Len(audit) + 1
<1>1. /\ trust'[p] = to
      /\ \A q \in Peer \ {p} : trust'[q] = trust[q]
      /\ DOMAIN audit = 1..Len(audit) /\ Len(audit) \in Nat
      /\ DOMAIN audit' = 1..n
      /\ \A i \in DOMAIN audit : audit'[i] = audit[i]
      /\ audit'[n] = [peer |-> p, kind |-> kind, from |-> from, to |-> to]
  BY TransitionAppends DEF n
<1> HIDE DEF n
<1> SUFFICES ASSUME NEW q \in Peer
             PROVE  \/ trust'[q] = "UNKNOWN" /\ EntriesOf(q)' = {}
                    \/ \E last \in EntriesOf(q)' :
                         /\ audit'[last].to = trust'[q]
                         /\ \A i \in EntriesOf(q)' : i <= last
  BY DEF AuditAccountsForTrust
<1>2. CASE q = p
  <2>1. n \in EntriesOf(q)' /\ audit'[n].to = trust'[q]
    BY <1>1, <1>2 DEF EntriesOf, n
  <2>2. \A i \in EntriesOf(q)' : i <= n
    BY <1>1 DEF EntriesOf, n
  <2> QED
    BY <2>1, <2>2
<1>3. CASE q # p
  <2>1. EntriesOf(q)' = EntriesOf(q)
    BY <1>1, <1>3 DEF EntriesOf, n
  <2>2. \A i \in EntriesOf(q) : audit'[i] = audit[i]
    BY <1>1 DEF EntriesOf
  <2>3. trust'[q] = trust[q]
    BY <1>1, <1>3
  <2> QED
    BY <2>1, <2>2, <2>3 DEF AuditAccountsForTrust
<1> QED
  BY <1>2, <1>3

-----------------------------------------------------------------------------

\* An empty trust store satisfies the invariant.
LEMMA InitEstablishes == Init => IInv
<1> SUFFICES ASSUME Init PROVE IInv
  OBVIOUS
<1>1. audit \in Seq(Entry) /\ DOMAIN audit = {}
  BY DEF Init
<1>2. TypeOK
  BY <1>1 DEF Init, TypeOK, TrustState
<1>3. \A p \in Peer : EntriesOf(p) = {} /\ ~Enrolled(p)
  BY <1>1 DEF EntriesOf, Enrolled
<1> QED
  BY <1>1, <1>2, <1>3 DEF Init, IInv, AuditAccountsForTrust, EnrolsOnce, EnrolledIsKnown

\* A step that writes no transition and starts no HELLO keeps the invariant.
LEMMA StoreUntouched ==
  ASSUME IInv, TypeOK', UNCHANGED <<trust, audit>>, handshake' \subseteq handshake
  PROVE  IInv'
<1>1. \A p \in Peer : EntriesOf(p)' = EntriesOf(p) /\ Enrolled(p)' = Enrolled(p)
  BY DEF EntriesOf, Enrolled
<1>2. AuditAccountsForTrust' /\ EnrolsOnce'
  BY <1>1 DEF IInv, AuditAccountsForTrust, EnrolsOnce
<1>3. EnrolledIsKnown'
  BY <1>1 DEF IInv, EnrolledIsKnown
<1> QED
  BY <1>2, <1>3 DEF IInv

\* The mesh thread's transition is the first request of its peer.
LEMMA HelloPreserves == IInv /\ FinishHello => IInv'
<1> SUFFICES ASSUME IInv, FinishHello PROVE IInv'
  OBVIOUS
<1> USE DEF IInv
<1>1. PICK read \in handshake :
        /\ \/ read.state = "UNKNOWN"
              /\ Transition(read.peer, "REQUESTED", read.state, "PENDING")
           \/ read.state # "UNKNOWN" /\ UNCHANGED stored
        /\ handshake' = {}
        /\ UNCHANGED command
  BY DEF FinishHello
<1>2. CASE read.state # "UNKNOWN" /\ UNCHANGED stored
  <2>1. TypeOK'
    BY <1>1, <1>2 DEF TypeOK, stored
  <2> QED
    BY <1>1, <1>2, <2>1, StoreUntouched DEF stored
<1>3. CASE read.state = "UNKNOWN" /\ Transition(read.peer, "REQUESTED", read.state, "PENDING")
  <2> DEFINE p == read.peer
             n == Len(audit) + 1
  <2>1. /\ p \in Peer /\ read.state \in TrustState /\ "REQUESTED" \in Kind
        /\ "PENDING" \in TrustState
        /\ Transition(p, "REQUESTED", read.state, "PENDING")
    BY <1>3 DEF TypeOK, Read, Kind, TrustState
  <2> HIDE DEF p
  <2>2. /\ trust' \in [Peer -> TrustState]
        /\ trust'[p] = "PENDING"
        /\ \A q \in Peer \ {p} : trust'[q] = trust[q]
        /\ audit' \in Seq(Entry)
        /\ DOMAIN audit = 1..Len(audit) /\ Len(audit) \in Nat
        /\ DOMAIN audit' = 1..(Len(audit) + 1)
        /\ \A i \in DOMAIN audit : audit'[i] = audit[i]
        /\ audit'[Len(audit) + 1] =
             [peer |-> p, kind |-> "REQUESTED", from |-> read.state, to |-> "PENDING"]
        /\ registered' = registered
    BY <2>1, TransitionAppends
  <2>3. TypeOK'
    BY <1>1, <2>2 DEF TypeOK
  <2>4. AuditAccountsForTrust'
    BY <2>1, TransitionAccounts
  <2>5. ~Enrolled(p)
    BY <1>3, <2>1 DEF EnrolledIsKnown, p
  <2>6. EnrolsOnce'
    <3> SUFFICES ASSUME NEW i \in DOMAIN audit', NEW j \in DOMAIN audit',
                        audit'[i].kind = "REQUESTED", audit'[j].kind = "REQUESTED",
                        audit'[i].peer = audit'[j].peer
                 PROVE  i = j
      BY DEF EnrolsOnce
    <3>1. \A k \in DOMAIN audit : ~(audit[k].kind = "REQUESTED" /\ audit[k].peer = p)
      BY <2>5 DEF Enrolled, EntriesOf
    <3>2. CASE i \in DOMAIN audit /\ j \in DOMAIN audit
      BY <2>2, <3>2 DEF EnrolsOnce
    <3>3. CASE i = n \/ j = n
      BY <2>2, <3>1, <3>3 DEF n
    <3> QED
      BY <2>2, <3>2, <3>3 DEF n
  <2>7. EnrolledIsKnown'
    <3> SUFFICES ASSUME NEW q \in Peer, Enrolled(q)' PROVE trust'[q] # "UNKNOWN"
      BY <1>1 DEF EnrolledIsKnown
    <3>1. CASE q = p
      BY <2>2, <3>1
    <3>2. CASE q # p
      <4>1. Enrolled(q)
        BY <2>2, <3>2 DEF Enrolled, EntriesOf
      <4> QED
        BY <2>2, <3>2, <4>1 DEF EnrolledIsKnown
    <3> QED
      BY <3>1, <3>2
  <2> QED
    BY <2>3, <2>4, <2>6, <2>7
<1> QED
  BY <1>1, <1>2, <1>3

\* The operator's transition requests nothing and leaves nobody UNKNOWN.
LEMMA DecisionPreserves == IInv /\ FinishDecision => IInv'
<1> SUFFICES ASSUME IInv, FinishDecision PROVE IInv'
  OBVIOUS
<1> USE DEF IInv
<1>1. PICK c \in command :
        /\ \/ /\ c.state # Target(c.decision)
              /\ Transition(c.peer, KindOf(c.decision, c.state), c.state, Target(c.decision))
           \/ c.state = Target(c.decision) /\ UNCHANGED stored
        /\ command' = {}
        /\ UNCHANGED handshake
  BY DEF FinishDecision
<1>2. CASE UNCHANGED stored
  <2>1. TypeOK'
    BY <1>1, <1>2 DEF TypeOK, stored
  <2> QED
    BY <1>1, <1>2, <2>1, StoreUntouched DEF stored
<1>3. CASE Transition(c.peer, KindOf(c.decision, c.state), c.state, Target(c.decision))
  <2> DEFINE p == c.peer
             kind == KindOf(c.decision, c.state)
             to == Target(c.decision)
             n == Len(audit) + 1
  <2>1. /\ p \in Peer /\ c.state \in TrustState
        /\ kind \in Kind \ {"REQUESTED"}
        /\ to \in TrustState \ {"UNKNOWN"}
        /\ Transition(p, kind, c.state, to)
    BY <1>3 DEF TypeOK, Command, Decision, Kind, TrustState, KindOf, Target
  <2> HIDE DEF p, kind, to
  <2>2. /\ trust' \in [Peer -> TrustState]
        /\ trust'[p] = to
        /\ \A q \in Peer \ {p} : trust'[q] = trust[q]
        /\ audit' \in Seq(Entry)
        /\ DOMAIN audit = 1..Len(audit) /\ Len(audit) \in Nat
        /\ DOMAIN audit' = 1..(Len(audit) + 1)
        /\ \A i \in DOMAIN audit : audit'[i] = audit[i]
        /\ audit'[Len(audit) + 1] =
             [peer |-> p, kind |-> kind, from |-> c.state, to |-> to]
        /\ registered' = registered
    BY <2>1, TransitionAppends
  <2>3. TypeOK'
    BY <1>1, <2>2 DEF TypeOK
  <2>4. AuditAccountsForTrust'
    BY <2>1, TransitionAccounts
  <2>5. \A i \in DOMAIN audit' : audit'[i].kind = "REQUESTED" => i \in DOMAIN audit
    BY <2>1, <2>2
  <2>6. EnrolsOnce'
    BY <2>2, <2>5 DEF EnrolsOnce
  <2>7. \A q \in Peer : Enrolled(q)' => Enrolled(q)
    BY <2>2, <2>5 DEF Enrolled, EntriesOf
  <2>8. EnrolledIsKnown'
    BY <1>1, <2>1, <2>2, <2>7 DEF EnrolledIsKnown
  <2> QED
    BY <2>3, <2>4, <2>6, <2>8
<1> QED
  BY <1>1, <1>2, <1>3

\* Every step of the trust store keeps the invariant.
LEMMA StepPreserves == IInv /\ [Next]_vars => IInv'
<1> SUFFICES ASSUME IInv, [Next]_vars PROVE IInv'
  OBVIOUS
<1> USE DEF IInv
<1>1. ASSUME NEW p \in Peer, RegisterPeer(p) PROVE IInv'
  BY <1>1, StoreUntouched DEF RegisterPeer, TypeOK
<1>2. ASSUME NEW p \in Peer, ReadForHello(p) PROVE IInv'
  <2>1. TypeOK'
    BY <1>2 DEF ReadForHello, stored, TypeOK, Read
  <2>2. \A q \in Peer : EntriesOf(q)' = EntriesOf(q) /\ Enrolled(q)' = Enrolled(q)
    BY <1>2 DEF ReadForHello, stored, EntriesOf, Enrolled
  <2>3. AuditAccountsForTrust' /\ EnrolsOnce'
    BY <1>2, <2>2 DEF ReadForHello, stored, AuditAccountsForTrust, EnrolsOnce
  <2>4. EnrolledIsKnown'
    BY <1>2, <2>2 DEF ReadForHello, stored, EnrolledIsKnown
  <2> QED
    BY <2>1, <2>3, <2>4
<1>3. ASSUME NEW p \in Peer, NEW decision \in Decision, ReadForDecision(decision, p)
      PROVE  IInv'
  <2>1. TypeOK'
    BY <1>3 DEF ReadForDecision, stored, TypeOK, Command
  <2> QED
    BY <1>3, <2>1, StoreUntouched DEF ReadForDecision, stored
<1>4. ASSUME Restart PROVE IInv'
  <2>1. TypeOK'
    BY <1>4 DEF Restart, stored, TypeOK
  <2> QED
    BY <1>4, <2>1, StoreUntouched DEF Restart, stored
<1>5. ASSUME UNCHANGED vars PROVE IInv'
  <2>1. TypeOK'
    BY <1>5 DEF vars, stored, TypeOK
  <2> QED
    BY <1>5, <2>1, StoreUntouched DEF vars, stored
<1> QED
  BY <1>1, <1>2, <1>3, <1>4, <1>5, HelloPreserves, DecisionPreserves DEF Next

\* The invariant holds of every behaviour of the store.
THEOREM TrustStoreSound == Spec => []IInv
  BY InitEstablishes, StepPreserves, PTL DEF Spec

\* Every trust state is accounted for by the audit log (apply_trust_transition).
THEOREM TrustIsAudited == Spec => []AuditAccountsForTrust
<1>1. IInv => AuditAccountsForTrust
  BY DEF IInv
<1> QED
  BY <1>1, TrustStoreSound, PTL

\* A peer enrols once at most (record_enrollment_request).
THEOREM NobodyEnrolsAgain == Spec => []EnrolsOnce
<1>1. IInv => EnrolsOnce
  BY DEF IInv
<1> QED
  BY <1>1, TrustStoreSound, PTL

\* The audit log accounts for every trust state and records a request once.
THEOREM AuditHolds == Spec => []AuditIsFaithful
  BY TrustIsAudited, NobodyEnrolsAgain, PTL DEF AuditIsFaithful

\* Only the operator lifts the denial of an enrolled peer: the two writers are
\* a HELLO, which by the invariant read something else than UNKNOWN and writes
\* nothing, and a decision, which lifts a denial only if it approves.
THEOREM EnrolledDenialHolds == Spec => EnrolledStaysDenied
<1>1. ASSUME IInv, [Next]_vars, NEW p \in Peer, Enrolled(p), Lifts(p)
      PROVE  Approving(p)
  <2> USE DEF IInv
  <2>1. CASE FinishHello
    <3>1. PICK read \in handshake :
            \/ read.state = "UNKNOWN"
               /\ Transition(read.peer, "REQUESTED", read.state, "PENDING")
            \/ read.state # "UNKNOWN" /\ UNCHANGED stored
      BY <2>1 DEF FinishHello
    <3>2. trust'[p] # trust[p]
      BY <1>1 DEF Lifts
    <3>3. /\ read.state = "UNKNOWN"
          /\ trust' = [trust EXCEPT ![read.peer] = "PENDING"]
      BY <3>1, <3>2 DEF Transition, stored
    <3>4. trust \in [Peer -> TrustState]
      BY <1>1 DEF TypeOK
    <3>5. read.peer = p
      BY <3>2, <3>3, <3>4
    <3> QED
      BY <1>1, <3>3, <3>5 DEF EnrolledIsKnown
  <2>2. CASE FinishDecision
    <3>1. PICK c \in command :
            \/ Transition(c.peer, KindOf(c.decision, c.state), c.state, Target(c.decision))
            \/ UNCHANGED stored
      BY <2>2 DEF FinishDecision
    <3>2. trust'[p] # trust[p] /\ trust'[p] # "REVOKED"
      BY <1>1 DEF Lifts
    <3>3. trust' = [trust EXCEPT ![c.peer] = Target(c.decision)]
      BY <3>1, <3>2 DEF Transition, stored
    <3>4. trust \in [Peer -> TrustState] /\ c.decision \in Decision
      BY <1>1 DEF TypeOK, Command
    <3>5. c.peer = p /\ Target(c.decision) # "REVOKED"
      BY <3>2, <3>3, <3>4
    <3> QED
      BY <3>4, <3>5 DEF Target, Approving, Decision
  <2>3. ASSUME UNCHANGED trust PROVE FALSE
    BY <1>1, <2>3 DEF Lifts
  <2> QED
    BY <1>1, <2>1, <2>2, <2>3
    DEF Next, RegisterPeer, ReadForHello, ReadForDecision, Restart, vars, stored
<1>2. IInv /\ [Next]_vars => [\A p \in Peer : Enrolled(p) /\ Lifts(p) => Approving(p)]_vars
  BY <1>1
<1> QED
  BY <1>2, TrustStoreSound, PTL DEF Spec, EnrolledStaysDenied

-----------------------------------------------------------------------------
(* The location book *)

EntriesAreKnown == \A i \in DOMAIN audit : audit[i].to # "UNKNOWN"

\* The mesh thread and the heartbeat thread exclude one another.
MeshLockHolds == handshake # {} => reading = {} /\ telling = {} /\ cleared = {}

\* One command at a time, from its first read to its last step.
OneCommand ==
  /\ \A c, d \in command : c = d
  /\ \A s, t \in settling : s = t
  /\ command # {} => settling = {}

\* What a command read may be stale, but not in these ways.
CommandKnows ==
  \A c \in command :
    /\ trust[c.peer] = "UNKNOWN" => c.state = "UNKNOWN"
    /\ c.state = "REVOKED" => trust[c.peer] # "TRUSTED"

\* Nothing is held of p, nor about to be.
Gone(p) ==
  /\ ~Held(p) /\ trust[p] # "TRUSTED"
  /\ \A h \in reading : h.peer # p

SettlingKnows ==
  \A s \in settling :
    /\ trust[s.peer] # "UNKNOWN"
    /\ s.decision = "REJECT" => LastRejected(s.peer) \/ Gone(s.peer)

HelloUnheld == \A read \in handshake : read.state = "UNKNOWN" => ~Held(read.peer)

Exclusion == MeshLockHolds /\ OneCommand
Knowledge == EntriesAreKnown /\ CommandKnows /\ SettlingKnows /\ HelloUnheld

BookInv == IInv /\ BookTypeOK /\ Exclusion /\ Knowledge /\ RevocationHolds

-----------------------------------------------------------------------------
(* The book's steps are the store's. *)

\* Every step of the book is a step of the trust store, or leaves it alone.
LEMMA BookStepsTheStore == [BookNext]_bookVars => [Next]_vars
<1>1. ASSUME NEW p \in Peer, NEW decision \in Decision, StartCommand(decision, p)
      PROVE  Next
  BY <1>1 DEF StartCommand, Next
<1>2. ASSUME NEW p \in Peer, RegisterPeer(p) \/ HandleHello(p) PROVE Next
  BY <1>2 DEF HandleHello, Next
<1>3. ASSUME FinishHello \/ CommitDecision \/ BookRestart PROVE Next
  BY <1>3 DEF CommitDecision, BookRestart, Next
<1>4. ASSUME NEW p \in Peer, Publish(p) \/ PeerRestarts(p) \/ ClearRecipient(p)
      PROVE  UNCHANGED vars
  BY <1>4 DEF Publish, PeerRestarts, ClearRecipient
<1>5. ASSUME Accept \/ Tell \/ SettleDecision \/ UNCHANGED bookVars PROVE UNCHANGED vars
  BY <1>5 DEF Accept, Tell, SettleDecision, bookVars
<1>6. ASSUME NEW h, ReceiveHeartbeat(h) PROVE UNCHANGED vars
  BY <1>6 DEF ReceiveHeartbeat
<1>7. ASSUME NEW links, Broadcast(links) PROVE UNCHANGED vars
  BY <1>7 DEF Broadcast
<1> QED
  BY <1>1, <1>2, <1>3, <1>4, <1>5, <1>6, <1>7 DEF BookNext

\* What the book adds to the store keeps its type.
LEMMA BookTypeStep == BookTypeOK /\ TypeOK' /\ [BookNext]_bookVars => BookTypeOK'
<1> SUFFICES ASSUME BookTypeOK, TypeOK', [BookNext]_bookVars PROVE BookTypeOK'
  OBVIOUS
<1> USE ReportBounds DEF BookTypeOK, Report, NoReport, Heartbeat, Settling
<1>1. ASSUME NEW p \in Peer, Publish(p) PROVE BookTypeOK'
  <2>1. publisher'[p] \in Report /\ publisher' \in [Peer -> [life : 1..MaxLife, seq : 0..MaxReport]]
    BY <1>1 DEF Publish
  <2>2. flight' \subseteq Heartbeat
    BY <1>1, <2>1 DEF Publish
  <2> QED
    BY <1>1, <2>1, <2>2 DEF Publish, engine, placed
<1>2. ASSUME NEW p \in Peer, PeerRestarts(p) PROVE BookTypeOK'
  BY <1>2 DEF PeerRestarts, engine, placed
<1>3. ASSUME NEW p \in Peer, ClearRecipient(p) PROVE BookTypeOK'
  BY <1>3 DEF ClearRecipient, placed, peers
<1>4. ASSUME UNCHANGED <<engine, peers, settling>> PROVE BookTypeOK'
  BY <1>4 DEF engine, placed, peers
<1>5. ASSUME NEW h \in flight, ReceiveHeartbeat(h) PROVE BookTypeOK'
  BY <1>5 DEF ReceiveHeartbeat, placed
<1>6. ASSUME Accept PROVE BookTypeOK'
  <2>1. PICK h \in reading :
          /\ place' = [place EXCEPT ![h.peer] = IF IsNewer(h.report, @) THEN h.report ELSE @]
          /\ newest' = [newest EXCEPT ![h.peer] = IF IsLater(h.report, @) THEN h.report ELSE @]
          /\ reading' = {}
          /\ UNCHANGED <<vars, telling, cleared, peers, settling>>
    BY <1>6 DEF Accept
  <2>2. h.report \in Report
    OBVIOUS
  <2> QED
    BY <2>1, <2>2 DEF peers
<1>7. ASSUME NEW links \in SUBSET Peer, Broadcast(links) PROVE BookTypeOK'
  BY <1>7 DEF Broadcast, placed, peers
<1>8. ASSUME Tell PROVE BookTypeOK'
  BY <1>8 DEF Tell, placed, peers
<1>9. ASSUME CommitDecision PROVE BookTypeOK'
  <2>1. settling' \subseteq Settling
    BY <1>9 DEF CommitDecision, TypeOK, Command
  <2> QED
    BY <1>9, <2>1 DEF CommitDecision, engine, placed, peers
<1>10. ASSUME SettleDecision PROVE BookTypeOK'
  BY <1>10 DEF SettleDecision, peers
<1>11. ASSUME BookRestart PROVE BookTypeOK'
  BY <1>11 DEF BookRestart
<1> QED
  BY <1>1, <1>2, <1>3, <1>4, <1>5, <1>6, <1>7, <1>8, <1>9, <1>10, <1>11
  DEF BookNext, StartCommand, bookVars

\* Where the book starts.
LEMMA BookStarts == BookInit => IInv /\ BookTypeOK
<1>1. BookInit => IInv
  BY InitEstablishes DEF BookInit
<1>2. BookInit => BookTypeOK
  BY <1>1, ReportBounds
  DEF BookInit, IInv, BookTypeOK, Report, NoReport, Heartbeat, Settling
<1> QED
  BY <1>1, <1>2

\* The book and the store have their types, and the store its invariant.
THEOREM BookTypeCorrect == BookSpec => [](IInv /\ BookTypeOK)
<1>1. IInv /\ BookTypeOK /\ [BookNext]_bookVars => (IInv /\ BookTypeOK)'
  BY BookStepsTheStore, StepPreserves, BookTypeStep DEF IInv
<1> QED
  BY BookStarts, <1>1, PTL DEF BookSpec

-----------------------------------------------------------------------------
(* The position held is the latest. *)

\* PeerLocationBook::accept keeps the latest report, but for a peer that has
\* restarted and counts from 1 again.
LEMMA AcceptKeepsTheNewest == BookTypeOK /\ BookIsNewest /\ Accept => BookIsNewest'
<1> SUFFICES ASSUME BookTypeOK, BookIsNewest, Accept PROVE BookIsNewest'
  OBVIOUS
<1>1. PICK h \in reading :
        /\ place' = [place EXCEPT ![h.peer] = IF IsNewer(h.report, @) THEN h.report ELSE @]
        /\ newest' = [newest EXCEPT ![h.peer] = IF IsLater(h.report, @) THEN h.report ELSE @]
  BY DEF Accept
<1>2. h.peer \in Peer /\ h.report.life \in Nat /\ h.report.seq \in Nat
  BY ReportBounds DEF BookTypeOK, Heartbeat, Report
<1>3. \A p \in Peer : /\ place[p].life \in Nat /\ place[p].seq \in Nat
                      /\ newest[p].life \in Nat /\ newest[p].seq \in Nat
  BY ReportBounds DEF BookTypeOK, Report, NoReport
<1>4. place \in [Peer -> Report \cup {NoReport}] /\ newest \in [Peer -> Report \cup {NoReport}]
  BY DEF BookTypeOK
<1> SUFFICES ASSUME NEW p \in Peer
             PROVE  \/ place'[p] = newest'[p]
                    \/ /\ place'[p].life < newest'[p].life
                       /\ place'[p].seq >= newest'[p].seq
  BY DEF BookIsNewest
<1>5. CASE p # h.peer
  BY <1>1, <1>4, <1>5 DEF BookIsNewest
<1>6. CASE p = h.peer
  <2>1. /\ place'[p] = IF IsNewer(h.report, place[p]) THEN h.report ELSE place[p]
        /\ newest'[p] = IF IsLater(h.report, newest[p]) THEN h.report ELSE newest[p]
    BY <1>1, <1>4, <1>6
  <2>2. CASE place[p] = newest[p]
    BY <1>2, <1>3, <2>1, <2>2 DEF IsNewer, IsLater
  <2>3. CASE place[p].life < newest[p].life /\ place[p].seq >= newest[p].seq
    BY <1>2, <1>3, <2>1, <2>3 DEF IsNewer, IsLater
  <2> QED
    BY <2>2, <2>3 DEF BookIsNewest
<1> QED
  BY <1>5, <1>6

\* The other steps leave the two alone, or empty both.
LEMMA NewestStays == BookTypeOK /\ BookIsNewest /\ [BookNext]_bookVars => BookIsNewest'
<1> SUFFICES ASSUME BookTypeOK, BookIsNewest, [BookNext]_bookVars PROVE BookIsNewest'
  OBVIOUS
<1>1. ASSUME UNCHANGED placed PROVE BookIsNewest'
  BY <1>1 DEF placed, BookIsNewest
<1>2. ASSUME NEW p \in Peer, Publish(p) \/ PeerRestarts(p) \/ ClearRecipient(p)
      PROVE  UNCHANGED placed
  BY <1>2 DEF Publish, PeerRestarts, ClearRecipient, engine
<1>3. ASSUME NEW h, ReceiveHeartbeat(h) PROVE UNCHANGED placed
  BY <1>3 DEF ReceiveHeartbeat
<1>4. ASSUME NEW links, Broadcast(links) PROVE UNCHANGED placed
  BY <1>4 DEF Broadcast
<1>5. ASSUME UNCHANGED engine PROVE UNCHANGED placed
  BY <1>5 DEF engine
<1>6. ASSUME SettleDecision PROVE BookIsNewest'
  <2>1. PICK s \in settling :
          \A p \in Peer : \/ place'[p] = NoReport /\ newest'[p] = NoReport
                          \/ place'[p] = place[p] /\ newest'[p] = newest[p]
    BY <1>6 DEF SettleDecision
  <2> QED
    BY <2>1 DEF BookIsNewest
<1>7. ASSUME BookRestart PROVE BookIsNewest'
  BY <1>7 DEF BookRestart, BookIsNewest
<1>8. ASSUME CommitDecision \/ Tell PROVE UNCHANGED placed
  BY <1>8 DEF CommitDecision, Tell, engine
<1>9. ASSUME NEW p, NEW decision, StartCommand(decision, p) PROVE UNCHANGED engine
  BY <1>9 DEF StartCommand
<1>10. CASE UNCHANGED bookVars
  BY <1>1, <1>10 DEF bookVars, engine
<1> QED
  BY <1>1, <1>2, <1>3, <1>4, <1>5, <1>6, <1>7, <1>8, <1>9, <1>10, AcceptKeepsTheNewest
  DEF BookNext

\* One report of each peer, of the right kind and the latest there is, but for
\* a peer that restarted (PeerLocationBook::accept).
THEOREM BookHolds == BookSpec => []BookIsSound
<1>1. BookInit => BookIsNewest
  BY DEF BookInit, BookIsNewest
<1>2. (IInv /\ BookTypeOK) /\ BookIsNewest /\ [BookNext]_bookVars => BookIsNewest'
  BY NewestStays
<1>3. BookSpec => []BookIsNewest
  BY <1>1, <1>2, BookTypeCorrect, PTL DEF BookSpec
<1>4. (IInv /\ BookTypeOK) /\ BookIsNewest => BookIsSound
  BY DEF BookIsSound
<1> QED
  BY <1>3, <1>4, BookTypeCorrect, PTL

-----------------------------------------------------------------------------
(* What was rejected last *)

\* Nothing is said of a rejection unless the audit log grows.
LEMMA RejectionUntouched ==
  UNCHANGED audit => \A p \in Peer : LastRejected(p)' = LastRejected(p)
BY DEF LastRejected, EntriesOf

\* Another peer's transition, or a HELLO, leaves a rejection the last decision.
LEMMA RejectionStays ==
  ASSUME TypeOK, NEW p \in Peer, NEW kind \in Kind,
         NEW from \in TrustState, NEW to \in TrustState,
         Transition(p, kind, from, to),
         NEW q \in Peer, LastRejected(q), q # p \/ kind = "REQUESTED"
  PROVE  LastRejected(q)'
<1> DEFINE n == Len(audit) + 1
<1>1. /\ DOMAIN audit = 1..Len(audit) /\ Len(audit) \in Nat
      /\ DOMAIN audit' = 1..n
      /\ \A i \in DOMAIN audit : audit'[i] = audit[i]
      /\ audit'[n] = [peer |-> p, kind |-> kind, from |-> from, to |-> to]
  BY TransitionAppends DEF n
<1>2. PICK i \in EntriesOf(q) :
        /\ audit[i].kind = "REJECTED"
        /\ \A j \in EntriesOf(q) : j > i => audit[j].kind = "REQUESTED"
  BY DEF LastRejected
<1>3. i \in EntriesOf(q)' /\ audit'[i].kind = "REJECTED"
  BY <1>1, <1>2 DEF EntriesOf, n
<1>4. ASSUME NEW j \in EntriesOf(q)', j > i PROVE audit'[j].kind = "REQUESTED"
  <2>1. CASE j \in DOMAIN audit
    BY <1>1, <1>2, <1>4, <2>1 DEF EntriesOf
  <2>2. CASE j = n
    BY <1>1, <1>4, <2>2 DEF EntriesOf
  <2> QED
    BY <1>1, <2>1, <2>2 DEF EntriesOf, n
<1> QED
  BY <1>3, <1>4 DEF LastRejected

\* A rejection is the last decision when it is written.
LEMMA RejectionIsLast ==
  ASSUME TypeOK, NEW p \in Peer, NEW from \in TrustState, NEW to \in TrustState,
         Transition(p, "REJECTED", from, to)
  PROVE  LastRejected(p)'
<1> DEFINE n == Len(audit) + 1
<1>1. /\ Len(audit) \in Nat /\ DOMAIN audit' = 1..n
      /\ audit'[n] = [peer |-> p, kind |-> "REJECTED", from |-> from, to |-> to]
  BY TransitionAppends DEF n, Kind
<1>2. n \in EntriesOf(p)' /\ audit'[n].kind = "REJECTED"
  BY <1>1 DEF EntriesOf, n
<1>3. \A j \in EntriesOf(p)' : ~(j > n)
  BY <1>1 DEF EntriesOf, n
<1> QED
  BY <1>2, <1>3 DEF LastRejected

\* Of a peer the store does not know, nothing is held.
LEMMA UnknownIsNotHeld ==
  ASSUME BookInv, NEW p \in Peer, trust[p] = "UNKNOWN"
  PROVE  ~Held(p)
<1>1. ~DenialUnderWay(p)
  BY DEF BookInv, Knowledge, SettlingKnows, DenialUnderWay
<1>2. EntriesOf(p) = {}
  BY DEF BookInv, IInv, AuditAccountsForTrust, Knowledge, EntriesAreKnown, EntriesOf
<1>3. ~LastRejected(p)
  BY <1>2 DEF LastRejected
<1> QED
  BY <1>1, <1>3 DEF BookInv, RevocationHolds, RevokedIsForgotten

-----------------------------------------------------------------------------
(* One lemma for each action that disturbs the invariant.  What stands for *)
(* all of them, the types and the store's own invariant, is left out.      *)

BookRest == Exclusion /\ Knowledge /\ RevocationHolds

\* Peers report and restart, and new ones appear: the invariant is not about them.
LEMMA RestUntouched ==
  ASSUME BookInv, UNCHANGED <<trust, audit, handshake, command, engine, settling>>
  PROVE  BookRest'
<1>1. UNCHANGED <<place, reading, telling, cleared>>
  BY DEF engine, placed
<1>2. \A p \in Peer : LastRejected(p)' = LastRejected(p)
  BY RejectionUntouched
<1>3. Exclusion'
  BY <1>1 DEF BookInv, Exclusion, MeshLockHolds, OneCommand
<1>4. Knowledge'
  BY <1>1, <1>2
  DEF BookInv, Knowledge, EntriesAreKnown, CommandKnows, SettlingKnows, HelloUnheld, Gone,
      Held, BookTypeOK, Settling
<1>5. RevocationHolds'
  BY <1>1, <1>2
  DEF BookInv, RevocationHolds, RevokedIsForgotten, AuthorizedIsCurrent, DenialUnderWay, Held
<1> QED
  BY <1>3, <1>4, <1>5 DEF BookRest

\* A HELLO that reads UNKNOWN is about a peer of whom nothing is held.
LEMMA RestAfterReadForHello ==
  ASSUME BookInv, NEW p \in Peer, HandleHello(p), UNCHANGED <<engine, peers, settling>>
  PROVE  BookRest'
<1>1. /\ UNCHANGED <<trust, audit, command, settling, place, reading, telling, cleared>>
      /\ handshake' = {[peer |-> p, state |-> trust[p]]}
      /\ reading = {} /\ telling = {} /\ cleared = {}
  BY DEF HandleHello, ReadForHello, MeshLockFree, stored, engine, placed
<1>2. \A q \in Peer : LastRejected(q)' = LastRejected(q)
  BY <1>1, RejectionUntouched
<1>3. Exclusion'
  BY <1>1 DEF BookInv, Exclusion, MeshLockHolds, OneCommand
<1>4. HelloUnheld'
  BY <1>1, UnknownIsNotHeld DEF HelloUnheld, Held
<1>5. EntriesAreKnown' /\ CommandKnows' /\ SettlingKnows'
  BY <1>1, <1>2
  DEF BookInv, Knowledge, EntriesAreKnown, CommandKnows, SettlingKnows, Gone, Held,
      BookTypeOK, Settling
<1>6. RevocationHolds'
  BY <1>1, <1>2
  DEF BookInv, RevocationHolds, RevokedIsForgotten, AuthorizedIsCurrent, DenialUnderWay, Held
<1> QED
  BY <1>3, <1>4, <1>5, <1>6 DEF BookRest, Knowledge

\* The one write that no command knows of.
LEMMA RestAfterFinishHello ==
  ASSUME BookInv, FinishHello, UNCHANGED <<engine, peers, settling>>
  PROVE  BookRest'
<1> USE DEF BookInv
<1>1. PICK read \in handshake :
        /\ \/ read.state = "UNKNOWN"
              /\ Transition(read.peer, "REQUESTED", read.state, "PENDING")
           \/ read.state # "UNKNOWN" /\ UNCHANGED stored
        /\ handshake' = {}
        /\ UNCHANGED command
  BY DEF FinishHello
<1>2. /\ UNCHANGED <<command, settling, place, reading, telling, cleared>>
      /\ reading = {} /\ telling = {} /\ cleared = {}
  BY <1>1 DEF engine, placed, Exclusion, MeshLockHolds
<1>3. Exclusion'
  BY <1>1, <1>2 DEF Exclusion, MeshLockHolds, OneCommand
<1>4. HelloUnheld' /\ AuthorizedIsCurrent'
  BY <1>1, <1>2 DEF HelloUnheld, AuthorizedIsCurrent
<1>5. CASE UNCHANGED stored
  <2>1. UNCHANGED <<trust, audit>> /\ \A q \in Peer : LastRejected(q)' = LastRejected(q)
    BY <1>5, RejectionUntouched DEF stored
  <2>2. EntriesAreKnown' /\ CommandKnows' /\ SettlingKnows' /\ RevokedIsForgotten'
    BY <1>2, <2>1
    DEF Knowledge, EntriesAreKnown, CommandKnows, SettlingKnows, Gone, Held,
        BookTypeOK, Settling, RevocationHolds, RevokedIsForgotten, DenialUnderWay
  <2> QED
    BY <1>3, <1>4, <2>2 DEF BookRest, Knowledge, RevocationHolds
<1>6. CASE read.state = "UNKNOWN" /\ Transition(read.peer, "REQUESTED", read.state, "PENDING")
  <2> DEFINE p == read.peer
  <2>1. /\ p \in Peer /\ read.state \in TrustState /\ "REQUESTED" \in Kind
        /\ "PENDING" \in TrustState /\ TypeOK
        /\ Transition(p, "REQUESTED", read.state, "PENDING")
    BY <1>6 DEF IInv, TypeOK, Read, Kind, TrustState
  <2>2. ~Held(p)
    BY <1>6 DEF Knowledge, HelloUnheld
  <2> HIDE DEF p
  <2>3. /\ trust'[p] = "PENDING"
        /\ \A q \in Peer \ {p} : trust'[q] = trust[q]
        /\ DOMAIN audit = 1..Len(audit) /\ Len(audit) \in Nat
        /\ DOMAIN audit' = 1..(Len(audit) + 1)
        /\ \A i \in DOMAIN audit : audit'[i] = audit[i]
        /\ audit'[Len(audit) + 1] =
             [peer |-> p, kind |-> "REQUESTED", from |-> read.state, to |-> "PENDING"]
    BY <2>1, TransitionAppends
  <2>4. \A q \in Peer : LastRejected(q) => LastRejected(q)'
    BY <2>1, RejectionStays
  <2>5. EntriesAreKnown'
    BY <2>3 DEF Knowledge, EntriesAreKnown
  <2>6. CommandKnows'
    BY <1>2, <2>3 DEF Knowledge, CommandKnows, IInv, TypeOK, Command
  <2>7. SettlingKnows'
    BY <1>2, <2>3, <2>4 DEF Knowledge, SettlingKnows, Gone, Held, BookTypeOK, Settling
  <2>8. RevokedIsForgotten'
    <3> SUFFICES ASSUME NEW q \in Peer, Held(q)'
                 PROVE  trust'[q] = "TRUSTED" \/ DenialUnderWay(q)' \/ LastRejected(q)'
      BY DEF RevokedIsForgotten
    <3>1. Held(q) /\ q # p
      BY <1>2, <2>2 DEF Held
    <3>2. trust'[q] = trust[q] /\ DenialUnderWay(q)' = DenialUnderWay(q)
      BY <1>2, <2>3, <3>1 DEF DenialUnderWay
    <3> QED
      BY <2>4, <3>1, <3>2 DEF RevocationHolds, RevokedIsForgotten
  <2> QED
    BY <1>3, <1>4, <2>5, <2>6, <2>7, <2>8 DEF BookRest, Knowledge, RevocationHolds
<1> QED
  BY <1>1, <1>5, <1>6

\* A command knows the state it has just read.
LEMMA RestAfterStart ==
  ASSUME BookInv, NEW p \in Peer, NEW decision \in Decision, StartCommand(decision, p)
  PROVE  BookRest'
<1>1. /\ UNCHANGED <<trust, audit, handshake, settling, place, reading, telling, cleared>>
      /\ command' = {[decision |-> decision, peer |-> p, state |-> trust[p]]}
      /\ settling = {}
  BY DEF StartCommand, ReadForDecision, stored, engine, placed
<1>2. \A q \in Peer : LastRejected(q)' = LastRejected(q)
  BY <1>1, RejectionUntouched
<1>3. Exclusion'
  BY <1>1 DEF BookInv, Exclusion, MeshLockHolds, OneCommand
<1>4. CommandKnows'
  BY <1>1 DEF CommandKnows
<1>5. EntriesAreKnown' /\ SettlingKnows' /\ HelloUnheld'
  BY <1>1, <1>2
  DEF BookInv, Knowledge, EntriesAreKnown, SettlingKnows, HelloUnheld, Held
<1>6. RevocationHolds'
  BY <1>1, <1>2
  DEF BookInv, RevocationHolds, RevokedIsForgotten, AuthorizedIsCurrent, DenialUnderWay, Held
<1> QED
  BY <1>3, <1>4, <1>5, <1>6 DEF BookRest, Knowledge

\* A decision commits: what it denies stays to be settled.
LEMMA RestAfterCommit == BookInv /\ CommitDecision => BookRest'
<1> SUFFICES ASSUME BookInv, CommitDecision PROVE BookRest'
  OBVIOUS
<1> USE DEF BookInv
<1>1. PICK c \in command :
        /\ \/ /\ c.state # Target(c.decision)
              /\ Transition(c.peer, KindOf(c.decision, c.state), c.state, Target(c.decision))
           \/ c.state = Target(c.decision) /\ UNCHANGED stored
        /\ command' = {}
        /\ UNCHANGED handshake
  BY DEF CommitDecision, FinishDecision
<1> DEFINE p == c.peer
           to == Target(c.decision)
<1>2. /\ UNCHANGED <<place, reading, telling, cleared, handshake>>
      /\ settling = {}
      /\ settling' = {[decision |-> c.decision, peer |-> p]}
  BY <1>1 DEF CommitDecision, engine, placed, Exclusion, OneCommand
<1>3. /\ p \in Peer /\ c.decision \in Decision /\ c.state \in TrustState /\ TypeOK
      /\ KindOf(c.decision, c.state) \in Kind
      /\ to \in {"TRUSTED", "REVOKED"} /\ to \in TrustState
  BY <1>1 DEF IInv, TypeOK, Command, Decision, Kind, KindOf, Target, TrustState
<1>4. to = "REVOKED" => DenialUnderWay(p)'
  BY <1>2 DEF DenialUnderWay, Denies
<1>5. Exclusion' /\ CommandKnows' /\ HelloUnheld'
  BY <1>1, <1>2 DEF Exclusion, MeshLockHolds, OneCommand, Knowledge, CommandKnows,
                    HelloUnheld, Held
<1>6. \A q \in Peer : Held(q)' = Held(q) /\ ~DenialUnderWay(q)
  BY <1>2 DEF Held, DenialUnderWay
<1>7. \A q \in Peer : Held(q) => trust[q] = "TRUSTED" \/ LastRejected(q)
  BY <1>6 DEF RevocationHolds, RevokedIsForgotten
<1>8. \A q \in cleared \cup {h.peer : h \in reading} : q \in Peer /\ trust[q] = "TRUSTED"
  BY <1>6 DEF RevocationHolds, AuthorizedIsCurrent, BookTypeOK, Heartbeat
<1>9. CASE c.state = to /\ UNCHANGED stored
  <2>1. UNCHANGED <<trust, audit>> /\ \A q \in Peer : LastRejected(q)' = LastRejected(q)
    BY <1>9, RejectionUntouched DEF stored
  <2>2. EntriesAreKnown'
    BY <2>1 DEF Knowledge, EntriesAreKnown
  <2>3. trust'[p] # "UNKNOWN"
    BY <1>3, <1>9, <2>1 DEF Knowledge, CommandKnows
  <2>4. c.decision = "REJECT" => LastRejected(p)' \/ Gone(p)'
    <3> SUFFICES ASSUME c.decision = "REJECT" PROVE LastRejected(p)' \/ Gone(p)'
      OBVIOUS
    <3>1. trust[p] # "TRUSTED"
      BY <1>9 DEF Knowledge, CommandKnows, Target
    <3>2. Held(p) => LastRejected(p)'
      BY <1>3, <1>7, <2>1, <3>1
    <3>3. \A h \in reading' : h.peer # p
      BY <1>2, <1>8, <3>1
    <3>4. ~Held(p) => Gone(p)'
      BY <1>3, <1>6, <2>1, <3>1, <3>3 DEF Gone
    <3> QED
      BY <3>2, <3>4
  <2>5. SettlingKnows'
    BY <1>2, <2>3, <2>4 DEF SettlingKnows
  <2>6. RevokedIsForgotten'
    BY <1>6, <1>7, <2>1 DEF RevokedIsForgotten
  <2>7. AuthorizedIsCurrent'
    BY <1>2, <1>8, <2>1 DEF AuthorizedIsCurrent
  <2> QED
    BY <1>5, <2>2, <2>5, <2>6, <2>7 DEF BookRest, Knowledge, RevocationHolds
<1>10. CASE Transition(p, KindOf(c.decision, c.state), c.state, to)
  <2> HIDE DEF to
  <2>1. /\ trust'[p] = to
        /\ \A q \in Peer \ {p} : trust'[q] = trust[q]
        /\ DOMAIN audit = 1..Len(audit) /\ Len(audit) \in Nat
        /\ DOMAIN audit' = 1..(Len(audit) + 1)
        /\ \A i \in DOMAIN audit : audit'[i] = audit[i]
        /\ audit'[Len(audit) + 1] =
             [peer |-> p, kind |-> KindOf(c.decision, c.state), from |-> c.state, to |-> to]
    BY <1>3, <1>10, TransitionAppends
  <2>2. EntriesAreKnown'
    BY <1>3, <2>1 DEF Knowledge, EntriesAreKnown
  <2>3. c.decision = "REJECT" => LastRejected(p)'
    BY <1>3, <1>10, RejectionIsLast DEF KindOf
  <2>4. SettlingKnows'
    BY <1>2, <1>3, <2>1, <2>3 DEF SettlingKnows
  <2>5. RevokedIsForgotten'
    <3> SUFFICES ASSUME NEW q \in Peer, Held(q)
                 PROVE  trust'[q] = "TRUSTED" \/ DenialUnderWay(q)' \/ LastRejected(q)'
      BY <1>6 DEF RevokedIsForgotten
    <3>1. CASE q = p
      BY <1>3, <1>4, <2>1, <3>1
    <3>2. CASE q # p
      <4>1. LastRejected(q) => LastRejected(q)'
        BY <1>3, <1>10, <3>2, RejectionStays
      <4> QED
        BY <1>7, <2>1, <3>2, <4>1
    <3> QED
      BY <3>1, <3>2
  <2>6. AuthorizedIsCurrent'
    BY <1>2, <1>3, <1>4, <1>8, <2>1 DEF AuthorizedIsCurrent
  <2> QED
    BY <1>5, <2>2, <2>4, <2>5, <2>6 DEF BookRest, Knowledge, RevocationHolds
<1> QED
  BY <1>1, <1>9, <1>10

\* The command settles when no handler runs: what it denied has been dropped, or
\* was rejected.
LEMMA RestAfterSettle == BookInv /\ SettleDecision => BookRest'
<1> SUFFICES ASSUME BookInv, SettleDecision PROVE BookRest'
  OBVIOUS
<1> USE DEF BookInv
<1>1. /\ UNCHANGED <<trust, audit, handshake, command, reading, telling, cleared>>
      /\ handshake = {} /\ reading = {} /\ telling = {} /\ cleared = {}
      /\ settling' = {}
  BY DEF SettleDecision, MeshLockFree, vars, stored
<1>2. PICK s \in settling :
        place' = [p \in Peer |->
                   IF Forgets(s.decision) /\ p = s.peer THEN NoReport ELSE place[p]]
  BY DEF SettleDecision
<1>3. \A q \in Peer : LastRejected(q)' = LastRejected(q)
  BY <1>1, RejectionUntouched
<1>4. Exclusion' /\ Knowledge'
  BY <1>1 DEF Exclusion, MeshLockHolds, OneCommand, Knowledge, EntriesAreKnown, CommandKnows,
              SettlingKnows, HelloUnheld
<1>5. AuthorizedIsCurrent'
  BY <1>1 DEF AuthorizedIsCurrent
<1>6. RevokedIsForgotten'
  <2> SUFFICES ASSUME NEW q \in Peer, Held(q)' PROVE trust[q] = "TRUSTED" \/ LastRejected(q)
    BY <1>1, <1>3 DEF RevokedIsForgotten
  <2>1. Held(q) /\ ~(Forgets(s.decision) /\ q = s.peer)
    BY <1>2 DEF Held
  <2>2. CASE DenialUnderWay(q)
    <3>1. q = s.peer /\ Denies(s.decision)
      BY <2>2 DEF DenialUnderWay, Exclusion, OneCommand
    <3>2. s.decision = "REJECT"
      BY <2>1, <3>1 DEF Denies, Target, Forgets, BookTypeOK, Settling, Decision
    <3> QED
      BY <2>1, <3>1, <3>2 DEF Knowledge, SettlingKnows, Gone
  <2> QED
    BY <2>1, <2>2 DEF RevocationHolds, RevokedIsForgotten
<1> QED
  BY <1>4, <1>5, <1>6 DEF BookRest, RevocationHolds

\* The mesh thread takes up the heartbeat of a peer it finds trusted.
LEMMA RestAfterReceive ==
  ASSUME BookInv, NEW h \in flight, ReceiveHeartbeat(h)
  PROVE  BookRest'
<1> USE DEF BookInv
<1>1. /\ UNCHANGED <<trust, audit, handshake, command, settling, place, telling, cleared>>
      /\ handshake = {} /\ cleared = {}
      /\ reading' \subseteq {h} /\ (reading' # {} => trust[h.peer] = "TRUSTED")
  BY DEF ReceiveHeartbeat, MeshLockFree, vars, stored, placed, Permits
<1>2. \A q \in Peer : LastRejected(q)' = LastRejected(q)
  BY <1>1, RejectionUntouched
<1>3. Exclusion'
  BY <1>1 DEF Exclusion, MeshLockHolds, OneCommand
<1>4. Knowledge'
  BY <1>1, <1>2
  DEF Knowledge, EntriesAreKnown, CommandKnows, SettlingKnows, HelloUnheld, Gone, Held,
      BookTypeOK, Settling
<1>5. RevocationHolds'
  BY <1>1, <1>2
  DEF RevocationHolds, RevokedIsForgotten, AuthorizedIsCurrent, DenialUnderWay, Held
<1> QED
  BY <1>3, <1>4, <1>5 DEF BookRest

\* What it puts into the book is about a peer that is trusted still, or whose
\* denial waits for it to end.
LEMMA RestAfterAccept == BookInv /\ Accept => BookRest'
<1> SUFFICES ASSUME BookInv, Accept PROVE BookRest'
  OBVIOUS
<1> USE DEF BookInv
<1>1. PICK h \in reading :
        /\ place' = [place EXCEPT ![h.peer] = IF IsNewer(h.report, @) THEN h.report ELSE @]
        /\ reading' = {}
        /\ UNCHANGED <<trust, audit, handshake, command, settling, telling, cleared>>
  BY DEF Accept, vars, stored
<1>2. h.peer \in Peer /\ handshake = {}
  BY <1>1 DEF BookTypeOK, Heartbeat, Exclusion, MeshLockHolds
<1>3. \A q \in Peer : LastRejected(q)' = LastRejected(q)
  BY <1>1, RejectionUntouched
<1>4. \A q \in Peer : q # h.peer => Held(q)' = Held(q)
  BY <1>1 DEF Held, BookTypeOK
<1>5. trust[h.peer] = "TRUSTED" \/ DenialUnderWay(h.peer)
  BY <1>1 DEF RevocationHolds, AuthorizedIsCurrent
<1>6. Exclusion'
  BY <1>1, <1>2 DEF Exclusion, MeshLockHolds, OneCommand
<1>7. SettlingKnows'
  <2> SUFFICES ASSUME NEW s \in settling
               PROVE  /\ trust[s.peer] # "UNKNOWN"
                      /\ s.decision = "REJECT" =>
                           LastRejected(s.peer)' \/ Gone(s.peer)'
    BY <1>1 DEF SettlingKnows
  <2>1. s.peer \in Peer
    BY DEF BookTypeOK, Settling
  <2>2. Gone(s.peer) => Gone(s.peer)'
    BY <1>1, <1>4, <2>1 DEF Gone
  <2> QED
    BY <1>3, <2>1, <2>2 DEF Knowledge, SettlingKnows
<1>8. EntriesAreKnown' /\ CommandKnows' /\ HelloUnheld'
  BY <1>1, <1>2 DEF Knowledge, EntriesAreKnown, CommandKnows, HelloUnheld
<1>9. \A q \in Peer : DenialUnderWay(q)' = DenialUnderWay(q)
  BY <1>1 DEF DenialUnderWay
<1>10. RevokedIsForgotten'
  <2> SUFFICES ASSUME NEW q \in Peer, Held(q)'
               PROVE  trust[q] = "TRUSTED" \/ DenialUnderWay(q) \/ LastRejected(q)
    BY <1>1, <1>3, <1>9 DEF RevokedIsForgotten
  <2>1. CASE q = h.peer
    BY <1>5, <2>1
  <2>2. CASE q # h.peer
    BY <1>4, <2>2 DEF RevocationHolds, RevokedIsForgotten
  <2> QED
    BY <2>1, <2>2
<1>11. AuthorizedIsCurrent'
  BY <1>1 DEF RevocationHolds, AuthorizedIsCurrent, DenialUnderWay
<1> QED
  BY <1>6, <1>7, <1>8, <1>10, <1>11 DEF BookRest, Knowledge, RevocationHolds

\* A broadcast sends to peers it finds trusted; it writes nothing.
LEMMA RestAfterBroadcast ==
  ASSUME BookInv,
         UNCHANGED <<trust, audit, handshake, command, settling, place, reading>>,
         handshake = {},
         \A p \in cleared' : trust[p] = "TRUSTED"
  PROVE  BookRest'
<1> USE DEF BookInv
<1>1. \A q \in Peer : LastRejected(q)' = LastRejected(q)
  BY RejectionUntouched
<1>2. Exclusion'
  BY DEF Exclusion, MeshLockHolds, OneCommand
<1>3. Knowledge'
  BY <1>1
  DEF Knowledge, EntriesAreKnown, CommandKnows, SettlingKnows, HelloUnheld, Gone, Held,
      BookTypeOK, Settling
<1>4. RevocationHolds'
  BY <1>1
  DEF RevocationHolds, RevokedIsForgotten, AuthorizedIsCurrent, DenialUnderWay, Held
<1> QED
  BY <1>2, <1>3, <1>4 DEF BookRest

\* A restart empties the book and ends whatever was under way.
LEMMA RestAfterRestart == BookInv /\ BookRestart => BookRest'
<1> SUFFICES ASSUME BookInv, BookRestart PROVE BookRest'
  OBVIOUS
<1>1. /\ UNCHANGED <<trust, audit>>
      /\ handshake' = {} /\ command' = {} /\ settling' = {}
      /\ place' = [p \in Peer |-> NoReport]
      /\ reading' = {} /\ telling' = {} /\ cleared' = {}
  BY DEF BookRestart, Restart, stored
<1>2. Exclusion' /\ Knowledge'
  BY <1>1 DEF BookInv, Exclusion, MeshLockHolds, OneCommand, Knowledge, EntriesAreKnown,
              CommandKnows, SettlingKnows, HelloUnheld
<1>3. RevocationHolds'
  BY <1>1 DEF RevocationHolds, RevokedIsForgotten, AuthorizedIsCurrent, Held
<1> QED
  BY <1>2, <1>3 DEF BookRest

-----------------------------------------------------------------------------

\* An empty book satisfies the invariant.
LEMMA BookInvStarts == BookInit => BookInv
<1> SUFFICES ASSUME BookInit PROVE BookInv
  OBVIOUS
<1>1. IInv /\ BookTypeOK
  BY BookStarts
<1>2. DOMAIN audit = {}
  BY DEF BookInit, Init
<1>3. Exclusion /\ Knowledge
  BY <1>2
  DEF BookInit, Init, Exclusion, MeshLockHolds, OneCommand, Knowledge, EntriesAreKnown,
      CommandKnows, SettlingKnows, HelloUnheld
<1>4. RevocationHolds
  BY DEF BookInit, RevocationHolds, RevokedIsForgotten, AuthorizedIsCurrent, Held
<1> QED
  BY <1>1, <1>3, <1>4 DEF BookInv

\* Every step of the book keeps it.
LEMMA BookInvStays == BookInv /\ [BookNext]_bookVars => BookInv'
<1> SUFFICES ASSUME BookInv, [BookNext]_bookVars PROVE BookInv'
  OBVIOUS
<1>1. (IInv /\ BookTypeOK)'
  BY BookStepsTheStore, StepPreserves, BookTypeStep DEF BookInv, IInv
<1> SUFFICES BookRest'
  BY <1>1 DEF BookInv, BookRest
<1>2. ASSUME NEW p \in Peer, Publish(p) \/ PeerRestarts(p) PROVE BookRest'
  BY <1>2, RestUntouched DEF Publish, PeerRestarts, vars, stored
<1>3. ASSUME NEW p \in Peer, RegisterPeer(p), UNCHANGED <<engine, peers, settling>>
      PROVE  BookRest'
  BY <1>3, RestUntouched DEF RegisterPeer
<1>4. ASSUME NEW p \in Peer, ClearRecipient(p) PROVE BookRest'
  <2>1. telling # {} /\ UNCHANGED <<trust, audit, handshake, command, settling, place, reading>>
    BY <1>4 DEF ClearRecipient, vars, stored, placed
  <2>2. handshake = {}
    BY <2>1 DEF BookInv, Exclusion, MeshLockHolds
  <2>3. \A q \in cleared' : trust[q] = "TRUSTED"
    BY <1>4 DEF ClearRecipient, Permits
  <2> QED
    BY <2>1, <2>2, <2>3, RestAfterBroadcast
<1>5. ASSUME NEW links \in SUBSET Peer, Broadcast(links) PROVE BookRest'
  <2>1. /\ UNCHANGED <<trust, audit, handshake, command, settling, place, reading, cleared>>
        /\ handshake = {} /\ cleared = {}
    BY <1>5 DEF Broadcast, MeshLockFree, vars, stored, placed
  <2> QED
    BY <2>1, RestAfterBroadcast
<1>6. ASSUME Tell PROVE BookRest'
  <2>1. /\ UNCHANGED <<trust, audit, handshake, command, settling, place, reading>>
        /\ cleared # {} /\ cleared' = {}
    BY <1>6 DEF Tell, vars, stored, placed
  <2>2. handshake = {}
    BY <2>1 DEF BookInv, Exclusion, MeshLockHolds
  <2> QED
    BY <2>1, <2>2, RestAfterBroadcast
<1>7. CASE UNCHANGED bookVars
  BY <1>7, RestUntouched DEF bookVars, vars, stored
<1> QED
  BY <1>2, <1>3, <1>4, <1>5, <1>6, <1>7, RestAfterReadForHello, RestAfterFinishHello,
     RestAfterStart, RestAfterCommit, RestAfterSettle, RestAfterReceive, RestAfterAccept,
     RestAfterRestart
  DEF BookNext

\* A denial that has returned to the operator leaves nothing behind: no position
\* but that of a rejected peer, and no handler or broadcast that still acts for
\* the peer (revoke_peer, authorize, broadcast_location).
THEOREM RevocationHoldsAlways == BookSpec => []RevocationHolds
<1>1. BookInv => RevocationHolds
  BY DEF BookInv
<1> QED
  BY BookInvStarts, BookInvStays, <1>1, PTL DEF BookSpec

-----------------------------------------------------------------------------
(* Sessions *)

\* A queue tells a well-formed story to one who knows whether a session was open.
TellsStory(queue, before) ==
  \A i \in DOMAIN queue : (queue[i] = "CONNECTED") <=> ~LeavesOpen(queue, i - 1, before)

\* The sessions a queue opens, by place.
Openings(queue) == {i \in DOMAIN queue : queue[i] = "CONNECTED"}

\* What the transport of a node tells, knows and has, and what its engine made of it.  A
\* session is announced by one identify, so no more are on their way to the peer than
\* connections have been opened for.
Sound(n) ==
  /\ TellsStory(inbox[n], Heard(n))
  /\ known[n] <=> LeavesOpen(inbox[n], Len(inbox[n]), Heard(n))
  /\ known[n] => ends[n] # {}
  /\ link[n] # "DISCONNECTED" => nodes[n] = "ONLINE"
  /\ nodes[n] = "ONLINE" => link[n] # "DISCONNECTED" \/ "DISCONNECTED" \in missed[n]
  /\ commands[n] + Cardinality(Openings(inbox[n])) + Cardinality(unidentified[n]) <= opened
  /\ ends[n] \subseteq 1..opened

SessionInv == SessionTypeOK /\ \A n \in Node : Sound(n)

-----------------------------------------------------------------------------
(* Queues of session events.                                               *)

\* What a queue leaves open depends on the events read, and on nothing after them.
LEMMA SameStart ==
  ASSUME NEW queue, NEW other, NEW before, NEW i \in Nat,
         \A k \in 1..i : queue[k] = other[k]
  PROVE  LeavesOpen(queue, i, before) <=> LeavesOpen(other, i, before)
<1>1. ASSUME NEW j \in 0..i
      PROVE  /\ (IF j = 0 THEN before ELSE queue[j] = "CONNECTED")
                  <=> (IF j = 0 THEN before ELSE other[j] = "CONNECTED")
             /\ (\A k \in (j + 1)..i : queue[k] # "DISCONNECTED")
                  <=> (\A k \in (j + 1)..i : other[k] # "DISCONNECTED")
  <2>1. j = 0 \/ j \in 1..i
    OBVIOUS
  <2>2. \A k \in (j + 1)..i : k \in 1..i
    OBVIOUS
  <2> QED
    BY <2>1, <2>2
<1> QED
  BY <1>1, Zenon DEF LeavesOpen

\* An event at the end is the last word, unless it is a message.
LEMMA AppendedLast ==
  ASSUME NEW queue \in Seq(MeshEvent), NEW event \in MeshEvent, NEW before \in BOOLEAN
  PROVE  /\ \A i \in 0..Len(queue) :
              LeavesOpen(Append(queue, event), i, before) <=> LeavesOpen(queue, i, before)
         /\ LeavesOpen(Append(queue, event), Len(queue) + 1, before) <=>
              \/ event = "CONNECTED"
              \/ event = "HELLO" /\ LeavesOpen(queue, Len(queue), before)
         /\ Append(queue, event) \in Seq(MeshEvent)
         /\ Len(Append(queue, event)) = Len(queue) + 1
<1> DEFINE next == Append(queue, event)
           n == Len(queue)
<1>1. /\ n \in Nat /\ next \in Seq(MeshEvent) /\ Len(next) = n + 1
      /\ \A i \in 1..n : next[i] = queue[i]
      /\ next[n + 1] = event
  BY AppendProperties, LenProperties
<1> HIDE DEF next, n
<1>2. \A i \in 0..n : LeavesOpen(next, i, before) <=> LeavesOpen(queue, i, before)
  <2> SUFFICES ASSUME NEW i \in 0..n
               PROVE  LeavesOpen(next, i, before) <=> LeavesOpen(queue, i, before)
    OBVIOUS
  <2>1. i \in Nat /\ \A k \in 1..i : next[k] = queue[k]
    BY <1>1
  <2> QED
    BY <2>1, SameStart
<1>3. LeavesOpen(next, n + 1, before) <=>
        event = "CONNECTED" \/ (event = "HELLO" /\ LeavesOpen(queue, n, before))
  <2>1. CASE event = "CONNECTED"
    <3>1. \A k \in ((n + 1) + 1)..(n + 1) : next[k] # "DISCONNECTED"
      BY <1>1
    <3> QED
      BY <1>1, <2>1, <3>1 DEF LeavesOpen
  <2>2. CASE event = "DISCONNECTED"
    BY <1>1, <2>2 DEF LeavesOpen
  <2>3. CASE event = "HELLO"
    <3>1. ASSUME NEW j \in 0..n
          PROVE  (\A k \in (j + 1)..n : queue[k] # "DISCONNECTED") <=>
                 (\A k \in (j + 1)..(n + 1) : next[k] # "DISCONNECTED")
      BY <1>1, <2>3
    <3>2. \A j \in 0..(n + 1) : next[j] = "CONNECTED" /\ j # 0 => j \in 0..n
      BY <1>1, <2>3
    <3>3. \A j \in 0..n : j \in 0..(n + 1) /\ (j # 0 => next[j] = queue[j])
      BY <1>1
    <3>4. 0 \in 0..n
      BY <1>1
    <3> QED
      BY <2>3, <3>1, <3>2, <3>3, <3>4, Zenon DEF LeavesOpen
  <2> QED
    BY <2>1, <2>2, <2>3 DEF MeshEvent
<1> QED
  BY <1>1, <1>2, <1>3 DEF next, n

\* A story goes on as long as sessions are opened when none is and ended, or heard of,
\* when one is.
LEMMA StoryGoesOn ==
  ASSUME NEW queue \in Seq(MeshEvent), NEW event \in MeshEvent, NEW before \in BOOLEAN,
         TellsStory(queue, before),
         (event = "CONNECTED") <=> ~LeavesOpen(queue, Len(queue), before)
  PROVE  TellsStory(Append(queue, event), before)
<1>1. /\ DOMAIN queue = 1..Len(queue) /\ Len(queue) \in Nat
      /\ DOMAIN Append(queue, event) = 1..(Len(queue) + 1)
      /\ \A i \in 1..Len(queue) : Append(queue, event)[i] = queue[i]
      /\ Append(queue, event)[Len(queue) + 1] = event
  BY AppendProperties, LenProperties
<1> QED
  BY <1>1, AppendedLast DEF TellsStory

\* To read the first event is to know more and to have less left to read.
LEMMA ReadFirst ==
  ASSUME NEW queue \in Seq(MeshEvent), NEW before \in BOOLEAN, queue # <<>>
  PROVE  /\ Tail(queue) \in Seq(MeshEvent) /\ Head(queue) \in MeshEvent
         /\ Len(Tail(queue)) = Len(queue) - 1 /\ Len(queue) \in Nat \ {0}
         /\ LeavesOpen(queue, 1, before) <=>
              \/ Head(queue) = "CONNECTED"
              \/ Head(queue) = "HELLO" /\ before
         /\ \A i \in 0..Len(Tail(queue)) :
              LeavesOpen(Tail(queue), i, LeavesOpen(queue, 1, before))
                <=> LeavesOpen(queue, i + 1, before)
<1> DEFINE rest == Tail(queue)
           n == Len(queue)
<1>1. /\ rest \in Seq(MeshEvent) /\ Head(queue) \in MeshEvent /\ Len(rest) = n - 1
      /\ n \in Nat \ {0} /\ Head(queue) = queue[1]
      /\ \A i \in 1..(n - 1) : rest[i] = queue[i + 1]
  BY HeadTailProperties, EmptySeq
<1> HIDE DEF rest, n
<1> DEFINE first == LeavesOpen(queue, 1, before)
<1>2. first <=> queue[1] = "CONNECTED" \/ (queue[1] = "HELLO" /\ before)
  <2>1. first <=> \/ before /\ queue[1] # "DISCONNECTED"
                  \/ queue[1] = "CONNECTED"
    <3>1. 0..1 = {0, 1} /\ (0 + 1)..1 = {1} /\ (1 + 1)..1 = {}
      OBVIOUS
    <3> QED
      BY <3>1 DEF LeavesOpen
  <2> QED
    BY <1>1, <2>1 DEF MeshEvent
<1>3. ASSUME NEW i \in 0..(n - 1)
      PROVE  LeavesOpen(rest, i, first) <=> LeavesOpen(queue, i + 1, before)
  <2> DEFINE None(j) == \A k \in (j + 1)..(i + 1) : queue[k] # "DISCONNECTED"
  <2>1. ASSUME NEW j \in 0..i
        PROVE  (\A k \in (j + 1)..i : rest[k] # "DISCONNECTED") <=> None(j + 1)
    <3>1. ASSUME \A k \in (j + 1)..i : rest[k] # "DISCONNECTED", NEW k \in (j + 2)..(i + 1)
          PROVE  queue[k] # "DISCONNECTED"
      <4>1. k - 1 \in (j + 1)..i /\ k - 1 \in 1..(n - 1) /\ (k - 1) + 1 = k
        BY <1>1
      <4> QED
        BY <1>1, <3>1, <4>1
    <3>2. ASSUME None(j + 1), NEW k \in (j + 1)..i
          PROVE  rest[k] # "DISCONNECTED"
      <4>1. k + 1 \in (j + 2)..(i + 1) /\ k \in 1..(n - 1)
        BY <1>1
      <4> QED
        BY <1>1, <3>2, <4>1
    <3> QED
      BY <3>1, <3>2
  <2>2. LeavesOpen(rest, i, first) <=>
          \/ first /\ None(1)
          \/ \E j \in 1..i : queue[j + 1] = "CONNECTED" /\ None(j + 1)
    <3>1. \A j \in 1..i : rest[j] = queue[j + 1]
      BY <1>1
    <3> HIDE DEF None, first
    <3>2. \A j \in 0..i : j = 0 \/ j \in 1..i
      OBVIOUS
    <3>3. \A j \in 1..i : j \in 0..i /\ j # 0
      OBVIOUS
    <3>4. 0 \in 0..i /\ 0 + 1 = 1
      OBVIOUS
    <3>5. LeavesOpen(rest, i, first) <=>
            \E j \in 0..i : (IF j = 0 THEN first ELSE rest[j] = "CONNECTED") /\ None(j + 1)
      BY <2>1, Zenon DEF LeavesOpen
    <3> QED
      BY <3>1, <3>2, <3>3, <3>4, <3>5
  <2>3. LeavesOpen(queue, i + 1, before) <=>
          \/ before /\ None(0)
          \/ queue[1] = "CONNECTED" /\ None(1)
          \/ \E j \in 1..i : queue[j + 1] = "CONNECTED" /\ None(j + 1)
    <3>1. \A j \in 0..(i + 1) : j = 0 \/ j = 1 \/ (j - 1 \in 1..i /\ (j - 1) + 1 = j)
      OBVIOUS
    <3>2. \A j \in 1..i : j + 1 \in 0..(i + 1)
      OBVIOUS
    <3>3. LeavesOpen(queue, i + 1, before) <=>
            \E j \in 0..(i + 1) : (IF j = 0 THEN before ELSE queue[j] = "CONNECTED") /\ None(j)
      BY DEF LeavesOpen
    <3> HIDE DEF None
    <3> QED
      BY <3>1, <3>2, <3>3
  <2>4. None(0) <=> queue[1] # "DISCONNECTED" /\ None(1)
    <3>1. \A k \in 1..(i + 1) : k = 1 \/ k \in 2..(i + 1)
      OBVIOUS
    <3> QED
      BY <3>1
  <2> HIDE DEF None, first
  <2> QED
    BY <1>1, <1>2, <2>2, <2>3, <2>4 DEF MeshEvent
<1> QED
  BY <1>1, <1>2, <1>3 DEF rest, n

\* What is left of a story is one, to the reader of its first event.
LEMMA RestOfStory ==
  ASSUME NEW queue \in Seq(MeshEvent), NEW before \in BOOLEAN, queue # <<>>,
         TellsStory(queue, before)
  PROVE  /\ (Head(queue) = "CONNECTED") <=> ~before
         /\ TellsStory(Tail(queue), LeavesOpen(queue, 1, before))
<1>1. /\ DOMAIN queue = 1..Len(queue) /\ Len(queue) \in Nat \ {0}
      /\ DOMAIN Tail(queue) = 1..(Len(queue) - 1)
      /\ Head(queue) = queue[1]
      /\ \A i \in 1..(Len(queue) - 1) : Tail(queue)[i] = queue[i + 1]
  BY HeadTailProperties, LenProperties, EmptySeq
<1>2. LeavesOpen(queue, 0, before) <=> before
  <2>1. 0..0 = {0} /\ (0 + 1)..0 = {}
    OBVIOUS
  <2> QED
    BY <2>1 DEF LeavesOpen
<1>3. (Head(queue) = "CONNECTED") <=> ~before
  BY <1>1, <1>2 DEF TellsStory
<1>4. ASSUME NEW i \in DOMAIN Tail(queue)
      PROVE  (Tail(queue)[i] = "CONNECTED") <=>
               ~LeavesOpen(Tail(queue), i - 1, LeavesOpen(queue, 1, before))
  <2>1. /\ i - 1 \in 0..Len(Tail(queue)) /\ (i - 1) + 1 = i
        /\ i + 1 \in DOMAIN queue /\ (i + 1) - 1 = i
    BY <1>1, ReadFirst
  <2>2. LeavesOpen(Tail(queue), i - 1, LeavesOpen(queue, 1, before))
          <=> LeavesOpen(queue, i, before)
    BY <2>1, ReadFirst
  <2> QED
    BY <1>1, <2>1, <2>2 DEF TellsStory
<1> QED
  BY <1>3, <1>4 DEF TellsStory

\* One more element is one more at most.
LEMMA OneMore ==
  ASSUME NEW S, NEW x, IsFiniteSet(S)
  PROVE  /\ Cardinality(S \cup {x}) \in Nat /\ Cardinality(S) \in Nat
         /\ Cardinality(S \cup {x}) <= Cardinality(S) + 1
         /\ x \notin S => Cardinality(S \cup {x}) = Cardinality(S) + 1
<1>1. Cardinality(S) \in Nat
  BY FS_CardinalityType
<1>2. CASE x \in S
  <2>1. S \cup {x} = S
    BY <1>2
  <2>2. Cardinality(S \cup {x}) = Cardinality(S)
    BY <2>1, Zenon
  <2> QED
    BY <1>1, <1>2, <2>2
<1>3. CASE x \notin S
  <2>1. Cardinality(S \cup {x}) = Cardinality(S) + 1
    BY <1>3, FS_AddElement
  <2> QED
    BY <1>1, <1>3, <2>1
<1> QED
  BY <1>2, <1>3

\* Openings are counted: one more if it is appended, ...
LEMMA OpeningsOfAppend ==
  ASSUME NEW queue \in Seq(MeshEvent), NEW event \in MeshEvent
  PROVE  /\ IsFiniteSet(Openings(queue)) /\ Cardinality(Openings(queue)) \in Nat
         /\ Cardinality(Openings(Append(queue, event))) =
              Cardinality(Openings(queue)) + IF event = "CONNECTED" THEN 1 ELSE 0
<1>1. /\ DOMAIN queue = 1..Len(queue) /\ Len(queue) \in Nat
      /\ DOMAIN Append(queue, event) = 1..(Len(queue) + 1)
      /\ \A i \in 1..Len(queue) : Append(queue, event)[i] = queue[i]
      /\ Append(queue, event)[Len(queue) + 1] = event
  BY AppendProperties, LenProperties
<1>2. IsFiniteSet(Openings(queue)) /\ Cardinality(Openings(queue)) \in Nat
  <2>1. Openings(queue) \in SUBSET (1..Len(queue))
    BY <1>1 DEF Openings
  <2>2. IsFiniteSet(1..Len(queue))
    BY <1>1, FS_Interval
  <2>3. IsFiniteSet(Openings(queue))
    BY <2>1, <2>2, FS_Subset
  <2> QED
    BY <2>3, FS_CardinalityType
<1>3. Openings(Append(queue, event)) =
        IF event = "CONNECTED" THEN Openings(queue) \cup {Len(queue) + 1} ELSE Openings(queue)
  BY <1>1 DEF Openings
<1>4. Len(queue) + 1 \notin Openings(queue)
  BY <1>1 DEF Openings
<1>5. Cardinality(Openings(queue) \cup {Len(queue) + 1}) = Cardinality(Openings(queue)) + 1
  BY <1>2, <1>4, OneMore
<1> QED
  BY <1>2, <1>3, <1>5

\* ... and one less once it is read.
LEMMA OpeningsOfTail ==
  ASSUME NEW queue \in Seq(MeshEvent), queue # <<>>
  PROVE  /\ Cardinality(Openings(Tail(queue))) \in Nat
         /\ Cardinality(Openings(Tail(queue))) + (IF Head(queue) = "CONNECTED" THEN 1 ELSE 0)
              <= Cardinality(Openings(queue))
<1> DEFINE later == Openings(queue) \ {1}
           back == [i \in later |-> i - 1]
<1>1. /\ DOMAIN queue = 1..Len(queue) /\ Len(queue) \in Nat \ {0}
      /\ Tail(queue) \in Seq(MeshEvent)
      /\ DOMAIN Tail(queue) = 1..(Len(queue) - 1)
      /\ Head(queue) = queue[1]
      /\ \A i \in 1..(Len(queue) - 1) : Tail(queue)[i] = queue[i + 1]
  BY HeadTailProperties, LenProperties, EmptySeq
<1>2. /\ IsFiniteSet(Openings(queue)) /\ Cardinality(Openings(queue)) \in Nat
      /\ Cardinality(Openings(Tail(queue))) \in Nat
  BY <1>1, OpeningsOfAppend DEF MeshEvent
<1>3. back \in Surjection(later, Openings(Tail(queue)))
  <2>1. \A i \in later : i - 1 \in Openings(Tail(queue))
    BY <1>1 DEF Openings
  <2>2. \A k \in Openings(Tail(queue)) : k + 1 \in later /\ (k + 1) - 1 = k
    BY <1>1 DEF Openings
  <2> QED
    BY <2>1, <2>2 DEF Surjection
<1>4. IsFiniteSet(later) /\ Cardinality(later) =
        IF 1 \in Openings(queue) THEN Cardinality(Openings(queue)) - 1
                                 ELSE Cardinality(Openings(queue))
  BY <1>2, FS_RemoveElement
<1>5. Cardinality(Openings(Tail(queue))) <= Cardinality(later)
  <2> HIDE DEF later, back
  <2> QED
    BY <1>3, <1>4, FS_Surjection
<1>6. 1 \in Openings(queue) <=> Head(queue) = "CONNECTED"
  BY <1>1 DEF Openings
<1> QED
  BY <1>2, <1>4, <1>5, <1>6

-----------------------------------------------------------------------------
(* The steps.                                                              *)

\* The connections that await identify are counted.
LEMMA UnidentifiedFinite ==
  ASSUME SessionTypeOK, NEW n \in Node
  PROVE  /\ IsFiniteSet(unidentified[n]) /\ Cardinality(unidentified[n]) \in Nat
         /\ IsFiniteSet(ends[n])
<1>1. IsFiniteSet(Conn)
  BY SessionBounds, FS_Interval DEF Conn
<1>2. unidentified[n] \in SUBSET Conn /\ ends[n] \in SUBSET Conn
  BY DEF SessionTypeOK
<1> QED
  BY <1>1, <1>2, FS_Subset, FS_CardinalityType

\* The other node, whatever happens to this one.
LEMMA OtherUntouched ==
  ASSUME SessionTypeOK, NEW p \in Node, Sound(p), opened' = opened,
         inbox'[p] = inbox[p], known'[p] = known[p], ends'[p] = ends[p],
         unidentified'[p] = unidentified[p], commands'[p] = commands[p],
         link'[p] = link[p], nodes'[p] = nodes[p], missed'[p] = missed[p]
  PROVE  Sound(p)'
<1>1. Heard(p)' = Heard(p)
  BY DEF Heard
<1> QED
  BY <1>1 DEF Sound

\* There is a peer, and it is a node.
LEMMA OtherIsNode == \A n \in Node : Other(n) \in Node /\ Other(n) # n
  BY SessionBounds DEF Other

\* A dial concerns nobody yet.
LEMMA DialKeepsInv ==
  ASSUME SessionInv, NEW n \in Node, Dial(n)
  PROVE  SessionInv'
<1>1. SessionTypeOK'
  BY DEF SessionInv, SessionTypeOK, Dial, core, rows
<1>2. \A p \in Node : Sound(p)'
  BY OtherUntouched DEF SessionInv, Dial, core, rows
<1> QED
  BY <1>1, <1>2 DEF SessionInv

\* A connection has both its ends at once, unidentified.
LEMMA EstablishKeepsInv ==
  ASSUME SessionInv, NEW n \in Node, Establish(n)
  PROVE  SessionInv'
<1> DEFINE c == opened + 1
<1>1. /\ opened \in Nat /\ c \in Conn /\ opened' = c /\ opened' \in 0..MaxConn
      /\ UNCHANGED <<life, known, inbox, commands, link, nodes, missed, wire, faults>>
  BY SessionBounds DEF SessionInv, SessionTypeOK, Establish, core, rows, Conn
<1>2. \A p \in Node : /\ ends'[p] = ends[p] \cup {c}
                      /\ unidentified'[p] = unidentified[p] \cup {c}
  BY DEF Establish
<1>3. SessionTypeOK'
  <2>1. ends' \in [Node -> SUBSET Conn] /\ unidentified' \in [Node -> SUBSET Conn]
    BY <1>1 DEF SessionInv, SessionTypeOK, Establish
  <2>2. dialing' \in [Node -> BOOLEAN]
    BY DEF SessionInv, SessionTypeOK, Establish
  <2> QED
    BY <1>1, <1>2, <2>1, <2>2 DEF SessionInv, SessionTypeOK
<1>4. ASSUME NEW p \in Node PROVE Sound(p)'
  <2>1. Cardinality(unidentified'[p]) <= Cardinality(unidentified[p]) + 1
        /\ Cardinality(unidentified'[p]) \in Nat /\ Cardinality(unidentified[p]) \in Nat
    <3>1. IsFiniteSet(unidentified[p]) /\ Cardinality(unidentified[p]) \in Nat
      BY UnidentifiedFinite DEF SessionInv
    <3>2. /\ Cardinality(unidentified[p] \cup {c}) \in Nat
          /\ Cardinality(unidentified[p] \cup {c}) <= Cardinality(unidentified[p]) + 1
      <4> HIDE DEF c
      <4> QED
        BY <3>1, OneMore
    <3> QED
      BY <1>2, <3>1, <3>2
  <2>2. Cardinality(Openings(inbox[p])) \in Nat /\ commands[p] \in Nat
    <3>1. inbox[p] \in Seq(MeshEvent) /\ commands[p] \in Nat
      BY SessionBounds DEF SessionInv, SessionTypeOK
    <3>2. "CONNECTED" \in MeshEvent
      BY DEF MeshEvent
    <3> QED
      BY <3>1, <3>2, OpeningsOfAppend
  <2>3. commands'[p] + Cardinality(Openings(inbox'[p])) + Cardinality(unidentified'[p]) <= opened'
    BY <1>1, <2>1, <2>2, SMTT(30) DEF SessionInv, Sound
  <2>4. ends'[p] \subseteq 1..opened' /\ ends'[p] # {}
    BY <1>1, <1>2 DEF SessionInv, Sound
  <2>5. Heard(p)' = Heard(p)
    BY <1>1 DEF Heard
  <2> HIDE DEF c
  <2> QED
    BY <1>1, <2>3, <2>4, <2>5 DEF SessionInv, Sound
<1> QED
  BY <1>3, <1>4 DEF SessionInv

\* The first identify of a peer is announced; the connection awaits none any more.
LEMMA IdentifyKeepsInv ==
  ASSUME SessionInv, NEW n \in Node, NEW c \in Conn, Identify(n, c)
  PROVE  SessionInv'
<1>1. /\ c \in unidentified[n] /\ unidentified'[n] = unidentified[n] \ {c}
      /\ known'[n] = TRUE /\ known[n] \in BOOLEAN /\ inbox[n] \in Seq(MeshEvent)
      /\ inbox'[n] = IF known[n] THEN inbox[n] ELSE Append(inbox[n], "CONNECTED")
      /\ UNCHANGED <<life, dialing, ends, commands, wire, link, nodes, missed, opened, faults>>
      /\ \A p \in Node \ {n} : /\ unidentified'[p] = unidentified[p]
                              /\ known'[p] = known[p] /\ inbox'[p] = inbox[p]
  BY DEF SessionInv, SessionTypeOK, Identify, Announces, Surface, rows
<1>2. SessionTypeOK'
  <2>1. unidentified' \in [Node -> SUBSET Conn] /\ known' \in [Node -> BOOLEAN]
    BY DEF SessionInv, SessionTypeOK, Identify
  <2>2. inbox' \in [Node -> Seq(MeshEvent)]
    <3>1. Append(inbox[n], "CONNECTED") \in Seq(MeshEvent)
      BY <1>1, AppendProperties DEF MeshEvent
    <3> QED
      BY <3>1 DEF SessionInv, SessionTypeOK, Identify, Surface
  <2>3. \A p \in Node : unidentified'[p] \subseteq ends[p]
    BY <1>1 DEF SessionInv, SessionTypeOK
  <2> QED
    BY <1>1, <2>1, <2>2, <2>3 DEF SessionInv, SessionTypeOK
<1>3. Sound(n)'
  <2>1. Heard(n) \in BOOLEAN /\ Heard(n)' = Heard(n)
    BY <1>1 DEF Heard
  <2>2. /\ Cardinality(unidentified'[n]) = Cardinality(unidentified[n]) - 1
        /\ Cardinality(unidentified[n]) \in Nat
    BY <1>1, UnidentifiedFinite, FS_RemoveElement DEF SessionInv
  <2>3. ends[n] # {}
    BY <1>1 DEF SessionInv, SessionTypeOK
  <2>4. commands[n] \in Nat /\ opened \in Nat
    BY SessionBounds DEF SessionInv, SessionTypeOK
  <2>5. Sound(n)
    BY DEF SessionInv
  <2>6. CASE known[n]
    <3>1. Cardinality(Openings(inbox[n])) \in Nat
      BY <1>1, OpeningsOfAppend DEF MeshEvent
    <3>2. inbox'[n] = inbox[n]
      BY <1>1, <2>6
    <3> QED
      BY <1>1, <2>1, <2>2, <2>3, <2>4, <2>5, <2>6, <3>1, <3>2, SMTT(30) DEF Sound
  <2>7. CASE ~known[n]
    <3>1. inbox'[n] = Append(inbox[n], "CONNECTED")
      BY <1>1, <2>7
    <3>2. TellsStory(inbox[n], Heard(n)) /\ ~LeavesOpen(inbox[n], Len(inbox[n]), Heard(n))
      BY <2>5, <2>7 DEF Sound
    <3>3. TellsStory(Append(inbox[n], "CONNECTED"), Heard(n))
      BY <1>1, <2>1, <3>2, StoryGoesOn DEF MeshEvent
    <3>4. /\ LeavesOpen(Append(inbox[n], "CONNECTED"), Len(inbox[n]) + 1, Heard(n))
          /\ Len(Append(inbox[n], "CONNECTED")) = Len(inbox[n]) + 1
      BY <1>1, <2>1, AppendedLast DEF MeshEvent
    <3>5. /\ Cardinality(Openings(Append(inbox[n], "CONNECTED"))) =
                Cardinality(Openings(inbox[n])) + 1
          /\ Cardinality(Openings(inbox[n])) \in Nat
      BY <1>1, OpeningsOfAppend DEF MeshEvent
    <3>6. commands'[n] + Cardinality(Openings(inbox'[n])) + Cardinality(unidentified'[n])
            <= opened'
      BY <1>1, <2>2, <2>4, <2>5, <3>1, <3>5, SMTT(30) DEF Sound
    <3> QED
      BY <1>1, <2>1, <2>3, <2>5, <3>1, <3>3, <3>4, <3>6 DEF Sound
  <2> QED
    BY <1>1, <2>6, <2>7
<1>4. \A p \in Node \ {n} : Sound(p)'
  BY <1>1, OtherUntouched DEF SessionInv
<1> QED
  BY <1>2, <1>3, <1>4 DEF SessionInv

\* A HELLO goes on a connection, or waits for one.
LEMMA TransmitKeepsInv ==
  ASSUME SessionInv, NEW n \in Node, Transmit(n)
  PROVE  SessionInv'
<1>1. /\ UNCHANGED <<life, ends, unidentified, known, inbox, link, nodes, missed, opened, faults>>
      /\ commands[n] \in Nat /\ commands[n] > 0
      /\ commands' \in [Node -> 0..MaxConn] /\ commands'[n] <= commands[n]
      /\ \A p \in Node \ {n} : commands'[p] = commands[p]
  BY SessionBounds DEF SessionInv, SessionTypeOK, Transmit, rows
<1>2. SessionTypeOK'
  <2>1. dialing' \in [Node -> BOOLEAN]
    BY DEF SessionInv, SessionTypeOK, Transmit
  <2>2. wire' \subseteq OnWire
    BY OtherIsNode DEF SessionInv, SessionTypeOK, Transmit, OnWire
  <2> QED
    BY <1>1, <2>1, <2>2 DEF SessionInv, SessionTypeOK
<1>3. Sound(n)'
  <2>1. Heard(n)' = Heard(n)
    BY <1>1 DEF Heard
  <2>2. Cardinality(unidentified[n]) \in Nat /\ Cardinality(Openings(inbox[n])) \in Nat
    BY UnidentifiedFinite, OpeningsOfAppend DEF SessionInv, SessionTypeOK, MeshEvent
  <2>3. commands'[n] \in Nat /\ opened \in Nat
    BY <1>1, SessionBounds DEF SessionInv, SessionTypeOK
  <2> QED
    BY <1>1, <2>1, <2>2, <2>3 DEF SessionInv, Sound
<1>4. \A p \in Node \ {n} : Sound(p)'
  BY <1>1, OtherUntouched DEF SessionInv
<1> QED
  BY <1>2, <1>3, <1>4 DEF SessionInv

\* A HELLO is handed up while its sender is known, so while its session is open.
LEMMA DeliverKeepsInv ==
  ASSUME SessionInv, NEW m \in wire, Deliver(m)
  PROVE  SessionInv'
<1> DEFINE n == m.to
<1>1. m \in OnWire /\ n \in Node
  BY DEF SessionInv, SessionTypeOK, OnWire
<1>2. /\ UNCHANGED <<life, dialing, ends, unidentified, known, commands, link, nodes, missed,
                      opened, faults>>
      /\ wire' \subseteq wire
      /\ known[n] \in BOOLEAN /\ inbox[n] \in Seq(MeshEvent)
      /\ inbox'[n] = IF known[n] THEN Append(inbox[n], "HELLO") ELSE inbox[n]
      /\ \A p \in Node \ {n} : inbox'[p] = inbox[p]
  BY <1>1 DEF SessionInv, SessionTypeOK, Deliver, Admits, Surface, rows, swarm
<1>3. SessionTypeOK'
  <2>1. inbox' \in [Node -> Seq(MeshEvent)]
    <3>1. Append(inbox[n], "HELLO") \in Seq(MeshEvent)
      BY <1>2, AppendProperties DEF MeshEvent
    <3> QED
      BY <1>1, <3>1 DEF SessionInv, SessionTypeOK, Deliver, Surface
  <2> QED
    BY <1>2, <2>1 DEF SessionInv, SessionTypeOK
<1> HIDE DEF n
<1>4. Sound(n)'
  <2>1. Heard(n) \in BOOLEAN /\ Heard(n)' = Heard(n)
    BY <1>2 DEF Heard, n
  <2>2. Sound(n)
    BY <1>1 DEF SessionInv
  <2>3. CASE known[n]
    <3>1. inbox'[n] = Append(inbox[n], "HELLO")
      BY <1>2, <2>3
    <3>2. TellsStory(inbox[n], Heard(n)) /\ LeavesOpen(inbox[n], Len(inbox[n]), Heard(n))
      BY <2>2, <2>3 DEF Sound
    <3>3. TellsStory(Append(inbox[n], "HELLO"), Heard(n))
      BY <1>2, <2>1, <3>2, StoryGoesOn DEF MeshEvent
    <3>4. /\ LeavesOpen(Append(inbox[n], "HELLO"), Len(inbox[n]) + 1, Heard(n))
          /\ Len(Append(inbox[n], "HELLO")) = Len(inbox[n]) + 1
      BY <1>2, <2>1, <3>2, AppendedLast DEF MeshEvent
    <3>5. Cardinality(Openings(Append(inbox[n], "HELLO"))) = Cardinality(Openings(inbox[n]))
      BY <1>2, OpeningsOfAppend DEF MeshEvent
    <3> QED
      BY <1>2, <2>1, <2>2, <2>3, <3>1, <3>3, <3>4, <3>5 DEF Sound
  <2>4. CASE ~known[n]
    <3>1. inbox'[n] = inbox[n]
      BY <1>2, <2>4
    <3> QED
      BY <1>2, <2>1, <2>2, <3>1 DEF Sound
  <2> QED
    BY <1>2, <2>3, <2>4
<1>5. \A p \in Node \ {n} : Sound(p)'
  BY <1>2, OtherUntouched DEF SessionInv
<1> QED
  BY <1>3, <1>4, <1>5 DEF SessionInv

\* The last connection takes the session of an identified peer with it, and no other does.
LEMMA CloseKeepsInv ==
  ASSUME SessionInv, NEW n \in Node, NEW c \in Conn, ConnectionClosed(n, c)
  PROVE  SessionInv'
<1> DEFINE over == ends[n] = {c} /\ known[n]
<1>1. /\ UNCHANGED <<life, dialing, commands, link, nodes, missed, opened>>
      /\ ends'[n] = ends[n] \ {c} /\ unidentified'[n] = unidentified[n] \ {c}
      /\ known[n] \in BOOLEAN /\ inbox[n] \in Seq(MeshEvent)
      /\ known'[n] = IF over THEN FALSE ELSE known[n]
      /\ inbox'[n] = IF over THEN Append(inbox[n], "DISCONNECTED") ELSE inbox[n]
      /\ \A p \in Node \ {n} : /\ unidentified'[p] = unidentified[p] /\ ends'[p] = ends[p]
                              /\ known'[p] = known[p] /\ inbox'[p] = inbox[p]
      /\ wire' \subseteq wire /\ faults' \in 0..MaxFaults
  <2>1. /\ UNCHANGED <<life, dialing, commands, link, nodes, missed, opened>>
        /\ ends' = [ends EXCEPT ![n] = @ \ {c}]
        /\ unidentified' = [unidentified EXCEPT ![n] = @ \ {c}]
        /\ wire' \subseteq wire /\ faults' \in 0..MaxFaults
    BY SessionBounds DEF SessionInv, SessionTypeOK, ConnectionClosed, rows
  <2>2. /\ ends \in [Node -> SUBSET Conn] /\ unidentified \in [Node -> SUBSET Conn]
        /\ known \in [Node -> BOOLEAN] /\ inbox \in [Node -> Seq(MeshEvent)]
    BY DEF SessionInv, SessionTypeOK
  <2>3. CASE over
    <3>1. /\ known' = [known EXCEPT ![n] = FALSE]
          /\ inbox' = [inbox EXCEPT ![n] = Append(@, "DISCONNECTED")]
      BY <2>3 DEF ConnectionClosed, LastOne, Surface
    <3> QED
      BY <2>1, <2>2, <2>3, <3>1
  <2>4. CASE ~over
    <3>1. known' = known /\ inbox' = inbox
      BY <2>4 DEF ConnectionClosed, LastOne
    <3> QED
      BY <2>1, <2>2, <2>4, <3>1
  <2> QED
    BY <2>3, <2>4
<1>2. SessionTypeOK'
  <2>1. /\ ends' \in [Node -> SUBSET Conn] /\ unidentified' \in [Node -> SUBSET Conn]
        /\ known' \in [Node -> BOOLEAN]
    BY DEF SessionInv, SessionTypeOK, ConnectionClosed
  <2>2. inbox' \in [Node -> Seq(MeshEvent)]
    <3>1. Append(inbox[n], "DISCONNECTED") \in Seq(MeshEvent)
      BY <1>1, AppendProperties DEF MeshEvent
    <3>2. inbox \in [Node -> Seq(MeshEvent)]
      BY DEF SessionInv, SessionTypeOK
    <3>3. inbox' = inbox \/ inbox' = [inbox EXCEPT ![n] = Append(@, "DISCONNECTED")]
      BY DEF ConnectionClosed, Surface
    <3> QED
      BY <3>1, <3>2, <3>3
  <2>3. \A p \in Node : unidentified'[p] \subseteq ends'[p]
    BY <1>1 DEF SessionInv, SessionTypeOK
  <2> QED
    BY <1>1, <2>1, <2>2, <2>3 DEF SessionInv, SessionTypeOK
<1> HIDE DEF over
<1>3. Sound(n)'
  <2>1. Heard(n) \in BOOLEAN /\ Heard(n)' = Heard(n)
    BY <1>1 DEF Heard
  <2>2. Sound(n)
    BY DEF SessionInv
  <2>3. /\ Cardinality(unidentified'[n]) <= Cardinality(unidentified[n])
        /\ Cardinality(unidentified'[n]) \in Nat /\ Cardinality(unidentified[n]) \in Nat
    <3>1. IsFiniteSet(unidentified[n]) /\ unidentified'[n] \in SUBSET unidentified[n]
      BY <1>1, UnidentifiedFinite DEF SessionInv
    <3> QED
      BY <3>1, FS_Subset, FS_CardinalityType
  <2>4. ends'[n] \subseteq 1..opened'
    BY <1>1, <2>2 DEF Sound
  <2>5. Cardinality(Openings(inbox'[n])) = Cardinality(Openings(inbox[n]))
        /\ Cardinality(Openings(inbox[n])) \in Nat
    BY <1>1, OpeningsOfAppend DEF MeshEvent
  <2>6. commands'[n] + Cardinality(Openings(inbox'[n])) + Cardinality(unidentified'[n]) <= opened'
    <3>1. commands[n] \in Nat /\ opened \in Nat
      BY SessionBounds DEF SessionInv, SessionTypeOK
    <3> QED
      BY <1>1, <2>2, <2>3, <2>5, <3>1 DEF Sound
  <2>7. CASE over
    <3>1. inbox'[n] = Append(inbox[n], "DISCONNECTED") /\ ~known'[n] /\ known[n]
      BY <1>1, <2>7 DEF over
    <3>2. TellsStory(inbox[n], Heard(n)) /\ LeavesOpen(inbox[n], Len(inbox[n]), Heard(n))
      BY <2>2, <3>1 DEF Sound
    <3>3. TellsStory(Append(inbox[n], "DISCONNECTED"), Heard(n))
      BY <1>1, <2>1, <3>2, StoryGoesOn DEF MeshEvent
    <3>4. /\ ~LeavesOpen(Append(inbox[n], "DISCONNECTED"), Len(inbox[n]) + 1, Heard(n))
          /\ Len(Append(inbox[n], "DISCONNECTED")) = Len(inbox[n]) + 1
      BY <1>1, <2>1, AppendedLast DEF MeshEvent
    <3> QED
      BY <1>1, <2>1, <2>2, <2>4, <2>6, <3>1, <3>3, <3>4 DEF Sound
  <2>8. CASE ~over
    <3>1. inbox'[n] = inbox[n] /\ known'[n] = known[n]
      BY <1>1, <2>8
    <3>2. known'[n] => ends'[n] # {}
      BY <1>1, <2>2, <2>8, <3>1 DEF Sound, over
    <3> QED
      BY <1>1, <2>1, <2>2, <2>4, <2>6, <3>1, <3>2 DEF Sound
  <2> QED
    BY <2>7, <2>8
<1>4. \A p \in Node \ {n} : Sound(p)'
  BY <1>1, OtherUntouched DEF SessionInv
<1> QED
  BY <1>2, <1>3, <1>4 DEF SessionInv

\* What the engine makes of an event, or fails to, is what it has heard: the rest of the
\* story goes on from there.
LEMMA PollKeepsInv ==
  ASSUME SessionInv, NEW n \in Node, Poll(n)
  PROVE  SessionInv'
<1> DEFINE event == Head(inbox[n])
<1>1. /\ UNCHANGED <<life, dialing, ends, unidentified, known, wire, opened>>
      /\ inbox[n] \in Seq(MeshEvent) /\ inbox[n] # <<>>
      /\ inbox'[n] = Tail(inbox[n])
      /\ \A p \in Node \ {n} : inbox'[p] = inbox[p]
  BY DEF SessionInv, SessionTypeOK, Poll, Drained, swarm
<1>2. /\ event \in MeshEvent /\ Tail(inbox[n]) \in Seq(MeshEvent)
      /\ inbox' \in [Node -> Seq(MeshEvent)]
  <2>1. event \in MeshEvent /\ Tail(inbox[n]) \in Seq(MeshEvent)
    BY <1>1, ReadFirst
  <2> QED
    BY <2>1 DEF SessionInv, SessionTypeOK, Poll, Drained
<1>3. Handle(n, event) \/ FailToHandle(n, event)
  BY DEF Poll
<1> HIDE DEF event
<1>4. /\ link' \in [Node -> {"DISCONNECTED", "CONNECTED", "AUTHENTICATED"}]
      /\ nodes' \in [Node -> NodeStatus]
      /\ missed' \in [Node -> SUBSET {"CONNECTED", "DISCONNECTED"}]
      /\ faults' \in 0..MaxFaults
      /\ \A p \in Node \ {n} : /\ link'[p] = link[p] /\ nodes'[p] = nodes[p]
                              /\ missed'[p] = missed[p] /\ commands'[p] = commands[p]
  <2>1. CASE Handle(n, event)
    <3>1. \A p \in Node \ {n} : /\ link'[p] = link[p] /\ nodes'[p] = nodes[p]
                               /\ missed'[p] = missed[p] /\ commands'[p] = commands[p]
      BY <2>1 DEF SessionInv, SessionTypeOK, Handle
    <3>2. NextLink(link[n], event) \in {"DISCONNECTED", "CONNECTED", "AUTHENTICATED"}
      BY <1>2 DEF SessionInv, SessionTypeOK, NextLink, MeshEvent
    <3>3. NextRow(nodes[n], event) \in NodeStatus
      BY <1>2 DEF SessionInv, SessionTypeOK, NextRow, MeshEvent, NodeStatus
    <3> QED
      BY <2>1, <3>1, <3>2, <3>3 DEF SessionInv, SessionTypeOK, Handle
  <2>2. CASE FailToHandle(n, event)
    BY <1>2, <2>2, SessionBounds, SMTT(30)
       DEF SessionInv, SessionTypeOK, FailToHandle, MeshEvent
  <2> QED
    BY <1>3, <2>1, <2>2
<1>5. /\ Heard(n) \in BOOLEAN
      /\ Heard(n)' <=> event = "CONNECTED" \/ (event = "HELLO" /\ Heard(n))
      /\ link'[n] # "DISCONNECTED" => nodes'[n] = "ONLINE"
      /\ nodes'[n] = "ONLINE" => link'[n] # "DISCONNECTED" \/ "DISCONNECTED" \in missed'[n]
  <2>1. Heard(n) \in BOOLEAN
    BY DEF Heard
  <2>2. /\ link[n] # "DISCONNECTED" => nodes[n] = "ONLINE"
        /\ nodes[n] = "ONLINE" => link[n] # "DISCONNECTED" \/ "DISCONNECTED" \in missed[n]
    BY DEF SessionInv, Sound
  <2>3. CASE Handle(n, event)
    <3>1. /\ link'[n] = NextLink(link[n], event) /\ nodes'[n] = NextRow(nodes[n], event)
          /\ missed'[n] = IF event = "HELLO" THEN missed[n] ELSE {}
      BY <2>3 DEF SessionInv, SessionTypeOK, Handle
    <3> QED
      BY <1>2, <2>1, <2>2, <3>1 DEF Heard, NextLink, NextRow, MeshEvent
  <2>4. CASE FailToHandle(n, event)
    <3>1. /\ link'[n] = IF event = "DISCONNECTED" THEN "DISCONNECTED" ELSE link[n]
          /\ nodes'[n] = nodes[n]
          /\ event = "CONNECTED" => missed'[n] = missed[n] \cup {"CONNECTED"}
          /\ event = "DISCONNECTED" => missed'[n] = {"DISCONNECTED"}
          /\ event = "HELLO" => missed'[n] = missed[n]
      BY <2>4 DEF SessionInv, SessionTypeOK, FailToHandle
    <3> QED
      BY <1>2, <2>1, <2>2, <3>1 DEF Heard, MeshEvent
  <2> QED
    BY <1>3, <2>3, <2>4, <2>1
<1>6. /\ commands'[n] \in Nat /\ commands[n] \in Nat
      /\ commands'[n] <= commands[n] + IF event = "CONNECTED" THEN 1 ELSE 0
      /\ DOMAIN commands' = Node /\ commands' = [p \in Node |-> commands'[p]]
  BY <1>3, SessionBounds DEF SessionInv, SessionTypeOK, Handle, FailToHandle
<1>7. commands'[n] + Cardinality(Openings(inbox'[n])) + Cardinality(unidentified'[n]) <= opened'
  <2>1. /\ Cardinality(Openings(Tail(inbox[n]))) \in Nat
        /\ Cardinality(Openings(Tail(inbox[n]))) + (IF event = "CONNECTED" THEN 1 ELSE 0)
             <= Cardinality(Openings(inbox[n]))
    BY <1>1, OpeningsOfTail DEF event
  <2>2. Cardinality(Openings(inbox[n])) \in Nat /\ Cardinality(unidentified[n]) \in Nat
    BY <1>1, OpeningsOfAppend, UnidentifiedFinite DEF SessionInv, MeshEvent
  <2>3. opened \in Nat
    BY SessionBounds DEF SessionInv, SessionTypeOK
  <2> QED
    BY <1>1, <1>6, <2>1, <2>2, <2>3 DEF SessionInv, Sound
<1>8. SessionTypeOK'
  <2>1. commands'[n] \in 0..MaxConn
    <3>1. /\ Cardinality(Openings(inbox'[n])) \in Nat /\ Cardinality(unidentified'[n]) \in Nat
          /\ opened' \in 0..MaxConn
      BY <1>1, OpeningsOfTail, UnidentifiedFinite DEF SessionInv, SessionTypeOK
    <3> QED
      BY <1>6, <1>7, <3>1, SessionBounds
  <2>2. commands' \in [Node -> 0..MaxConn]
    BY <1>4, <1>6, <2>1 DEF SessionInv, SessionTypeOK
  <2> QED
    BY <1>1, <1>2, <1>4, <2>2 DEF SessionInv, SessionTypeOK
<1>9. Sound(n)'
  <2> DEFINE heard == LeavesOpen(inbox[n], 1, Heard(n))
  <2>1. Sound(n)
    BY DEF SessionInv
  <2>2. heard <=> Heard(n)'
    BY <1>1, <1>5, ReadFirst DEF event
  <2>3. TellsStory(Tail(inbox[n]), heard)
    BY <1>1, <1>5, <2>1, RestOfStory DEF Sound
  <2>4. known[n] <=> LeavesOpen(Tail(inbox[n]), Len(Tail(inbox[n])), heard)
    <3>1. /\ Len(Tail(inbox[n])) = Len(inbox[n]) - 1 /\ Len(inbox[n]) \in Nat \ {0}
          /\ Len(Tail(inbox[n])) + 1 = Len(inbox[n])
          /\ Len(Tail(inbox[n])) \in 0..Len(Tail(inbox[n]))
      BY <1>1, <1>5, ReadFirst
    <3>2. LeavesOpen(Tail(inbox[n]), Len(Tail(inbox[n])), heard)
            <=> LeavesOpen(inbox[n], Len(Tail(inbox[n])) + 1, Heard(n))
      BY <1>1, <1>5, <3>1, ReadFirst
    <3> QED
      BY <2>1, <3>1, <3>2 DEF Sound
  <2>5. heard \in BOOLEAN /\ Heard(n)' \in BOOLEAN
    BY DEF LeavesOpen, Heard
  <2>6. heard = Heard(n)'
    BY <2>2, <2>5
  <2> HIDE DEF heard
  <2> QED
    BY <1>1, <1>5, <1>7, <2>1, <2>3, <2>4, <2>6 DEF Sound
<1>10. \A p \in Node \ {n} : Sound(p)'
  BY <1>1, <1>4, OtherUntouched DEF SessionInv
<1> QED
  BY <1>8, <1>9, <1>10 DEF SessionInv

\* An empty queue tells what the engine has heard.
LEMMA NothingTold ==
  ASSUME NEW before \in BOOLEAN
  PROVE  /\ TellsStory(<<>>, before) /\ Len(<<>>) = 0
         /\ LeavesOpen(<<>>, 0, before) <=> before
         /\ Openings(<<>>) = {} /\ Cardinality(Openings(<<>>)) = 0
<1>1. DOMAIN <<>> = {} /\ Len(<<>>) = 0 /\ 0..0 = {0} /\ (0 + 1)..0 = {}
  OBVIOUS
<1>2. Openings(<<>>) = {}
  BY <1>1 DEF Openings
<1>3. Cardinality(Openings(<<>>)) = 0
  BY <1>2, FS_EmptySet
<1>4. LeavesOpen(<<>>, 0, before) <=> before
  BY <1>1 DEF LeavesOpen
<1>5. TellsStory(<<>>, before)
  BY <1>1 DEF TellsStory
<1> QED
  BY <1>1, <1>2, <1>3, <1>4, <1>5

\* A process that starts has no peer, and says so of the last one's.
LEMMA RestartKeepsInv ==
  ASSUME SessionInv, NEW n \in Node, ProcessRestart(n)
  PROVE  SessionInv'
<1>1. /\ UNCHANGED <<opened, faults>> /\ wire' \subseteq wire
      /\ inbox'[n] = <<>> /\ known'[n] = FALSE /\ ends'[n] = {} /\ unidentified'[n] = {}
      /\ commands'[n] = 0 /\ link'[n] = "DISCONNECTED" /\ missed'[n] = {}
      /\ nodes'[n] = Marked(nodes[n])
      /\ \A p \in Node \ {n} :
           /\ inbox'[p] = inbox[p] /\ known'[p] = known[p] /\ ends'[p] = ends[p]
           /\ unidentified'[p] = unidentified[p] /\ commands'[p] = commands[p]
           /\ link'[p] = link[p] /\ nodes'[p] = nodes[p] /\ missed'[p] = missed[p]
  BY DEF SessionInv, SessionTypeOK, ProcessRestart
<1>2. SessionTypeOK'
  <2>1. /\ life' \in [Node -> 1..MaxRuns] /\ dialing' \in [Node -> BOOLEAN]
        /\ ends' \in [Node -> SUBSET Conn] /\ unidentified' \in [Node -> SUBSET Conn]
        /\ known' \in [Node -> BOOLEAN]
    BY SessionBounds DEF SessionInv, SessionTypeOK, ProcessRestart
  <2>2. /\ inbox' \in [Node -> Seq(MeshEvent)] /\ commands' \in [Node -> 0..MaxConn]
        /\ link' \in [Node -> {"DISCONNECTED", "CONNECTED", "AUTHENTICATED"}]
        /\ missed' \in [Node -> SUBSET {"CONNECTED", "DISCONNECTED"}]
    <3>1. <<>> \in Seq(MeshEvent) /\ 0 \in 0..MaxConn
      BY SessionBounds
    <3> QED
      BY <3>1 DEF SessionInv, SessionTypeOK, ProcessRestart
  <2>3. nodes' \in [Node -> NodeStatus]
    BY DEF SessionInv, SessionTypeOK, ProcessRestart, Marked, NodeStatus
  <2>4. \A p \in Node : unidentified'[p] \subseteq ends'[p]
    BY <1>1 DEF SessionInv, SessionTypeOK
  <2> QED
    BY <1>1, <2>1, <2>2, <2>3, <2>4 DEF SessionInv, SessionTypeOK
<1>3. Sound(n)'
  <2>1. Heard(n)' = FALSE
    BY <1>1 DEF Heard
  <2>2. nodes'[n] # "ONLINE"
    BY <1>1 DEF Marked
  <2>3. Cardinality(unidentified'[n]) = 0 /\ Cardinality(Openings(inbox'[n])) = 0
    BY <1>1, NothingTold, FS_EmptySet
  <2>4. opened \in Nat
    BY SessionBounds DEF SessionInv, SessionTypeOK
  <2>5. /\ TellsStory(inbox'[n], FALSE) /\ ~LeavesOpen(inbox'[n], Len(inbox'[n]), FALSE)
    BY <1>1, NothingTold
  <2>6. /\ TellsStory(inbox[n], Heard(n))'
        /\ ~LeavesOpen(inbox[n], Len(inbox[n]), Heard(n))'
    BY <2>1, <2>5, Zenon
  <2>7. commands'[n] + Cardinality(Openings(inbox'[n])) + Cardinality(unidentified'[n]) <= opened'
    BY <1>1, <2>3, <2>4
  <2> QED
    BY <1>1, <2>2, <2>6, <2>7 DEF Sound
<1>4. \A p \in Node \ {n} : Sound(p)'
  BY <1>1, OtherUntouched DEF SessionInv
<1> QED
  BY <1>2, <1>3, <1>4 DEF SessionInv

\* Two nodes start without a session.
LEMMA SessionStarts == SessionInit => SessionInv
<1> SUFFICES ASSUME SessionInit PROVE SessionInv
  OBVIOUS
<1>1. SessionTypeOK
  BY SessionBounds DEF SessionInit, SessionTypeOK, NodeStatus
<1>2. ASSUME NEW n \in Node PROVE Sound(n)
  <2>1. /\ inbox[n] = <<>> /\ known[n] = FALSE /\ ends[n] = {} /\ unidentified[n] = {}
        /\ commands[n] = 0 /\ link[n] = "DISCONNECTED" /\ nodes[n] = "none"
        /\ missed[n] = {} /\ opened = 0
    BY DEF SessionInit
  <2>2. Heard(n) = FALSE
    BY <2>1 DEF Heard
  <2>3. Cardinality(unidentified[n]) = 0 /\ Cardinality(Openings(inbox[n])) = 0
    BY <2>1, NothingTold, FS_EmptySet
  <2>4. TellsStory(inbox[n], FALSE) /\ ~LeavesOpen(inbox[n], Len(inbox[n]), FALSE)
    BY <2>1, NothingTold
  <2>5. TellsStory(inbox[n], Heard(n)) /\ ~LeavesOpen(inbox[n], Len(inbox[n]), Heard(n))
    BY <2>2, <2>4, Zenon
  <2>6. commands[n] + Cardinality(Openings(inbox[n])) + Cardinality(unidentified[n]) <= opened
    BY <2>1, <2>3
  <2> QED
    BY <2>1, <2>5, <2>6 DEF Sound
<1> QED
  BY <1>1, <1>2 DEF SessionInv

\* No step of either node breaks the invariant.
LEMMA SessionInductive == SessionInv /\ [SessionNext]_sessionVars => SessionInv'
<1> SUFFICES ASSUME SessionInv, [SessionNext]_sessionVars PROVE SessionInv'
  OBVIOUS
<1>1. CASE SessionNext
  <2> PICK n \in Node :
        \/ Dial(n)
        \/ Establish(n)
        \/ \E c \in Conn : Identify(n, c) \/ ConnectionClosed(n, c)
        \/ Transmit(n)
        \/ \E m \in wire : Deliver(m)
        \/ Poll(n)
        \/ ProcessRestart(n)
    BY <1>1 DEF SessionNext
  <2> QED
    BY DialKeepsInv, EstablishKeepsInv, IdentifyKeepsInv, CloseKeepsInv, TransmitKeepsInv,
       DeliverKeepsInv, PollKeepsInv, RestartKeepsInv
<1>2. CASE UNCHANGED sessionVars
  <2>1. SessionTypeOK'
    BY <1>2 DEF SessionInv, SessionTypeOK, sessionVars, swarm, core, rows
  <2>2. \A p \in Node : Sound(p)'
    BY <1>2, OtherUntouched DEF SessionInv, sessionVars, swarm, core, rows
  <2> QED
    BY <2>1, <2>2 DEF SessionInv
<1> QED
  BY <1>1, <1>2

\* The invariant says what the transport, the engine and the dashboard owe each other.
LEMMA InvIsSound == SessionInv => SessionsAreSound
<1> SUFFICES ASSUME SessionInv PROVE SessionsAreSound
  OBVIOUS
<1>1. StoryIsWellFormed
  BY DEF SessionInv, Sound, TellsStory, StoryIsWellFormed, Announced
<1>2. LinkMirrorsTransport
  BY DEF SessionInv, Sound, LinkMirrorsTransport, Announced
<1>3. ASSUME NEW n \in Node
      PROVE  /\ NetworkStatus(n) = "Connected" => nodes[n] = "ONLINE"
             /\ NetworkStatus(n) = "Connected" <=>
                  \E p \in DOMAIN PeersShown(n) : PeersShown(n)[p] = "CONNECTED"
             /\ NetworkCounts(n).connected <= NetworkCounts(n).known
             /\ nodes[n] = "ONLINE" =>
                  NetworkStatus(n) = "Connected" \/ "DISCONNECTED" \in missed[n]
  <2>1. /\ link[n] # "DISCONNECTED" => nodes[n] = "ONLINE"
        /\ nodes[n] = "ONLINE" => link[n] # "DISCONNECTED" \/ "DISCONNECTED" \in missed[n]
    BY DEF SessionInv, Sound
  <2>2. NetworkStatus(n) = "Connected" <=> link[n] # "DISCONNECTED"
    BY DEF NetworkStatus, ConnectedPeers, KnownPeers
  <2>3. NetworkStatus(n) = "Connected" <=>
          \E p \in DOMAIN PeersShown(n) : PeersShown(n)[p] = "CONNECTED"
    BY <2>1, <2>2 DEF PeersShown, ConnectedPeers, KnownPeers
  <2>4. NetworkCounts(n).connected <= NetworkCounts(n).known
    <3>1. Cardinality({Other(n)}) = 1 /\ Cardinality({}) = 0
      BY FS_Singleton, FS_EmptySet
    <3> QED
      BY <2>1, <3>1 DEF NetworkCounts, ConnectedPeers, KnownPeers
  <2> QED
    BY <2>1, <2>2, <2>3, <2>4
<1>4. DashboardIsHonest
  BY <1>3, Zenon DEF DashboardIsHonest
<1> QED
  BY <1>1, <1>2, <1>4 DEF SessionInv, SessionsAreSound

\* Whatever connections overlap, close late or are cut, whatever write fails and whichever
\* process ends: sessions are announced and ended in turn, the engine has a link exactly
\* while its transport lists the peer, and the dashboard says so (run_swarm, tick,
\* dashboard_snapshot).
THEOREM SessionsHold == SessionSpec => []SessionsAreSound
<1>1. SessionInit => SessionInv
  BY SessionStarts
<1>2. SessionInv /\ [SessionNext]_sessionVars => SessionInv'
  BY SessionInductive
<1>3. SessionInv => SessionsAreSound
  BY InvIsSound
<1> QED
  BY <1>1, <1>2, <1>3, PTL DEF SessionSpec
=============================================================================
