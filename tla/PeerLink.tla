------------------------------ MODULE PeerLink ------------------------------
(***************************************************************************)
(* The lifecycle of one live peer session: sync/link.rs.  A link is in one *)
(* state; every operation is a function from the state it finds to the     *)
(* state it leaves.  Round timing and counters are display only.           *)
(***************************************************************************)

TrustState == {"UNKNOWN", "PENDING", "TRUSTED", "REVOKED"}

LinkState == {"DISCONNECTED", "CONNECTED", "AUTHENTICATED",
              "AWAITING_AUTHORIZATION", "SYNCING", "SYNCED"}

\* TrustState::permits_authorized_operations
Permits(trust) == trust = "TRUSTED"

PermitsSync(link) == link \in {"SYNCING", "SYNCED"}

\* Mutant of ApplyTrust: trust is only ever granted.
GrantTrust(link, trust) ==
  IF link \in {"AWAITING_AUTHORIZATION", "AUTHENTICATED"} /\ Permits(trust)
  THEN "SYNCED" ELSE link

\* PeerLink::apply_trust
ApplyTrust(link, trust) ==
  CASE link \in {"AWAITING_AUTHORIZATION", "AUTHENTICATED"} /\ Permits(trust)
         -> "SYNCED"
    [] link \in {"SYNCING", "SYNCED", "AUTHENTICATED"} /\ ~Permits(trust)
         -> "AWAITING_AUTHORIZATION"
    [] OTHER -> link

\* PeerLink::authenticated
Authenticated(link, trust) ==
  ApplyTrust(IF link = "CONNECTED" THEN "AUTHENTICATED" ELSE link, trust)

\* Mutant of OpensRound: not while a round is thought to be under way.
OpensOneRound(link, trust) == ApplyTrust(link, trust) = "SYNCED"

\* PeerLink::begin_round, after open_round folded the stored trust in
OpensRound(link, trust) == PermitsSync(ApplyTrust(link, trust))
AfterOpenRound(link, trust) ==
  IF OpensRound(link, trust) THEN "SYNCING" ELSE ApplyTrust(link, trust)

\* PeerLink::complete_round
CompleteRound(link) == IF link = "SYNCING" THEN "SYNCED" ELSE link
=============================================================================
