----------------------------- MODULE MCMeshSync -----------------------------
(* The TLC instances of MeshSync: two neighbours, or a line of three. *)
EXTENDS MeshSync

CONSTANTS n1, n2, n3

MCPair == {{n1, n2}}
MCLine == {{n1, n2}, {n2, n3}}

MCUnknown == [n \in Node |-> [p \in Node |-> "UNKNOWN"]]
MCTrusted == [n \in Node |-> [p \in Node |-> IF p = n THEN "UNKNOWN" ELSE "TRUSTED"]]

\* n1's operator has decided, the others' have not.
MCOneSided == [n \in Node |-> [p \in Node |->
                 IF n = n1 /\ p # n THEN "TRUSTED" ELSE "UNKNOWN"]]

MCHello == {"HELLO"}
MCAllKinds == {"HELLO", "SYNC_REQUEST", "EVENT_BATCH", "ACK"}

MCFirstWritesOne == [n \in Node |-> IF n = n1 THEN 1 ELSE 0]
MCFirstWritesTwo == [n \in Node |-> IF n = n1 THEN 2 ELSE 0]

\* Bound, a state constraint: where something fails, operators stand by what
\* they decided and no database is lost; where one is lost, nothing else fails.
MCOneTrouble ==
  \/ faults = 0
  \/ Unforked /\ trust = InitTrust /\ \A n \in Node : decided[n] = {}
=============================================================================
