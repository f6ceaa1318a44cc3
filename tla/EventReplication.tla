-------------------------- MODULE EventReplication --------------------------
(***************************************************************************)
(* What replication promises, with no messages, links or acknowledgements: *)
(* every node holds a prefix of every origin's log, and a prefix only      *)
(* grows, by the origin writing or by a node that trusts another learning  *)
(* what that other one holds.  A node reports an event of its own as       *)
(* shared only if another node holds it.                                   *)
(***************************************************************************)
EXTENDS Naturals

CONSTANTS Node, MaxSeq

VARIABLES
  prefix,   \* how much of each origin's log each node holds
  trusted,  \* the peers each node's operator trusts
  shared    \* each node's own events it reports as shared

vars == <<prefix, trusted, shared>>

Init ==
  /\ prefix = [n \in Node |-> [o \in Node |-> 0]]
  /\ trusted \in [Node -> SUBSET Node]
  /\ shared = [n \in Node |-> {}]

Write(n) ==
  /\ prefix[n][n] < MaxSeq
  /\ prefix' = [prefix EXCEPT ![n][n] = @ + 1]
  /\ UNCHANGED <<trusted, shared>>

Learn(n, p, o) ==
  /\ p \in trusted[n]
  /\ \E k \in prefix[n][o]..prefix[p][o] : prefix' = [prefix EXCEPT ![n][o] = k]
  /\ UNCHANGED <<trusted, shared>>

Report(n) ==
  /\ \E reported \in SUBSET (1..prefix[n][n]) :
       /\ shared[n] \subseteq reported
       /\ \A s \in reported : \E p \in Node \ {n} : s <= prefix[p][n]
       /\ shared' = [shared EXCEPT ![n] = reported]
  /\ UNCHANGED <<prefix, trusted>>

Decide(n) ==
  /\ \E peers \in SUBSET Node : trusted' = [trusted EXCEPT ![n] = peers]
  /\ UNCHANGED <<prefix, shared>>

Next ==
  \E n \in Node :
    \/ Write(n)
    \/ \E p, o \in Node : Learn(n, p, o)
    \/ Report(n)
    \/ Decide(n)

Spec == Init /\ [][Next]_vars
=============================================================================
