-------------------------------- MODULE MCPeers --------------------------------
(***************************************************************************)
(* Sessions between two nodes, and what one node decides about a peer and  *)
(* is told of its position, in scenes of their own: they share no state.   *)
(***************************************************************************)
EXTENDS LocationBook, MeshSession
VARIABLE scene

MCInit == scene \in {"book", "session"} /\ BookInit /\ SessionInit

MCNext ==
  \/ scene = "book" /\ BookNext /\ UNCHANGED <<scene, sessionVars>>
  \/ scene = "session" /\ SessionNext /\ UNCHANGED <<scene, bookVars>>

MCSpec ==
  /\ MCInit /\ [][MCNext]_<<scene, bookVars, sessionVars>>
  /\ SessionFairness
=============================================================================
