------------------------------- MODULE MCLocal -------------------------------
(***************************************************************************)
(* The two parts of one process that share no state, in one behaviour: the *)
(* scene says which of them moves, so their states add and do not multiply.*)
(***************************************************************************)
EXTENDS IncidentIndex, LocalModel
CONSTANTS d1, d2, l1, f1, r1, w1, w2, a1, a2, a3, t1

MCKept == <<r1>>

\* Bound: the process ends, or the model goes away; once.
MCFaults == crashes + outages <= 1

VARIABLE scene

MCInit ==
  /\ scene \in {"index", "models"}
  /\ IndexInit /\ ModelInit

MCNext ==
  \/ scene = "index" /\ IndexNext /\ MCFaults' /\ UNCHANGED <<scene, modelVars>>
  \/ scene = "models" /\ ModelNext /\ UNCHANGED <<scene, indexVars>>

MCSpec ==
  /\ MCInit /\ [][MCNext]_<<scene, indexVars, modelVars>>
  /\ WF_indexVars(scene = "index" /\ StartIndexed)
  /\ WF_indexVars(scene = "index" /\ AppendIndexed)
  /\ WF_indexVars(scene = "index" /\ WorkerStep)
  /\ WF_indexVars(scene = "index" /\ ModelReturns)

\* A started node comes up (ComesUp, where the node moves).
NodeComesUp == scene = "index" => ComesUp
=============================================================================
