---------------------------- MODULE IncidentIndex ----------------------------
(***************************************************************************)
(* The background indexer (ai/indexer.rs) over the running node of         *)
(* NodeStart: the thread that gives every stored incident a vector, the    *)
(* one-slot channel that wakes it and the in-memory marks of a pass.       *)
(*                                                                         *)
(* An incident is "outstanding" when the database holds its row and no     *)
(* vector of the model in use; the database is the queue.  A batch is the  *)
(* newest IndexBatch outstanding rows by created_at, which for replicated  *)
(* incidents is their author's clock: any order.  Embedding needs the      *)
(* model, which may be away for a while, and some texts never fit it.      *)
(***************************************************************************)
EXTENDS NodeStart

CONSTANTS
  Unembeddable,  \* incidents whose text the embedding model always refuses
  IndexBatch,    \* INDEX_BATCH
  MaxOutage      \* bound: times the model goes away

ASSUME IndexBounds ==
  /\ Unembeddable \subseteq AllIncidents
  /\ IndexBatch \in Nat \ {0} /\ MaxOutage \in Nat

VARIABLES
  vectors,    \* incidents with a vector (durable)
  model,      \* the embedding model answers
  worker,     \* what the securemesh-index thread does
  attempted,  \* outstanding incidents this pass started from
  batch,      \* the rest of the batch index_pending is at
  gained,     \* this call of index_pending stored a vector
  indexing,   \* Transient.indexing
  failed,     \* Transient.failed
  outages

indexVars == <<startVars, vectors, model, worker, attempted, batch, gained,
               indexing, failed, outages>>
thread == <<worker, attempted, batch, gained, indexing, failed>>
surroundings == <<model, outages>>

Outstanding == table \ vectors

IndexTypeOK ==
  /\ StartTypeOK
  /\ vectors \subseteq AllIncidents \ Unembeddable /\ model \in BOOLEAN
  /\ worker \in {"gone", "read", "fetch", "embed", "settle", "wait"}
  /\ attempted \subseteq table /\ batch \subseteq table /\ gained \in BOOLEAN
  /\ indexing \subseteq table /\ failed \subseteq table
  /\ outages \in 0..MaxOutage

IndexInit ==
  /\ StartInit
  /\ vectors = {} /\ model = TRUE
  /\ worker = "gone" /\ attempted = {} /\ batch = {} /\ gained = FALSE
  /\ indexing = {} /\ failed = {}
  /\ outages = 0

----------------------------------------------------------------------------
(* The thread.                                                             *)

\* The start of run_pass: what lacks a vector is marked as in flight.
ReadOutstanding ==
  /\ worker = "read"
  /\ attempted' = Outstanding
  /\ indexing' = indexing \cup Outstanding
  /\ failed' = failed \ Outstanding
  /\ worker' = "fetch"
  /\ UNCHANGED <<startVars, vectors, surroundings, batch, gained>>

\* index_pending reads its batch: incidents_awaiting_embedding.
FetchBatch ==
  /\ worker = "fetch"
  /\ \E b \in SUBSET Outstanding :
       /\ Cardinality(b) <= IndexBatch
       /\ b # Outstanding => Cardinality(b) = IndexBatch
       /\ batch' = b
  /\ worker' = "embed"
  /\ UNCHANGED <<startVars, vectors, surroundings, attempted, gained, indexing, failed>>

\* One turn of index_pending: a failure costs this text only.
EmbedOne(i) ==
  /\ worker = "embed" /\ i \in batch
  /\ batch' = batch \ {i}
  /\ IF model /\ i \notin Unembeddable
     THEN vectors' = vectors \cup {i} /\ gained' = TRUE
     ELSE UNCHANGED <<vectors, gained>>
  /\ UNCHANGED <<startVars, surroundings, worker, attempted, indexing, failed>>

\* run_pass goes on while a call of index_pending makes progress.
EndBatch ==
  /\ worker = "embed" /\ batch = {}
  /\ worker' = IF gained THEN "fetch" ELSE "settle"
  /\ gained' = FALSE
  /\ UNCHANGED <<startVars, vectors, surroundings, attempted, batch,
                 indexing, failed>>

\* Mutant of Settle: the channel is drained when the pass ends.
SettleAndDrain ==
  /\ worker = "settle"
  /\ indexing' = indexing \ attempted
  /\ failed' = (failed \ attempted) \cup (attempted \cap Outstanding)
  /\ attempted' = {} /\ worker' = "wait" /\ nudge' = FALSE
  /\ UNCHANGED <<recalled, disk, phase, attached, pending, appender, writer, asked, announced,
                 crashes, vectors, surroundings, batch, gained>>

\* The end of run_pass: the database is asked again for what is missing.
Settle ==
  /\ worker = "settle"
  /\ indexing' = indexing \ attempted
  /\ failed' = (failed \ attempted) \cup (attempted \cap Outstanding)
  /\ attempted' = {} /\ worker' = "wait"
  /\ UNCHANGED <<startVars, vectors, surroundings, batch, gained>>

RunPass ==
  /\ worker = "wait" /\ worker' = "read" /\ nudge' = FALSE
  /\ UNCHANGED <<recalled, disk, phase, attached, pending, appender, writer, asked, announced,
                 crashes, vectors, surroundings, attempted, batch, gained,
                 indexing, failed>>

\* recv_timeout returns a nudge.
TakeNudge == nudge /\ RunPass

\* recv_timeout returns after SWEEP_INTERVAL.
Sweep == ~nudge /\ RunPass

\* The index_intelligence command runs index_pending beside the thread: at any
\* moment it may give an outstanding incident its vector.
CommandEmbeds(i) ==
  /\ phase = "up" /\ model /\ i \in Outstanding \ Unembeddable
  /\ vectors' = vectors \cup {i}
  /\ UNCHANGED <<startVars, surroundings, thread>>

----------------------------------------------------------------------------
(* The model, and the node around the thread.                              *)

ModelLeaves ==
  /\ model /\ outages < MaxOutage
  /\ model' = FALSE /\ outages' = outages + 1
  /\ UNCHANGED <<startVars, vectors, thread>>

ModelReturns ==
  /\ ~model /\ model' = TRUE
  /\ UNCHANGED <<startVars, vectors, thread, outages>>

\* start_node ends by starting the thread, whose first act is a pass.
ServeIndexed ==
  /\ Serve
  /\ worker' = "read"
  /\ UNCHANGED <<vectors, surroundings, attempted, batch, gained, indexing, failed>>

\* A process that ends takes the thread and its marks along, not the vectors.
CrashIndex ==
  /\ Crash
  /\ worker' = "gone" /\ attempted' = {} /\ batch' = {} /\ gained' = FALSE
  /\ indexing' = {} /\ failed' = {}
  /\ UNCHANGED <<vectors, surroundings>>

\* Steps of NodeStart the indexer has no part in.
NodeStep ==
  /\ \/ \E on \in BOOLEAN : LoadOrCreate(on)
     \/ SaveKey \/ SaveFails \/ OpenDatabase \/ RegisterNode
     \/ \E i \in Legacy : Backfill(i)
     \/ \E w \in Writer : AppendStep(w) \/ \E i \in Drafts : Number(w, i)
     \/ AskPeers \/ Return
     \/ \E i \in Foreign : Arrive(i)
  /\ UNCHANGED <<vectors, surroundings, thread>>

StartIndexed ==
  \/ StartStep /\ phase' # "up" /\ UNCHANGED <<vectors, surroundings, thread>>
  \/ ServeIndexed

AppendIndexed ==
  \E w \in Writer : AppendStep(w) /\ UNCHANGED <<vectors, surroundings, thread>>

WorkerStep ==
  \/ ReadOutstanding \/ FetchBatch \/ EndBatch \/ Settle \/ TakeNudge
  \/ \E i \in batch : EmbedOne(i)

IndexNext ==
  \/ NodeStep \/ ServeIndexed \/ CrashIndex \/ WorkerStep \/ Sweep
  \/ \E i \in AllIncidents : CommandEmbeds(i)
  \/ ModelLeaves \/ ModelReturns

IndexSpec == IndexInit /\ [][IndexNext]_indexVars

\* Threads run, and the model comes back.  Nothing makes an operator write, a
\* peer answer, a window open or a sweep come.
IndexFairness ==
  /\ WF_indexVars(StartIndexed)
  /\ WF_indexVars(AppendIndexed)
  /\ WF_indexVars(WorkerStep)
  /\ WF_indexVars(ModelReturns)
IndexFairSpec == IndexSpec /\ IndexFairness

----------------------------------------------------------------------------
(* Properties.                                                             *)

\* Every embeddable incident gets its vector.  While the model answers, the
\* nudges alone see to it: none is lost in the one-slot channel, to a crash
\* between the commit and the nudge, or to texts that cannot be embedded, as
\* long as those are fewer than a batch.  What failed because the model was
\* away waits for a sweep.
GetsIndexed ==
  (/\ Cardinality(Unembeddable) < IndexBatch
   /\ []model \/ []<><<Sweep>>_indexVars)
  => []<>(table \ Unembeddable \subseteq vectors \/ phase # "up")
=============================================================================
