------------------------------ MODULE NodeStart ------------------------------
(***************************************************************************)
(* One node's process: how it comes up in a data directory, and how it     *)
(* appends its own events (runtime.rs, identity/, storage/).               *)
(*                                                                         *)
(* The directory keeps the key file, the database and nothing else, and    *)
(* the process may end between any two steps.  Coming up is sequential;    *)
(* once up, commands run on several threads beside the sync thread.  An    *)
(* append is two database operations, the read of the next sequence number *)
(* and the store, under the local_append mutex, which the sync thread does *)
(* not take: it may store an event of this very node in between, one that  *)
(* peers kept from a database the node no longer has.                      *)
(***************************************************************************)
EXTENDS Naturals, FiniteSets, Sequences, SequencesExt

CONSTANTS
  Writer,       \* threads that run commands
  Drafts,       \* incidents an operator may write here
  Legacy,       \* incidents of a database older than the event log
  Foreign,      \* incidents peers wrote
  Kept,         \* sequence: incidents of this node's events 1.. that peers
                \* kept from a database it lost
  Nothing,      \* no incident, no thread, no number
  MaxOwn,       \* bound: sequence numbers of this node
  MaxRows,      \* bound: incidents in the table or on their way to it
  MaxCrash      \* bound: times the process ends

Own == 1..MaxOwn
AllIncidents == Drafts \cup Legacy \cup Foreign \cup ToSet(Kept)

ASSUME StartBounds ==
  /\ MaxOwn \in Nat /\ MaxRows \in Nat /\ MaxCrash \in Nat
  /\ Len(Kept) <= MaxOwn
  /\ Nothing \notin AllIncidents \cup Writer \cup Own \cup {0}

\* An incident's id is minted once, and gets one event where it is written
\* (Uuid::new_v4 in create_incident).
ASSUME FreshIncidents ==
  /\ Drafts \cap (Legacy \cup Foreign \cup ToSet(Kept)) = {}
  /\ Legacy \cap ToSet(Kept) = {}
  /\ Kept \in Seq(ToSet(Kept))
  /\ \A i, j \in DOMAIN Kept : Kept[i] = Kept[j] => i = j

VARIABLES
  recalled,   \* <<>>, or Kept when the database was lost
  keyfile,    \* node_identity.json: "none", "empty" (created, not written) or "whole"
  schema,     \* user_version of the database
  table,      \* rows of incidents
  log,        \* own slice of events: number -> incident, or Nothing
  linked,     \* own incidents whose origin_event_id is set
  flagged,    \* nodes.equivocating of this node's own row
  phase,      \* how far the process has come
  attached,   \* the mesh transport started
  pending,    \* incidents the backfill still has to sign
  appender,   \* holder of local_append
  writer,     \* what each command thread is doing
  asked,      \* own mark of the SYNC_REQUEST under way, or Nothing
  nudge,      \* the indexer's one-slot channel is full
  announced,  \* events told to the mesh, as <<number, incident>>
  crashes

disk == <<keyfile, schema, table, log, linked, flagged>>
memory == <<phase, attached, pending, appender, writer, asked, nudge>>
startVars == <<recalled, disk, memory, announced, crashes>>

Idle == [at |-> "idle", seq |-> Nothing, incident |-> Nothing]

StartTypeOK ==
  /\ recalled \in {<<>>, Kept}
  /\ keyfile \in {"none", "empty", "whole"}
  /\ schema \in {"old", "current", "newer"}
  /\ table \subseteq AllIncidents /\ linked \subseteq table
  /\ log \in [Own -> AllIncidents \cup {Nothing}]
  /\ flagged \in BOOLEAN /\ attached \in BOOLEAN /\ nudge \in BOOLEAN
  /\ phase \in {"down", "saving", "keyed", "open", "filling", "up"}
  /\ pending \subseteq Legacy
  /\ appender \in Writer \cup {Nothing}
  /\ writer \in [Writer -> [at : {"idle", "numbered", "stored", "announced"},
                            seq : Own \cup {Nothing},
                            incident : Drafts \cup {Nothing}]]
  /\ asked \in Own \cup {0, Nothing}
  /\ announced \subseteq Own \X Drafts
  /\ crashes \in 0..MaxCrash

\* A first launch, an upgrade from a database older than the log, a database
\* of a newer build, and a database that was lost while the key was not.
StartInit ==
  /\ \/ keyfile = "none" /\ schema = "old" /\ table = {} /\ recalled = <<>>
     \/ keyfile = "whole" /\ schema = "old" /\ table = Legacy /\ recalled = <<>>
     \/ keyfile = "whole" /\ schema = "newer" /\ table = {} /\ recalled = <<>>
     \/ keyfile = "whole" /\ schema = "old" /\ table = {} /\ recalled = Kept
  /\ linked = {} /\ flagged = FALSE
  /\ log = [s \in Own |-> Nothing]
  /\ phase = "down" /\ attached = FALSE /\ pending = {}
  /\ appender = Nothing /\ writer = [w \in Writer |-> Idle]
  /\ asked = Nothing /\ nudge = FALSE
  /\ announced = {} /\ crashes = 0

----------------------------------------------------------------------------
(* Coming up.                                                              *)

LogHeld == {s \in Own : log[s] # Nothing}

\* next_local_sequence: one past the highest number held.
NextOwn == CHOOSE s \in 1..(MaxOwn + 1) :
             /\ \A held \in LogHeld : held < s
             /\ s = 1 \/ s - 1 \in LogHeld

\* watermark_for this node's own origin.
OwnMark == CHOOSE m \in 0..MaxOwn : 1..m \subseteq LogHeld /\ m + 1 \notin LogHeld

\* load_or_create, called for the transport and again for the runtime.  A file
\* that cannot be parsed refuses the node: nothing here is enabled.
LoadOrCreate(on) ==
  /\ phase = "down"
  /\ attached' = on
  /\ \/ keyfile = "whole" /\ phase' = "keyed" /\ UNCHANGED keyfile
     \/ keyfile = "none" /\ phase' = "saving" /\ keyfile' = "empty"
  /\ UNCHANGED <<recalled, schema, table, log, linked, flagged,
                 pending, appender, writer, asked, nudge, announced, crashes>>

\* FileKeyStore::store after create_new: write_all and sync_all.
SaveKey ==
  /\ phase = "saving"
  /\ keyfile' = "whole" /\ phase' = "keyed"
  /\ UNCHANGED <<recalled, schema, table, log, linked, flagged, attached,
                 pending, appender, writer, asked, nudge, announced, crashes>>

\* The write fails.  Starting without the transport then finds the empty file.
SaveFails ==
  /\ phase = "saving"
  /\ phase' = "down" /\ attached' = FALSE
  /\ UNCHANGED <<recalled, disk, pending, appender, writer, asked, nudge, announced, crashes>>

\* Database::open: every newer migration in one transaction, or a refusal.
OpenDatabase ==
  /\ phase = "keyed"
  /\ \/ schema # "newer" /\ schema' = "current" /\ phase' = "open" /\ UNCHANGED attached
     \/ schema = "newer" /\ phase' = "down" /\ attached' = FALSE /\ UNCHANGED schema
  /\ UNCHANGED <<recalled, keyfile, table, log, linked, flagged,
                 pending, appender, writer, asked, nudge, announced, crashes>>

\* Own incidents no event was written for.
AwaitingBackfill == (table \cap Legacy) \ linked

\* register_local_node, then incidents_awaiting_backfill is read once.
RegisterNode ==
  /\ phase = "open"
  /\ phase' = "filling" /\ pending' = AwaitingBackfill
  /\ UNCHANGED <<recalled, disk, attached, appender, writer, asked, nudge, announced, crashes>>

\* Mutant of StoreLinked: the event and the link are not one transaction, and the
\* process ends between the two.
StoreUnlinked(s, i) == log' = [log EXCEPT ![s] = i] /\ UNCHANGED linked

\* backfill_incident_event: the event and the link, in one transaction.
StoreLinked(s, i) == log' = [log EXCEPT ![s] = i] /\ linked' = linked \cup {i}

\* One turn of backfill_legacy_incidents: sign under the next number, store and link.
Backfill(i) ==
  /\ phase = "filling" /\ i \in pending /\ NextOwn <= MaxOwn
  /\ StoreLinked(NextOwn, i)
  /\ pending' = pending \ {i}
  /\ UNCHANGED <<recalled, keyfile, schema, table, flagged, phase, attached,
                 appender, writer, asked, nudge, announced, crashes>>

\* Mutant of Serve: the node serves while incidents still lack an event.
ServeEarly ==
  /\ phase = "filling"
  /\ phase' = "up" /\ nudge' = TRUE
  /\ UNCHANGED <<recalled, disk, attached, pending, appender, writer, asked, announced, crashes>>

\* start_node returns with the indexer started, which asks for a pass.
Serve ==
  /\ phase = "filling" /\ pending = {}
  /\ phase' = "up" /\ nudge' = TRUE
  /\ UNCHANGED <<recalled, disk, attached, pending, appender, writer, asked, announced, crashes>>

----------------------------------------------------------------------------
(* append_local_event, as create_incident calls it.                        *)

InUse == table \cup ({writer[w].incident : w \in Writer} \ {Nothing}) \cup {a[2] : a \in announced}
Room == Cardinality(InUse) < MaxRows

\* Mutant of Number: local_append is not taken.
NumberUnguarded(w, i) ==
  /\ phase = "up" /\ writer[w] = Idle /\ i \in Drafts \ InUse /\ Room
  /\ NextOwn <= MaxOwn
  /\ writer' = [writer EXCEPT ![w] = [at |-> "numbered", seq |-> NextOwn, incident |-> i]]
  /\ UNCHANGED <<recalled, disk, phase, attached, pending, appender, asked, nudge,
                 announced, crashes>>

\* next_local_sequence and MeshEvent::create, under local_append.
Number(w, i) ==
  /\ phase = "up" /\ writer[w] = Idle /\ i \in Drafts \ InUse /\ Room
  /\ appender = Nothing /\ appender' = w
  /\ NextOwn <= MaxOwn
  /\ writer' = [writer EXCEPT ![w] = [at |-> "numbered", seq |-> NextOwn, incident |-> i]]
  /\ UNCHANGED <<recalled, disk, phase, attached, pending, asked, nudge, announced, crashes>>

\* apply_event of an own event: stored with its projection, or refused and the
\* node flagged when the number is taken.
ApplyOwn(s, i) ==
  IF log[s] = Nothing
  THEN /\ log' = [log EXCEPT ![s] = i]
       /\ table' = table \cup {i} /\ linked' = linked \cup {i}
       /\ UNCHANGED flagged
  ELSE /\ flagged' = (flagged \/ log[s] # i)
       /\ UNCHANGED <<log, table, linked>>

\* apply_event; its outcome is not looked at.  The guard is dropped.
StoreOwn(w) ==
  /\ writer[w].at = "numbered"
  /\ ApplyOwn(writer[w].seq, writer[w].incident)
  /\ writer' = [writer EXCEPT ![w].at = "stored"]
  /\ appender' = Nothing
  /\ UNCHANGED <<recalled, keyfile, schema, phase, attached, pending, asked, nudge,
                 announced, crashes>>

\* notify_local_event and maybe_transmit_lora_event.
Announce(w) ==
  /\ writer[w].at = "stored"
  /\ announced' = announced \cup {<<writer[w].seq, writer[w].incident>>}
  /\ writer' = [writer EXCEPT ![w].at = "announced"]
  /\ UNCHANGED <<recalled, disk, phase, attached, pending, appender, asked, nudge, crashes>>

\* The rest of create_incident: audit, request_indexing, read back.
Answer(w) ==
  /\ writer[w].at = "announced"
  /\ writer' = [writer EXCEPT ![w] = Idle]
  /\ nudge' = TRUE
  /\ UNCHANGED <<recalled, disk, phase, attached, pending, appender, asked, announced, crashes>>

----------------------------------------------------------------------------
(* sync_tick, beside the commands.                                         *)

\* A SYNC_REQUEST carries this node's own mark, too.
AskPeers ==
  /\ phase = "up" /\ attached /\ asked = Nothing /\ OwnMark < Len(recalled)
  /\ asked' = OwnMark
  /\ UNCHANGED <<recalled, disk, phase, attached, pending, appender, writer, nudge,
                 announced, crashes>>

\* The answer: the next event peers hold of this node's own log.
Return ==
  /\ phase = "up" /\ asked # Nothing
  /\ ApplyOwn(asked + 1, recalled[asked + 1])
  /\ asked' = Nothing
  /\ nudge' = (nudge \/ log[asked + 1] = Nothing)
  /\ UNCHANGED <<recalled, keyfile, schema, phase, attached, pending, appender, writer,
                 announced, crashes>>

\* A tick stored a peer's incident; request_indexing follows the commit.
Arrive(i) ==
  /\ phase = "up" /\ attached /\ i \in Foreign \ table /\ Room
  /\ table' = table \cup {i} /\ nudge' = TRUE
  /\ UNCHANGED <<recalled, keyfile, schema, log, linked, flagged, phase, attached, pending,
                 appender, writer, asked, announced, crashes>>

\* The process ends anywhere.  Both writes of a transaction survive or neither.
Crash ==
  /\ phase # "down" /\ crashes < MaxCrash /\ crashes' = crashes + 1
  /\ phase' = "down" /\ attached' = FALSE /\ pending' = {}
  /\ appender' = Nothing /\ writer' = [w \in Writer |-> Idle]
  /\ asked' = Nothing /\ nudge' = FALSE
  /\ UNCHANGED <<recalled, disk, announced>>

\* What the node does by itself once started.
StartStep ==
  \/ \E on \in BOOLEAN : LoadOrCreate(on)
  \/ SaveKey \/ OpenDatabase \/ RegisterNode \/ Serve
  \/ \E i \in Legacy : Backfill(i)

AppendStep(w) == StoreOwn(w) \/ Announce(w) \/ Answer(w)

StartNext ==
  \/ StartStep \/ SaveFails \/ Crash
  \/ \E w \in Writer : AppendStep(w) \/ \E i \in Drafts : Number(w, i)
  \/ AskPeers \/ Return
  \/ \E i \in Foreign : Arrive(i)

StartSpec == StartInit /\ [][StartNext]_startVars
StartFairness ==
  /\ WF_startVars(StartStep)
  /\ \A w \in Writer : WF_startVars(AppendStep(w))
StartFairSpec == StartSpec /\ StartFairness

----------------------------------------------------------------------------
(* Properties.                                                             *)

\* What create_incident announced under a number is what the log holds under
\* it, whatever other commands ran, unless peers returned an event of a lost
\* database under that number between the read of the number and the store.
AnnouncedIsHeld ==
  \A a \in announced :
    \/ log[a[1]] = a[2]
    \/ a[1] \in DOMAIN recalled /\ log[a[1]] = recalled[a[1]]

\* No incident ever has two events of this node, in whatever order starts,
\* crashes, backfills, commands and returned events come.
OneEventEach ==
  \A s, t \in LogHeld : log[s] = log[t] => s = t

\* Each own event says once and for good what it was announced to say.
OwnEventsAreSound == AnnouncedIsHeld /\ OneEventEach

\* A node that stops crashing serves, with an event for every incident it
\* inherited, unless its key was lost half-written or its schema is newer.
ComesUp ==
  <>[](\/ phase = "up" /\ table \cap Legacy \subseteq linked
       \/ keyfile = "empty"
       \/ schema = "newer")
=============================================================================
