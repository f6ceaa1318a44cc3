----------------------------- MODULE LocalModel -----------------------------
(***************************************************************************)
(* Who may use the local models, and the servers that run them: the gate   *)
(* of ai/gate.rs and the supervised llama-server of ai/llama.rs.           *)
(*                                                                         *)
(* A question (ask, analyse_incident, a summary) holds the gate's permit   *)
(* while it embeds its words and while it generates.  The gate is a flag,  *)
(* a count and a condition variable: a thread that finds it free walks in, *)
(* past those that sleep.  The embedding server is also used by the        *)
(* indexer, which has no business with the gate.  Each server belongs to   *)
(* an engine whose mutex is held from the look at the child until the new  *)
(* child answers.  Every wait has a timeout; its expiry is a step that may *)
(* come at any moment.                                                     *)
(***************************************************************************)
EXTENDS Naturals, FiniteSets

CONSTANTS
  Asker,       \* threads with a question
  Indexer,     \* threads that embed without a permit
  MaxWaiting,  \* MAX_WAITING
  NoThread,
  MaxDeaths    \* bound: times a server dies by itself or is unloaded

Thread == Asker \cup Indexer
Engine == {"embedder", "generator"}

ASSUME ModelBounds ==
  /\ MaxWaiting \in Nat /\ MaxDeaths \in Nat
  /\ IsFiniteSet(Asker) /\ IsFiniteSet(Indexer)
  /\ Asker \cap Indexer = {} /\ NoThread \notin Thread

VARIABLES
  busy,      \* State.busy
  waiting,   \* State.waiting
  doing,     \* what each thread is at
  needs,     \* the engine each thread has still to call
  child,     \* the engine's process: "none", "loading", "serving" or "dead"
  holder,    \* holder of the engine's runtime mutex
  children,  \* processes alive for the engine's port
  deaths

gate == <<busy, waiting>>
servers == <<child, holder, children, deaths>>
modelVars == <<gate, doing, needs, servers>>

Outside == {"idle", "asleep", "woken", "leaving"}
Inside == {"entering", "starting", "calling"}

ModelTypeOK ==
  /\ busy \in BOOLEAN
  /\ waiting = Cardinality({t \in Thread : doing[t] \in {"asleep", "woken"}})
  /\ doing \in [Thread -> Outside \cup Inside]
  /\ needs \in [Thread -> Engine]
  /\ child \in [Engine -> {"none", "loading", "serving", "dead"}]
  /\ holder \in [Engine -> Thread \cup {NoThread}]
  /\ children \in [Engine -> Nat]
  /\ deaths \in 0..MaxDeaths

ModelInit ==
  /\ busy = FALSE /\ waiting = 0
  /\ doing = [t \in Thread |-> "idle"]
  /\ needs = [t \in Thread |-> "embedder"]
  /\ child = [e \in Engine |-> "none"]
  /\ holder = [e \in Engine |-> NoThread]
  /\ children = [e \in Engine |-> 0]
  /\ deaths = 0

Becomes(t, what) == doing' = [doing EXCEPT ![t] = what]

----------------------------------------------------------------------------
(* InferenceGate.                                                          *)

\* acquire: in, in the queue, or refused without a trace.
Acquire(t) ==
  /\ t \in Asker /\ doing[t] = "idle"
  /\ \/ ~busy /\ busy' = TRUE /\ Becomes(t, "entering") /\ UNCHANGED waiting
     \/ /\ busy /\ waiting < MaxWaiting /\ waiting' = waiting + 1
        /\ Becomes(t, "asleep") /\ UNCHANGED busy
  \* ask embeds its question first, an analysis only generates
  /\ \E e \in Engine : needs' = [needs EXCEPT ![t] = e]
  /\ UNCHANGED servers

\* wait_timeout returns: by a notification, by the clock or for no reason.
LookAgain(t) ==
  /\ doing[t] \in {"asleep", "woken"}
  /\ \/ /\ ~busy /\ busy' = TRUE /\ waiting' = waiting - 1
        /\ Becomes(t, "entering")
     \/ /\ busy /\ doing[t] = "woken" /\ Becomes(t, "asleep")
        /\ UNCHANGED gate
  /\ UNCHANGED <<needs, servers>>

\* Mutant of GiveUp: the count is not taken back.
GiveUpUncounted(t) ==
  /\ doing[t] \in {"asleep", "woken"} /\ busy
  /\ Becomes(t, "idle")
  /\ UNCHANGED <<gate, needs, servers>>

\* The deadline has passed and the gate is taken.
GiveUp(t) ==
  /\ doing[t] \in {"asleep", "woken"} /\ busy
  /\ waiting' = waiting - 1 /\ Becomes(t, "idle")
  /\ UNCHANGED <<busy, needs, servers>>

\* Permit::drop clears the flag and unlocks ...
DropPermit(t) ==
  /\ busy' = FALSE /\ Becomes(t, "leaving")
  /\ UNCHANGED <<waiting, needs>>

\* Mutant of NotifyOne: a waiter is told only when the gate is still free.
NotifyIfFree(t) ==
  /\ doing[t] = "leaving"
  /\ \/ \E w \in Asker :
          /\ busy /\ doing[w] = "asleep"
          /\ doing' = [doing EXCEPT ![t] = "idle", ![w] = "woken"]
     \/ ~busy /\ Becomes(t, "idle")
  /\ UNCHANGED <<gate, needs, servers>>

\* ... and then wakes one sleeper, if there is one.
NotifyOne(t) ==
  /\ doing[t] = "leaving"
  /\ \/ \E w \in Asker :
          /\ doing[w] = "asleep"
          /\ doing' = [doing EXCEPT ![t] = "idle", ![w] = "woken"]
     \/ (\A w \in Asker : doing[w] # "asleep") /\ Becomes(t, "idle")
  /\ UNCHANGED <<gate, needs, servers>>

----------------------------------------------------------------------------
(* LlamaServerEngine.                                                      *)

\* A thread is done with the engines: an asker drops its permit.
Leave(t) ==
  IF t \in Asker THEN DropPermit(t)
  ELSE Becomes(t, "idle") /\ UNCHANGED <<gate, needs>>

\* The indexer, or the index command, embeds a text.
StartEmbedding(t) ==
  /\ t \in Indexer /\ doing[t] = "idle"
  /\ Becomes(t, "entering")
  /\ UNCHANGED <<gate, needs, servers>>

\* ensure_running, child alive: it answers already, or will.
FindServing(t) ==
  LET e == needs[t] IN
  /\ doing[t] = "entering" /\ holder[e] = NoThread
  /\ child[e] = "serving"
  /\ Becomes(t, "calling")
  /\ UNCHANGED <<gate, needs, servers>>

\* ensure_running, no child or one that has exited: a new one.
Spawn(t) ==
  LET e == needs[t] IN
  /\ doing[t] = "entering" /\ holder[e] = NoThread
  /\ child[e] # "serving"
  /\ holder' = [holder EXCEPT ![e] = t]
  /\ child' = [child EXCEPT ![e] = "loading"]
  /\ children' = [children EXCEPT ![e] = @ + 1]
  /\ Becomes(t, "starting")
  /\ UNCHANGED <<gate, needs, deaths>>

\* ensure_running fails before a child: files missing, or not the pinned model.
FailToSpawn(t) ==
  /\ doing[t] = "entering" /\ holder[needs[t]] = NoThread
  /\ child[needs[t]] # "serving"
  /\ child' = [child EXCEPT ![needs[t]] = "none"]
  /\ Leave(t)
  /\ UNCHANGED <<holder, children, deaths>>

\* await_ready: /health answers.
BecomeReady(t) ==
  LET e == needs[t] IN
  /\ doing[t] = "starting" /\ child[e] = "loading"
  /\ child' = [child EXCEPT ![e] = "serving"]
  /\ holder' = [holder EXCEPT ![e] = NoThread]
  /\ Becomes(t, "calling")
  /\ UNCHANGED <<gate, needs, children, deaths>>

\* Mutant of FailToStart: a child that is too slow is forgotten, not killed.
ForgetSlowChild(t) ==
  LET e == needs[t] IN
  /\ doing[t] = "starting"
  /\ child' = [child EXCEPT ![e] = "none"]
  /\ holder' = [holder EXCEPT ![e] = NoThread]
  /\ Leave(t)
  /\ UNCHANGED <<children, deaths>>

\* await_ready: the child exits, or STARTUP_TIMEOUT passes and it is killed.
FailToStart(t) ==
  LET e == needs[t] IN
  /\ doing[t] = "starting"
  /\ children' = [children EXCEPT ![e] = IF child[e] = "loading" THEN @ - 1 ELSE @]
  /\ child' = [child EXCEPT ![e] = "none"]
  /\ holder' = [holder EXCEPT ![e] = NoThread]
  /\ Leave(t)
  /\ UNCHANGED deaths

\* The reply, an error or REQUEST_TIMEOUT; a question may then generate.
EndCall(t) ==
  /\ doing[t] = "calling"
  /\ \/ Leave(t)
     \/ /\ t \in Asker /\ needs[t] = "embedder"
        /\ needs' = [needs EXCEPT ![t] = "generator"]
        /\ Becomes(t, "entering") /\ UNCHANGED gate
  /\ UNCHANGED servers

\* A server dies while it loads or serves.
ServerDies(e) ==
  /\ child[e] \in {"loading", "serving"} /\ deaths < MaxDeaths
  /\ child' = [child EXCEPT ![e] = "dead"]
  /\ children' = [children EXCEPT ![e] = @ - 1]
  /\ deaths' = deaths + 1
  /\ UNCHANGED <<gate, doing, needs, holder>>

\* unload waits for the mutex and kills the child, in the middle of a call.
Unload ==
  /\ holder["generator"] = NoThread /\ child["generator"] = "serving"
  /\ deaths < MaxDeaths /\ deaths' = deaths + 1
  /\ child' = [child EXCEPT !["generator"] = "none"]
  /\ children' = [children EXCEPT !["generator"] = @ - 1]
  /\ UNCHANGED <<gate, doing, needs, holder>>

ModelNext ==
  \/ \E t \in Thread :
       \/ Acquire(t) \/ LookAgain(t) \/ GiveUp(t) \/ NotifyOne(t)
       \/ StartEmbedding(t) \/ FindServing(t) \/ Spawn(t) \/ FailToSpawn(t)
       \/ BecomeReady(t) \/ FailToStart(t) \/ EndCall(t)
  \/ \E e \in Engine : ServerDies(e)
  \/ Unload

ModelSpec == ModelInit /\ [][ModelNext]_modelVars

----------------------------------------------------------------------------
(* Properties.                                                             *)

\* One question at a time is inside, and while the gate is free nobody sleeps
\* whom nothing is about to wake: a thread that walks in past the queue, a
\* waiter that gives up and a notification that finds the gate taken again
\* cost no one a wake-up.
GateIsKept ==
  /\ Cardinality({t \in Asker : doing[t] \in Inside}) = IF busy THEN 1 ELSE 0
  /\ (~busy /\ \E t \in Asker : doing[t] = "asleep") =>
       \E t \in Asker : doing[t] \in {"woken", "leaving"}

\* Never two servers for one port, and none that no engine remembers, however
\* questions, the indexer, deaths, failed starts and an unload interleave.
OneServerEach ==
  \A e \in Engine :
    children[e] = IF child[e] \in {"loading", "serving"} THEN 1 ELSE 0

\* One gate and one server per model serve every thread, whatever dies meanwhile, and the
\* waiters are counted.
ModelsAreShared == ModelTypeOK /\ GateIsKept /\ OneServerEach
=============================================================================
