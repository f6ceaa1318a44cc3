----------------------------- MODULE LocalProofs -----------------------------
(***************************************************************************)
(* The start of a node and the index its local models work from            *)
(* (NodeStart, IncidentIndex), and the gate and the servers they share     *)
(* (LocalModel), for any number of incidents, commands, threads, crashes   *)
(* and deaths.                                                             *)
(*                                                                         *)
(* That an event stays what it was announced as rests on a log without a   *)
(* gap whose numbers are taken and stored under one lock; only an event of *)
(* a lost database that peers return comes in between.                     *)
(* ModelsAreShared is not inductive: that a new child is the only one      *)
(* rests on who holds the mutex of its engine, and that the flag tells     *)
(* whether someone is inside rests on indexers never queueing.             *)
(***************************************************************************)
EXTENDS IncidentIndex, LocalModel, FiniteSetTheorems, SequenceTheorems, TLAPS

-----------------------------------------------------------------------------
(* The node's own events *)

\* Event s is incident i, or the one peers returned from a lost database.
Held(s, i) == log[s] = i \/ (s \in DOMAIN recalled /\ log[s] = recalled[s])

\* The node's own events are numbered without a gap, ...
LogIsContiguous == \E m \in 0..MaxOwn : LogHeld = 1..m

\* ... and each is of an incident that names it.
LogIsLinked == \A s \in LogHeld : log[s] \in linked

\* An incident of a lost database is back under its old number, or not at all.
ReturnedInPlace ==
  \A s \in LogHeld : log[s] \in ToSet(Kept) => s \in DOMAIN recalled /\ log[s] = recalled[s]

\* What the startup thread still has to publish has no event.
PendingUnlinked == pending \subseteq table \ linked

\* No peer is asked and no command runs before the node is up.
QuietUnlessUp == phase # "up" => asked = Nothing /\ writer = [w \in Writer |-> Idle]

\* Peers are asked for what follows the mark, once there is something to follow.
AskedIsHeld ==
  asked # Nothing =>
    asked \in Nat /\ asked + 1 \in DOMAIN recalled /\ 1..asked \subseteq LogHeld

\* A command that runs has an incident of the operator's, and a number once it took one.
WritersWell ==
  \A w \in Writer :
    /\ writer[w].at = "idle" => writer[w] = Idle
    /\ writer[w].at # "idle" => writer[w].seq \in Own /\ writer[w].incident \in Drafts

\* A number is taken with the lock of the log: nothing but a returned event is stored
\* under it meanwhile.
NumberIsNext ==
  \A w \in Writer : writer[w].at = "numbered" =>
    /\ appender = w
    /\ writer[w].incident \notin table
    /\ 1..(writer[w].seq - 1) \subseteq LogHeld
    /\ Held(writer[w].seq, Nothing)

\* What a command stored, or announced, is there.
StoredIsHeld ==
  \A w \in Writer : writer[w].at \in {"stored", "announced"} =>
    Held(writer[w].seq, writer[w].incident)

\* The inductive invariant.
StartInv ==
  /\ StartTypeOK
  /\ LogIsContiguous /\ LogIsLinked /\ ReturnedInPlace
  /\ AnnouncedIsHeld /\ OneEventEach
  /\ PendingUnlinked /\ QuietUnlessUp /\ AskedIsHeld
  /\ WritersWell /\ NumberIsNext /\ StoredIsHeld

\* What the log and the announcements say.
LogInv ==
  /\ LogIsContiguous /\ LogIsLinked /\ ReturnedInPlace /\ AnnouncedIsHeld /\ OneEventEach

-----------------------------------------------------------------------------
(* The log.                                                                *)

\* The numbers the node computes: the log holds 1..m, the next number is m + 1,
\* the mark is m.
LEMMA MarksOfLog ==
  ASSUME LogIsContiguous
  PROVE  \E m \in 0..MaxOwn : LogHeld = 1..m /\ NextOwn = m + 1 /\ OwnMark = m
<1>1. PICK m \in 0..MaxOwn : LogHeld = 1..m
  BY DEF LogIsContiguous
<1>2. MaxOwn \in Nat
  BY StartBounds
<1>3. NextOwn = m + 1
  <2> DEFINE Next(s) == (\A held \in LogHeld : held < s) /\ (s = 1 \/ s - 1 \in LogHeld)
  <2>1. m + 1 \in 1..(MaxOwn + 1) /\ Next(m + 1)
    BY <1>1, <1>2
  <2>2. \A s \in 1..(MaxOwn + 1) : Next(s) => s = m + 1
    <3> SUFFICES ASSUME NEW s \in 1..(MaxOwn + 1), Next(s) PROVE s = m + 1
      OBVIOUS
    <3>1. s <= m + 1
      BY <1>1, <1>2
    <3>2. m >= 1 => m < s
      BY <1>1, <1>2
    <3> QED
      BY <1>2, <3>1, <3>2
  <2> HIDE DEF Next
  <2>3. NextOwn = CHOOSE s \in 1..(MaxOwn + 1) : Next(s)
    BY DEF NextOwn, Next
  <2> QED
    BY <2>1, <2>2, <2>3
<1>4. OwnMark = m
  <2> DEFINE Mark(n) == 1..n \subseteq LogHeld /\ n + 1 \notin LogHeld
  <2>1. Mark(m)
    BY <1>1, <1>2
  <2>2. \A n \in 0..MaxOwn : Mark(n) => n = m
    <3> SUFFICES ASSUME NEW n \in 0..MaxOwn, Mark(n) PROVE n = m
      OBVIOUS
    <3>1. n >= 1 => n <= m
      BY <1>1, <1>2
    <3>2. ~(n + 1 <= m)
      BY <1>1, <1>2
    <3> QED
      BY <1>2, <3>1, <3>2
  <2> HIDE DEF Mark
  <2>3. OwnMark = CHOOSE n \in 0..MaxOwn : Mark(n)
    BY DEF OwnMark, Mark
  <2> QED
    BY <2>1, <2>2, <2>3
<1> QED
  BY <1>1, <1>3, <1>4

\* A step that leaves the log alone leaves what it says.
LEMMA LogUntouched ==
  ASSUME LogInv, UNCHANGED <<recalled, log, announced>>, linked \subseteq linked'
  PROVE  LogInv' /\ LogHeld' = LogHeld /\ \A s, i : Held(s, i)' <=> Held(s, i)
<1>1. LogHeld' = LogHeld
  BY DEF LogHeld
<1> QED
  BY <1>1
  DEF LogInv, LogIsContiguous, LogIsLinked, ReturnedInPlace, AnnouncedIsHeld, OneEventEach,
      Held

\* An incident without an event, stored under the next number, keeps the log in
\* order; every number that was taken stays taken by what took it.
LEMMA LogGrows ==
  ASSUME LogInv, log \in [Own -> AllIncidents \cup {Nothing}], recalled \in {<<>>, Kept},
         NEW s \in Own, NEW i \in AllIncidents,
         s \notin LogHeld, 1..(s - 1) \subseteq LogHeld,
         \A t \in LogHeld : log[t] # i,
         i \in ToSet(Kept) => s \in DOMAIN recalled /\ i = recalled[s],
         log' = [log EXCEPT ![s] = i], linked' = linked \cup {i},
         UNCHANGED <<recalled, announced>>,
         \A a \in announced : a[1] \in Own /\ a[2] # Nothing
  PROVE  /\ LogInv' /\ LogHeld' = LogHeld \cup {s} /\ log' \in [Own -> AllIncidents \cup {Nothing}]
         /\ Held(s, i)'
         /\ \A r \in Own : \A j : Held(r, j) /\ j # Nothing => Held(r, j)'
         /\ \A r \in Own : Held(r, Nothing) /\ (r = s => i \in ToSet(Kept)) => Held(r, Nothing)'
<1>1. i # Nothing
  BY StartBounds
<1>2. LogHeld' = LogHeld \cup {s}
  BY <1>1 DEF LogHeld
<1>3. /\ log'[s] = i /\ \A r \in Own : r # s => log'[r] = log[r]
      /\ log' \in [Own -> AllIncidents \cup {Nothing}]
  OBVIOUS
<1>4. log[s] = Nothing /\ LogHeld \subseteq Own
  BY DEF LogHeld
<1>5. LogIsContiguous'
  <2>1. PICK m \in 0..MaxOwn : LogHeld = 1..m
    BY DEF LogInv, LogIsContiguous
  <2>2. MaxOwn \in Nat
    BY StartBounds
  <2>3. s = m + 1
    <3>1. ~(s <= m)
      BY <2>1, <2>2 DEF Own
    <3>2. s - 1 >= 1 => s - 1 <= m
      BY <2>1, <2>2 DEF Own
    <3> QED
      BY <2>2, <3>1, <3>2 DEF Own
  <2>4. LogHeld' = 1..(m + 1) /\ m + 1 \in 0..MaxOwn
    BY <1>2, <2>1, <2>2, <2>3 DEF Own
  <2> QED
    BY <2>4 DEF LogIsContiguous
<1>6. LogIsLinked' /\ ReturnedInPlace' /\ OneEventEach'
  BY <1>2, <1>3, <1>4 DEF LogInv, LogIsLinked, ReturnedInPlace, OneEventEach
<1>7. \A r \in Own : \A j : Held(r, j) /\ j # Nothing => Held(r, j)'
  <2> SUFFICES ASSUME NEW r \in Own, NEW j, Held(r, j), j # Nothing PROVE Held(r, j)'
    OBVIOUS
  <2>1. CASE r # s
    BY <1>3, <2>1 DEF Held
  <2>2. CASE r = s
    <3>1. \A t \in DOMAIN recalled : recalled[t] # Nothing
      BY StartBounds DEF AllIncidents, ToSet
    <3> QED
      BY <1>4, <2>2, <3>1 DEF Held
  <2> QED
    BY <2>1, <2>2
<1>8. AnnouncedIsHeld'
  BY <1>7 DEF LogInv, AnnouncedIsHeld, Held
<1>9. \A r \in Own : Held(r, Nothing) /\ (r = s => i \in ToSet(Kept)) => Held(r, Nothing)'
  BY <1>3 DEF Held
<1> QED
  BY <1>2, <1>3, <1>5, <1>6, <1>7, <1>8, <1>9 DEF LogInv, Held

-----------------------------------------------------------------------------
(* The steps.                                                              *)

\* What the threads hold, and what they are about to do.
ThreadInv ==
  /\ QuietUnlessUp /\ AskedIsHeld
  /\ WritersWell /\ NumberIsNext /\ StoredIsHeld

\* A step that touches neither the log nor a thread, and takes no draft into the table.
LEMMA RestUntouched ==
  ASSUME StartInv, UNCHANGED <<recalled, log, linked, announced, writer, asked, appender>>,
         table' \cap Drafts = table \cap Drafts, phase = "up" => phase' = "up"
  PROVE  LogInv' /\ ThreadInv'
<1>1. LogInv' /\ LogHeld' = LogHeld /\ \A s, i : Held(s, i)' <=> Held(s, i)
  BY LogUntouched DEF StartInv, LogInv
<1>2. QuietUnlessUp' /\ AskedIsHeld' /\ WritersWell'
  BY <1>1 DEF StartInv, QuietUnlessUp, AskedIsHeld, WritersWell
<1>3. NumberIsNext' /\ StoredIsHeld'
  BY <1>1 DEF StartInv, NumberIsNext, StoredIsHeld, WritersWell
<1> QED
  BY <1>1, <1>2, <1>3 DEF ThreadInv

\* The steps of coming up, and the arrival of a peer's incident.
LEMMA StartupKeepsInv ==
  ASSUME StartInv,
         \/ \E on \in BOOLEAN : LoadOrCreate(on)
         \/ SaveKey \/ SaveFails \/ OpenDatabase \/ RegisterNode \/ Serve
         \/ \E i \in Foreign : Arrive(i)
  PROVE  StartInv'
<1>1. StartTypeOK'
  <2>1. ASSUME NEW on \in BOOLEAN, LoadOrCreate(on) PROVE StartTypeOK'
    BY <2>1 DEF StartInv, StartTypeOK, LoadOrCreate, disk
  <2>2. CASE SaveKey \/ SaveFails
    BY <2>2 DEF StartInv, StartTypeOK, SaveKey, SaveFails, disk
  <2>3. CASE OpenDatabase
    BY <2>3 DEF StartInv, StartTypeOK, OpenDatabase, disk, AwaitingBackfill
  <2>4. CASE RegisterNode \/ Serve
    BY <2>4 DEF StartInv, StartTypeOK, RegisterNode, Serve, disk, AwaitingBackfill
  <2>5. ASSUME NEW i \in Foreign, Arrive(i) PROVE StartTypeOK'
    BY <2>5 DEF StartInv, StartTypeOK, Arrive, disk, AllIncidents
  <2> QED
    BY <2>1, <2>2, <2>3, <2>4, <2>5
<1>2. PendingUnlinked'
  BY DEF StartInv, PendingUnlinked, LoadOrCreate, SaveKey, SaveFails, OpenDatabase,
         RegisterNode, Serve, Arrive, disk, AwaitingBackfill
<1>3. /\ UNCHANGED <<recalled, log, linked, announced, writer, asked, appender>>
      /\ phase = "up" => phase' = "up"
  BY DEF LoadOrCreate, SaveKey, SaveFails, OpenDatabase, RegisterNode, Serve, Arrive, disk
<1>4. table' \cap Drafts = table \cap Drafts
  BY FreshIncidents
  DEF LoadOrCreate, SaveKey, SaveFails, OpenDatabase, RegisterNode, Serve, Arrive, disk
<1> QED
  BY <1>1, <1>2, <1>3, <1>4, RestUntouched DEF StartInv, LogInv, ThreadInv

\* A backfill stores what has no event under the next number, before any command runs.
LEMMA BackfillKeepsInv ==
  ASSUME StartInv, NEW i \in Legacy, Backfill(i)
  PROVE  StartInv'
<1>1. PICK m \in 0..MaxOwn : LogHeld = 1..m /\ NextOwn = m + 1
  BY MarksOfLog DEF StartInv
<1>2. /\ m + 1 \in Own /\ m + 1 \notin LogHeld /\ 1..((m + 1) - 1) \subseteq LogHeld
      /\ log' = [log EXCEPT ![m + 1] = i] /\ linked' = linked \cup {i}
      /\ i \in AllIncidents /\ i \notin linked /\ i \in table
  BY <1>1, StartBounds
  DEF Backfill, StoreLinked, Own, AllIncidents, StartInv, PendingUnlinked
<1>3. UNCHANGED <<recalled, table, announced, writer, asked, appender, phase>> /\ phase # "up"
  BY DEF Backfill
<1>4. /\ LogInv' /\ LogHeld' = LogHeld \cup {m + 1}
      /\ log' \in [Own -> AllIncidents \cup {Nothing}]
  <2>1. i \notin ToSet(Kept)
    BY FreshIncidents
  <2>2. \A t \in LogHeld : log[t] # i
    BY <1>2 DEF StartInv, LogIsLinked
  <2>3. \A a \in announced : a[1] \in Own /\ a[2] # Nothing
    BY StartBounds DEF StartInv, StartTypeOK, AllIncidents
  <2> QED
    BY <1>2, <1>3, <2>1, <2>2, <2>3, LogGrows DEF StartInv, StartTypeOK, LogInv
<1>5. StartTypeOK' /\ PendingUnlinked'
  BY <1>2, <1>3, <1>4 DEF Backfill, StartInv, StartTypeOK, PendingUnlinked
<1>6. ThreadInv'
  BY <1>3
  DEF ThreadInv, StartInv, QuietUnlessUp, AskedIsHeld, WritersWell, NumberIsNext,
      StoredIsHeld, Idle
<1> QED
  BY <1>4, <1>5, <1>6 DEF StartInv, LogInv, ThreadInv

\* A command reads the next number under the guard, for an incident nobody has seen.
LEMMA NumberKeepsInv ==
  ASSUME StartInv, NEW w \in Writer, NEW i \in Drafts, Number(w, i)
  PROVE  StartInv'
<1>1. PICK m \in 0..MaxOwn : LogHeld = 1..m /\ NextOwn = m + 1
  BY MarksOfLog DEF StartInv
<1>2. /\ writer' = [writer EXCEPT ![w] = [at |-> "numbered", seq |-> m + 1, incident |-> i]]
      /\ appender = Nothing /\ appender' = w /\ phase = "up" /\ phase' = "up"
      /\ i \notin table /\ m + 1 \in Own
      /\ UNCHANGED <<recalled, disk, announced, asked, pending>>
  BY <1>1, StartBounds DEF Number, InUse, Own
<1>3. LogInv' /\ LogHeld' = LogHeld /\ \A s, j : Held(s, j)' <=> Held(s, j)
  BY <1>2, LogUntouched DEF disk, StartInv, LogInv
<1>4. StartTypeOK' /\ PendingUnlinked'
  BY <1>2 DEF Number, disk, StartInv, StartTypeOK, PendingUnlinked
<1>5. QuietUnlessUp' /\ AskedIsHeld' /\ WritersWell'
  BY <1>2, <1>3 DEF StartInv, StartTypeOK, QuietUnlessUp, AskedIsHeld, WritersWell
<1>6. NumberIsNext'
  <2> SUFFICES ASSUME NEW v \in Writer, writer'[v].at = "numbered"
               PROVE  /\ appender' = v
                      /\ writer'[v].incident \notin table'
                      /\ 1..(writer'[v].seq - 1) \subseteq LogHeld'
                      /\ Held(writer[v].seq, Nothing)'
    BY DEF NumberIsNext
  <2>1. v = w
    BY <1>2, StartBounds DEF StartInv, NumberIsNext, StartTypeOK
  <2>2. log[m + 1] = Nothing
    BY <1>1, <1>2 DEF LogHeld
  <2> QED
    BY <1>1, <1>2, <1>3, <2>1, <2>2 DEF disk, Held, StartInv, StartTypeOK
<1>7. StoredIsHeld'
  BY <1>2, <1>3 DEF StoredIsHeld, StartInv, StartTypeOK
<1> QED
  BY <1>3, <1>4, <1>5, <1>6, <1>7 DEF StartInv, LogInv

\* The guarded store: the number is still free, or peers returned its event meanwhile.
LEMMA StoreKeepsInv ==
  ASSUME StartInv, NEW w \in Writer, StoreOwn(w)
  PROVE  StartInv'
<1>0. PICK s \in Own, i \in Drafts : s = writer[w].seq /\ i = writer[w].incident
  BY DEF StoreOwn, StartInv, WritersWell
<1>1. /\ writer[w].at = "numbered" /\ i \notin table
      /\ 1..(s - 1) \subseteq LogHeld /\ Held(s, Nothing)
      /\ phase = "up"
      /\ \A v \in Writer : v # w => writer[v].at # "numbered"
  BY <1>0, StartBounds
  DEF StoreOwn, StartInv, WritersWell, NumberIsNext, QuietUnlessUp, Idle, StartTypeOK
<1>2. /\ writer' = [writer EXCEPT ![w].at = "stored"] /\ appender' = Nothing
      /\ UNCHANGED <<recalled, phase, pending, asked, announced>>
      /\ ApplyOwn(s, i)
  BY <1>0 DEF StoreOwn
<1>3. /\ \A v \in Writer : /\ writer'[v].seq = writer[v].seq
                           /\ writer'[v].incident = writer[v].incident
                           /\ writer'[v].at = IF v = w THEN "stored" ELSE writer[v].at
                           /\ v # w => writer'[v] = writer[v]
      /\ writer' \in [Writer -> [at : {"idle", "numbered", "stored", "announced"},
                                 seq : Own \cup {Nothing}, incident : Drafts \cup {Nothing}]]
  BY <1>2 DEF StartInv, StartTypeOK
<1>4. /\ LogInv' /\ LogHeld \subseteq LogHeld' /\ Held(s, i)'
      /\ log' \in [Own -> AllIncidents \cup {Nothing}]
      /\ \A r \in Own : \A j : Held(r, j) /\ j # Nothing => Held(r, j)'
      /\ linked \subseteq linked' /\ linked' \ linked \subseteq {i}
      /\ table \subseteq table' /\ table' \ table \subseteq {i} /\ linked' \subseteq table'
  <2>1. CASE log[s] = Nothing
    <3>1. log' = [log EXCEPT ![s] = i] /\ linked' = linked \cup {i} /\ table' = table \cup {i}
      BY <1>2, <2>1 DEF ApplyOwn
    <3>2. i \in AllIncidents /\ i \notin ToSet(Kept)
      BY <1>1, FreshIncidents DEF AllIncidents
    <3>3. s \notin LogHeld /\ \A t \in LogHeld : log[t] # i
      BY <1>1, <2>1 DEF LogHeld, StartInv, StartTypeOK, LogIsLinked
    <3>4. \A a \in announced : a[1] \in Own /\ a[2] # Nothing
      BY StartBounds DEF StartInv, StartTypeOK, AllIncidents
    <3>5. /\ LogInv' /\ LogHeld' = LogHeld \cup {s} /\ Held(s, i)'
          /\ log' \in [Own -> AllIncidents \cup {Nothing}]
          /\ \A r \in Own : \A j : Held(r, j) /\ j # Nothing => Held(r, j)'
      BY <1>1, <1>2, <3>1, <3>2, <3>3, <3>4, LogGrows DEF StartInv, StartTypeOK, LogInv
    <3> QED
      BY <3>1, <3>5 DEF StartInv, StartTypeOK
  <2>2. CASE log[s] # Nothing
    <3>1. UNCHANGED <<log, table, linked>>
      BY <1>2, <2>2 DEF ApplyOwn
    <3>2. Held(s, i)
      BY <1>1, <2>2 DEF Held
    <3>3. LogInv' /\ LogHeld' = LogHeld /\ \A r, j : Held(r, j)' <=> Held(r, j)
      BY <1>2, <3>1, LogUntouched DEF StartInv, LogInv
    <3> QED
      BY <3>1, <3>2, <3>3 DEF StartInv, StartTypeOK
  <2> QED
    BY <2>1, <2>2
<1>5. StartTypeOK'
  <2>1. table' \subseteq AllIncidents
    BY <1>1, <1>4 DEF StartInv, StartTypeOK, AllIncidents
  <2>2. flagged' \in BOOLEAN
    BY <1>2 DEF ApplyOwn, StartInv, StartTypeOK
  <2> QED
    BY <1>2, <1>3, <1>4, <2>1, <2>2 DEF StoreOwn, StartInv, StartTypeOK
<1>6. PendingUnlinked'
  BY <1>1, <1>2, <1>4, FreshIncidents DEF PendingUnlinked, StartInv, StartTypeOK
<1>7. QuietUnlessUp' /\ AskedIsHeld' /\ WritersWell' /\ NumberIsNext'
  BY <1>1, <1>2, <1>3, <1>4
  DEF StartInv, QuietUnlessUp, AskedIsHeld, WritersWell, NumberIsNext
<1>8. StoredIsHeld'
  <2> SUFFICES ASSUME NEW v \in Writer, writer'[v].at \in {"stored", "announced"}
               PROVE  Held(writer[v].seq, writer[v].incident)'
    BY DEF StoredIsHeld
  <2>1. CASE v = w
    BY <1>0, <1>3, <1>4, <2>1 DEF Held
  <2>2. CASE v # w
    <3>1. PICK r \in Own, j \in Drafts :
            r = writer[v].seq /\ j = writer[v].incident /\ Held(r, j)
      BY <1>3, <2>2 DEF StartInv, StoredIsHeld, WritersWell
    <3>2. Held(r, j)'
      BY <1>4, <3>1, StartBounds DEF AllIncidents
    <3> QED
      BY <1>3, <2>2, <3>1, <3>2 DEF Held
  <2> QED
    BY <2>1, <2>2
<1> QED
  BY <1>4, <1>5, <1>6, <1>7, <1>8 DEF StartInv, LogInv

\* What follows the store: the event is announced as it was stored, and the command ends.
LEMMA AnswerKeepsInv ==
  ASSUME StartInv, NEW w \in Writer, Announce(w) \/ Answer(w)
  PROVE  StartInv'
<1>1. /\ UNCHANGED <<recalled, disk, phase, pending, appender, asked>>
      /\ writer[w].at \in {"stored", "announced"}
      /\ \A v \in Writer : v # w => writer'[v] = writer[v]
      /\ \/ writer'[w] = [writer[w] EXCEPT !.at = "announced"]
         \/ writer'[w] = Idle
      /\ DOMAIN writer' = Writer
  BY DEF Announce, Answer, StartInv, StartTypeOK
<1>2. PICK s \in Own, i \in Drafts :
        s = writer[w].seq /\ i = writer[w].incident /\ Held(s, i)
  BY <1>1 DEF StartInv, StoredIsHeld, WritersWell
<1>3. announced' \subseteq announced \cup {<<s, i>>}
  BY <1>2 DEF Announce, Answer
<1>4. /\ LogIsContiguous' /\ LogIsLinked' /\ ReturnedInPlace' /\ OneEventEach'
      /\ LogHeld' = LogHeld /\ \A r, j : Held(r, j)' <=> Held(r, j)
  BY <1>1
  DEF disk, StartInv, LogIsContiguous, LogIsLinked, ReturnedInPlace, OneEventEach, LogHeld, Held
<1>5. AnnouncedIsHeld'
  BY <1>1, <1>2, <1>3 DEF disk, StartInv, AnnouncedIsHeld, Held
<1>6. StartTypeOK' /\ PendingUnlinked'
  <2> DEFINE Doing == [at : {"idle", "numbered", "stored", "announced"},
                       seq : Own \cup {Nothing}, incident : Drafts \cup {Nothing}]
  <2>1. writer' \in [Writer -> Doing]
    <3>1. writer \in [Writer -> Doing]
      BY DEF StartInv, StartTypeOK
    <3>2. Idle \in Doing /\ [writer[w] EXCEPT !.at = "announced"] \in Doing
      BY <3>1 DEF Idle
    <3>3. \/ writer' = [writer EXCEPT ![w] = [writer[w] EXCEPT !.at = "announced"]]
          \/ writer' = [writer EXCEPT ![w] = Idle]
      BY DEF Announce, Answer
    <3> HIDE DEF Doing
    <3> QED
      BY <3>1, <3>2, <3>3
  <2>2. announced' \subseteq Own \X Drafts
    BY <1>3 DEF StartInv, StartTypeOK
  <2>3. nudge' \in BOOLEAN /\ UNCHANGED <<attached, crashes>>
    BY DEF Announce, Answer, StartInv, StartTypeOK
  <2> HIDE DEF Doing
  <2> QED
    BY <1>1, <2>1, <2>2, <2>3 DEF disk, StartInv, StartTypeOK, PendingUnlinked, Doing
<1>7. /\ \A v \in Writer : /\ writer'[v].at # "idle" => writer'[v].seq = writer[v].seq
                           /\ writer'[v].at # "idle" => writer'[v].incident = writer[v].incident
                           /\ writer'[v].at = "numbered" => v # w
      /\ writer'[w].at = "idle" => writer'[w] = Idle
  BY <1>1 DEF Idle, StartInv, StartTypeOK
<1>8. QuietUnlessUp' /\ AskedIsHeld' /\ WritersWell'
  BY <1>1, <1>4, <1>7
  DEF disk, StartInv, StartTypeOK, QuietUnlessUp, AskedIsHeld, WritersWell, Idle
<1>9. NumberIsNext' /\ StoredIsHeld'
  BY <1>1, <1>2, <1>4, <1>7 DEF disk, StartInv, NumberIsNext, StoredIsHeld, Idle, Held
<1> QED
  BY <1>4, <1>5, <1>6, <1>8, <1>9 DEF StartInv

\* A request carries the mark: what it asks for is the next event that is missing.
LEMMA AskKeepsInv ==
  ASSUME StartInv, AskPeers
  PROVE  StartInv'
<1>1. PICK m \in 0..MaxOwn : LogHeld = 1..m /\ OwnMark = m
  BY MarksOfLog DEF StartInv
<1>2. /\ UNCHANGED <<recalled, disk, phase, pending, appender, writer, announced>>
      /\ asked' = m /\ phase = "up" /\ m < Len(recalled) /\ asked = Nothing
  BY <1>1 DEF AskPeers
<1>3. /\ Len(recalled) \in Nat /\ DOMAIN recalled = 1..Len(recalled)
      /\ Len(recalled) <= MaxOwn /\ MaxOwn \in Nat
  BY StartBounds, FreshIncidents, EmptySeq, LenProperties DEF StartInv, StartTypeOK
<1>4. m \in Own \cup {0, Nothing} /\ m + 1 \in DOMAIN recalled
  BY <1>2, <1>3 DEF Own
<1>5. StartTypeOK' /\ PendingUnlinked'
  BY <1>2, <1>4 DEF AskPeers, disk, StartInv, StartTypeOK, PendingUnlinked
<1>6. LogInv' /\ LogHeld' = LogHeld /\ \A s, j : Held(s, j)' <=> Held(s, j)
  BY <1>2, LogUntouched DEF disk, StartInv, LogInv
<1>7. QuietUnlessUp' /\ AskedIsHeld'
  BY <1>1, <1>2, <1>4, <1>6 DEF StartInv, QuietUnlessUp, AskedIsHeld
<1>8. WritersWell' /\ NumberIsNext' /\ StoredIsHeld'
  BY <1>2, <1>6 DEF disk, StartInv, WritersWell, NumberIsNext, StoredIsHeld
<1> QED
  BY <1>5, <1>6, <1>7, <1>8 DEF StartInv, LogInv

\* Peers return an event of a lost database: it takes its place if that is free.
LEMMA ReturnKeepsInv ==
  ASSUME StartInv, Return
  PROVE  StartInv'
<1>1. PICK s \in DOMAIN recalled : s = asked + 1 /\ 1..(s - 1) \subseteq LogHeld
  BY DEF Return, StartInv, AskedIsHeld
<1>2. PICK i \in ToSet(Kept) : i = recalled[s]
  BY <1>1 DEF StartInv, StartTypeOK, ToSet
<1>3. /\ ApplyOwn(s, i) /\ asked' = Nothing /\ phase = "up"
      /\ UNCHANGED <<recalled, phase, pending, appender, writer, announced>>
  BY <1>1, <1>2 DEF Return
<1>4. s \in Own /\ i \in AllIncidents
  BY <1>1, <1>2, StartBounds, FreshIncidents, EmptySeq, LenProperties
  DEF StartInv, StartTypeOK, Own, AllIncidents
<1>5. /\ LogInv' /\ LogHeld \subseteq LogHeld'
      /\ log' \in [Own -> AllIncidents \cup {Nothing}]
      /\ \A r \in Own : \A j : Held(r, j) => Held(r, j)'
      /\ linked \subseteq linked' /\ linked' \ linked \subseteq {i}
      /\ table \subseteq table' /\ table' \ table \subseteq {i} /\ linked' \subseteq table'
  <2>1. CASE log[s] = Nothing
    <3>1. log' = [log EXCEPT ![s] = i] /\ linked' = linked \cup {i} /\ table' = table \cup {i}
      BY <1>3, <2>1 DEF ApplyOwn
    <3>2. s \notin LogHeld
      BY <2>1 DEF LogHeld
    <3>3. \A t \in LogHeld : log[t] # i
      <4> SUFFICES ASSUME NEW t \in LogHeld, log[t] = i PROVE FALSE
        OBVIOUS
      <4>1. t \in DOMAIN recalled /\ recalled[t] = recalled[s]
        BY <1>2 DEF StartInv, ReturnedInPlace
      <4>2. t = s
        BY <1>1, <4>1, FreshIncidents DEF StartInv, StartTypeOK
      <4> QED
        BY <3>2, <4>2
    <3>4. \A a \in announced : a[1] \in Own /\ a[2] # Nothing
      BY StartBounds DEF StartInv, StartTypeOK, AllIncidents
    <3>5. /\ LogInv' /\ LogHeld' = LogHeld \cup {s}
          /\ log' \in [Own -> AllIncidents \cup {Nothing}]
          /\ \A r \in Own : \A j : Held(r, j) /\ j # Nothing => Held(r, j)'
          /\ \A r \in Own : Held(r, Nothing) => Held(r, Nothing)'
      BY <1>1, <1>2, <1>3, <1>4, <3>1, <3>2, <3>3, <3>4, LogGrows
      DEF StartInv, StartTypeOK, LogInv
    <3> QED
      BY <3>1, <3>5 DEF StartInv, StartTypeOK
  <2>2. CASE log[s] # Nothing
    <3>1. UNCHANGED <<log, table, linked>>
      BY <1>3, <2>2 DEF ApplyOwn
    <3>2. LogInv' /\ LogHeld' = LogHeld /\ \A r, j : Held(r, j)' <=> Held(r, j)
      BY <1>3, <3>1, LogUntouched DEF StartInv, LogInv
    <3> QED
      BY <3>1, <3>2 DEF StartInv, StartTypeOK
  <2> QED
    BY <2>1, <2>2
<1>6. StartTypeOK'
  <2>1. table' \subseteq AllIncidents
    BY <1>4, <1>5 DEF StartInv, StartTypeOK
  <2>2. flagged' \in BOOLEAN /\ nudge' \in BOOLEAN
    BY <1>3 DEF Return, ApplyOwn, StartInv, StartTypeOK
  <2> QED
    BY <1>3, <1>5, <2>1, <2>2 DEF Return, StartInv, StartTypeOK
<1>7. PendingUnlinked'
  BY <1>3, <1>5, FreshIncidents DEF PendingUnlinked, StartInv, StartTypeOK
<1>8. QuietUnlessUp' /\ AskedIsHeld' /\ WritersWell'
  BY <1>3 DEF StartInv, QuietUnlessUp, AskedIsHeld, WritersWell
<1>9. NumberIsNext' /\ StoredIsHeld'
  <2>1. ASSUME NEW v \in Writer, writer[v].at # "idle"
        PROVE  /\ Held(writer[v].seq, Nothing) => Held(writer[v].seq, Nothing)'
               /\ Held(writer[v].seq, writer[v].incident)
                    => Held(writer[v].seq, writer[v].incident)'
    <3>1. PICK r \in Own, j \in Drafts : r = writer[v].seq /\ j = writer[v].incident
      BY <2>1 DEF StartInv, WritersWell
    <3> QED
      BY <1>3, <1>5, <3>1 DEF Held
  <2>2. \A v \in Writer : writer[v].at # "idle" => writer[v].incident \in Drafts
    BY DEF StartInv, WritersWell
  <2>3. NumberIsNext'
    BY <1>2, <1>3, <1>5, <2>1, <2>2, FreshIncidents DEF StartInv, NumberIsNext
  <2>4. StoredIsHeld'
    BY <1>3, <2>1 DEF StartInv, StoredIsHeld
  <2> QED
    BY <2>3, <2>4
<1> QED
  BY <1>5, <1>6, <1>7, <1>8, <1>9 DEF StartInv, LogInv

\* A process that ends leaves the disk, and no thread.
LEMMA CrashKeepsInv ==
  ASSUME StartInv, Crash
  PROVE  StartInv'
<1>1. LogInv' /\ LogHeld' = LogHeld /\ \A s, j : Held(s, j)' <=> Held(s, j)
  BY LogUntouched DEF Crash, disk, StartInv, LogInv
<1>2. StartTypeOK'
  <2>1. Idle \in [at : {"idle", "numbered", "stored", "announced"},
                  seq : Own \cup {Nothing}, incident : Drafts \cup {Nothing}]
    BY DEF Idle
  <2>2. crashes' \in 0..MaxCrash
    BY StartBounds DEF Crash, StartInv, StartTypeOK
  <2> QED
    BY <2>1, <2>2 DEF Crash, disk, StartInv, StartTypeOK
<1>3. PendingUnlinked' /\ ThreadInv'
  BY DEF Crash, PendingUnlinked, ThreadInv, QuietUnlessUp, AskedIsHeld, WritersWell,
         NumberIsNext, StoredIsHeld, Idle
<1> QED
  BY <1>1, <1>2, <1>3 DEF StartInv, LogInv, ThreadInv

\* The indexer takes a nudge, or nothing of the node's own moves.
LEMMA NudgeKeepsInv ==
  ASSUME StartInv, nudge' \in BOOLEAN,
         UNCHANGED <<recalled, disk, phase, attached, pending, appender, writer, asked,
                     announced, crashes>>
  PROVE  StartInv'
<1>1. LogInv' /\ ThreadInv'
  BY RestUntouched DEF disk
<1>2. StartTypeOK' /\ PendingUnlinked'
  BY DEF disk, StartInv, StartTypeOK, PendingUnlinked
<1> QED
  BY <1>1, <1>2 DEF StartInv, LogInv, ThreadInv

\* Every step of the node keeps the invariant.
LEMMA StartStays == StartInv /\ [StartNext]_startVars => StartInv'
<1> SUFFICES ASSUME StartInv, [StartNext]_startVars PROVE StartInv'
  OBVIOUS
<1>1. CASE UNCHANGED startVars
  BY <1>1, NudgeKeepsInv DEF startVars, memory, disk, StartInv, StartTypeOK
<1>2. CASE StartNext
  BY <1>2, StartupKeepsInv, BackfillKeepsInv, NumberKeepsInv, StoreKeepsInv, AnswerKeepsInv,
     AskKeepsInv, ReturnKeepsInv, CrashKeepsInv
  DEF StartNext, StartStep, AppendStep
<1> QED
  BY <1>1, <1>2

\* Whatever the directory holds when the process first starts.
LEMMA StartBegins == StartInit => StartInv
<1> SUFFICES ASSUME StartInit PROVE StartInv
  OBVIOUS
<1>1. LogHeld = {}
  BY DEF StartInit, LogHeld
<1>2. LogIsContiguous
  <2>1. 0 \in 0..MaxOwn /\ 1..0 = {}
    BY StartBounds
  <2> QED
    BY <1>1, <2>1 DEF LogIsContiguous
<1>3. LogIsLinked /\ ReturnedInPlace /\ OneEventEach /\ AnnouncedIsHeld
  BY <1>1 DEF StartInit, LogIsLinked, ReturnedInPlace, OneEventEach, AnnouncedIsHeld
<1>4. /\ PendingUnlinked /\ QuietUnlessUp /\ AskedIsHeld
      /\ WritersWell /\ NumberIsNext /\ StoredIsHeld
  BY DEF StartInit, PendingUnlinked, QuietUnlessUp, AskedIsHeld, WritersWell, NumberIsNext,
         StoredIsHeld, Idle
<1>5. StartTypeOK
  <2>1. 0 \in 0..MaxCrash
    BY StartBounds
  <2>2. writer \in [Writer -> [at : {"idle", "numbered", "stored", "announced"},
                               seq : Own \cup {Nothing}, incident : Drafts \cup {Nothing}]]
    BY DEF StartInit, Idle
  <2> QED
    BY <2>1, <2>2 DEF StartInit, StartTypeOK, AllIncidents
<1> QED
  BY <1>2, <1>3, <1>4, <1>5 DEF StartInv

-----------------------------------------------------------------------------
(* Theorems.                                                               *)

\* Starting, crashing, backfilling and serving any number of commands and returned events,
\* the node never gives an incident two events, and the log holds what was announced
\* (append_local_event, backfill_legacy_incidents).
THEOREM OwnEventsHold == StartSpec => []OwnEventsAreSound
<1>1. StartInv => OwnEventsAreSound
  BY DEF StartInv, OwnEventsAreSound
<1> QED
  BY <1>1, StartBegins, StartStays, PTL DEF StartSpec

\* What a number of the node's log says, it says for good.
EventsStand == \A s \in LogHeld : log'[s] = log[s]

\* No step of the node gives a number that is taken another event: a backfill goes past the
\* highest number (next_local_sequence), the other stores find the place free (apply_event).
THEOREM OwnEventsStand == StartSpec => [][EventsStand]_startVars
<1>1. StartInv /\ [StartNext]_startVars => [EventsStand]_startVars
  <2> SUFFICES ASSUME StartInv, StartNext PROVE EventsStand
    OBVIOUS
  <2>1. CASE \E i \in Legacy : Backfill(i)
    <3>1. PICK m \in 0..MaxOwn : LogHeld = 1..m /\ NextOwn = m + 1
      BY MarksOfLog DEF StartInv
    <3>2. m + 1 \notin LogHeld
      BY <3>1, StartBounds
    <3>3. \E i : log' = [log EXCEPT ![m + 1] = i]
      BY <2>1, <3>1 DEF Backfill, StoreLinked
    <3> QED
      BY <3>2, <3>3 DEF StartInv, StartTypeOK, EventsStand, LogHeld
  <2>2. CASE Return \/ \E w \in Writer : StoreOwn(w)
    <3>1. \/ \E s, i : log[s] = Nothing /\ log' = [log EXCEPT ![s] = i]
          \/ UNCHANGED log
      BY <2>2 DEF Return, StoreOwn, ApplyOwn
    <3> QED
      BY <3>1 DEF StartInv, StartTypeOK, LogHeld, EventsStand
  <2>3. CASE UNCHANGED log
    BY <2>3 DEF EventsStand
  <2> QED
    BY <2>1, <2>2, <2>3
    DEF StartNext, StartStep, AppendStep, LoadOrCreate, SaveKey, SaveFails, OpenDatabase,
        RegisterNode, Serve, Crash, Announce, Answer, Number, AskPeers, Arrive, disk
<1> QED
  BY <1>1, StartBegins, StartStays, PTL DEF StartSpec

-----------------------------------------------------------------------------
(* Beside the indexer.                                                     *)

\* A step with the indexer running is a step of the node, or takes a nudge at most.
LEMMA IndexStepsNode ==
  ASSUME IndexNext
  PROVE  \/ StartNext
         \/ /\ nudge' \in {nudge, FALSE}
            /\ UNCHANGED <<recalled, disk, phase, attached, pending, appender, writer, asked,
                           announced, crashes>>
<1>1. CASE NodeStep \/ ServeIndexed \/ CrashIndex
  BY <1>1 DEF NodeStep, ServeIndexed, CrashIndex, StartNext, StartStep
<1>2. CASE TakeNudge \/ Sweep
  BY <1>2 DEF TakeNudge, Sweep, RunPass
<1>3. CASE UNCHANGED startVars
  BY <1>3 DEF startVars, memory
<1> QED
  BY <1>1, <1>2, <1>3
  DEF IndexNext, WorkerStep, ReadOutstanding, FetchBatch, EndBatch, Settle, EmbedOne,
      CommandEmbeds, ModelLeaves, ModelReturns

\* Every step with the indexer running keeps the node's invariant.
LEMMA IndexStays == StartInv /\ [IndexNext]_indexVars => StartInv'
<1> SUFFICES ASSUME StartInv, [IndexNext]_indexVars PROVE StartInv'
  OBVIOUS
<1>1. CASE StartNext \/ UNCHANGED indexVars
  BY <1>1, StartStays DEF indexVars
<1>2. CASE /\ nudge' \in {nudge, FALSE}
           /\ UNCHANGED <<recalled, disk, phase, attached, pending, appender, writer, asked,
                          announced, crashes>>
  BY <1>2, NudgeKeepsInv DEF StartInv, StartTypeOK
<1> QED
  BY <1>1, <1>2, IndexStepsNode

\* The indexer and its model, whatever they do, cost no event and no announcement.
THEOREM IndexedEventsHold == IndexSpec => []OwnEventsAreSound
<1>1. IndexInit => StartInv
  BY StartBegins DEF IndexInit
<1>2. StartInv => OwnEventsAreSound
  BY DEF StartInv, OwnEventsAreSound
<1> QED
  BY <1>1, <1>2, IndexStays, PTL DEF IndexSpec

\* Vectors are of texts the model takes, and the marks of a pass are of rows: a crash or an
\* arrival between two steps of a pass leaves no mark of an incident the table lacks.
THEOREM IndexTypeCorrect == IndexSpec => []IndexTypeOK
<1>1. IndexInit => StartInv /\ IndexTypeOK
  <2> SUFFICES ASSUME IndexInit PROVE StartInv /\ IndexTypeOK
    OBVIOUS
  <2>1. StartInv
    BY StartBegins DEF IndexInit
  <2>2. 0 \in 0..MaxOutage
    BY IndexBounds
  <2> QED
    BY <2>1, <2>2 DEF IndexInit, IndexTypeOK, StartInv
<1>2. StartInv /\ IndexTypeOK /\ [IndexNext]_indexVars => (StartInv /\ IndexTypeOK)'
  <2> SUFFICES ASSUME StartInv, IndexTypeOK, [IndexNext]_indexVars PROVE IndexTypeOK'
    BY IndexStays
  <2>1. StartTypeOK' /\ table \subseteq AllIncidents
    BY IndexStays DEF StartInv, StartTypeOK
  <2>2. CASE NodeStep \/ ServeIndexed
    <3>1. table \subseteq table'
      BY <2>2
      DEF NodeStep, ServeIndexed, LoadOrCreate, SaveKey, SaveFails, OpenDatabase, RegisterNode,
          Backfill, AppendStep, StoreOwn, ApplyOwn, Announce, Answer, Number, AskPeers, Return,
          Arrive, Serve, disk
    <3>2. /\ UNCHANGED <<vectors, model, attempted, batch, gained, indexing, failed, outages>>
          /\ worker' \in {worker, "read"}
      BY <2>2 DEF NodeStep, ServeIndexed, surroundings, thread
    <3> QED
      BY <2>1, <3>1, <3>2 DEF IndexTypeOK
  <2>3. CASE CrashIndex
    BY <2>1, <2>3 DEF CrashIndex, Crash, surroundings, IndexTypeOK
  <2>4. CASE \/ ReadOutstanding \/ FetchBatch \/ EndBatch \/ Settle \/ TakeNudge \/ Sweep
             \/ (\E i \in batch : EmbedOne(i)) \/ (\E i \in AllIncidents : CommandEmbeds(i))
    <3>1. UNCHANGED <<table, model, outages>>
      BY <2>4
      DEF ReadOutstanding, FetchBatch, EndBatch, Settle, TakeNudge, Sweep, RunPass, EmbedOne,
          CommandEmbeds, surroundings, startVars, disk
    <3>2. vectors' \subseteq AllIncidents \ Unembeddable
      BY <2>1, <2>4
      DEF ReadOutstanding, FetchBatch, EndBatch, Settle, TakeNudge, Sweep, RunPass, EmbedOne,
          CommandEmbeds, IndexTypeOK, Outstanding
    <3>3. /\ worker' \in {"gone", "read", "fetch", "embed", "settle", "wait"}
          /\ gained' \in BOOLEAN
      BY <2>4
      DEF ReadOutstanding, FetchBatch, EndBatch, Settle, TakeNudge, Sweep, RunPass, EmbedOne,
          CommandEmbeds, IndexTypeOK, thread
    <3>4. /\ attempted' \subseteq table /\ batch' \subseteq table
          /\ indexing' \subseteq table /\ failed' \subseteq table
      BY <2>4
      DEF ReadOutstanding, FetchBatch, EndBatch, Settle, TakeNudge, Sweep, RunPass, EmbedOne,
          CommandEmbeds, IndexTypeOK, thread, Outstanding
    <3> QED
      BY <2>1, <3>1, <3>2, <3>3, <3>4 DEF IndexTypeOK
  <2>5. CASE ModelLeaves \/ ModelReturns
    <3>1. model' \in BOOLEAN /\ UNCHANGED <<table, vectors, thread>>
      BY <2>5 DEF ModelLeaves, ModelReturns, startVars, disk
    <3>2. outages' \in 0..MaxOutage
      BY <2>5, IndexBounds DEF ModelLeaves, ModelReturns, IndexTypeOK
    <3> QED
      BY <2>1, <3>1, <3>2 DEF IndexTypeOK, thread
  <2>6. CASE UNCHANGED indexVars
    BY <2>1, <2>6 DEF indexVars, startVars, disk, IndexTypeOK
  <2> QED
    BY <2>2, <2>3, <2>4, <2>5, <2>6 DEF IndexNext, WorkerStep
<1> QED
  BY <1>1, <1>2, PTL DEF IndexSpec

-----------------------------------------------------------------------------
(* The local models *)

Waiters == {t \in Thread : doing[t] \in {"asleep", "woken"}}

\* The types, with the count of waiters a count.
Typed ==
  /\ busy \in BOOLEAN
  /\ doing \in [Thread -> Outside \cup Inside]
  /\ needs \in [Thread -> Engine]
  /\ child \in [Engine -> {"none", "loading", "serving", "dead"}]
  /\ holder \in [Engine -> Thread \cup {NoThread}]
  /\ children \in [Engine -> Nat]
  /\ deaths \in 0..MaxDeaths

Counted == waiting = Cardinality(Waiters)

\* Only threads with a question queue.
IndexersPass == \A t \in Indexer : doing[t] \in {"idle"} \cup Inside

\* The flag is set exactly while one asker is inside.
OneInside ==
  /\ \A t \in Asker : doing[t] \in Inside => busy
  /\ busy => \E t \in Asker : doing[t] \in Inside
  /\ \A t, u \in Asker : doing[t] \in Inside /\ doing[u] \in Inside => t = u

\* Whoever sleeps beside a free gate is about to be told.
NoneForgotten ==
  (~busy /\ \E t \in Asker : doing[t] = "asleep") =>
    \E t \in Asker : doing[t] \in {"woken", "leaving"}

\* The mutex of an engine is held by the thread that starts its child, and a
\* child that loads is being waited for.
MutexIsHeld ==
  /\ \A e \in Engine : holder[e] # NoThread =>
       /\ holder[e] \in Thread
       /\ doing[holder[e]] = "starting" /\ needs[holder[e]] = e
       /\ child[e] \in {"loading", "dead"}
  /\ \A t \in Thread : doing[t] = "starting" => holder[needs[t]] = t
  /\ \A e \in Engine : child[e] = "loading" => holder[e] # NoThread

GateInv ==
  /\ Typed /\ Counted /\ IndexersPass /\ OneInside /\ NoneForgotten
  /\ MutexIsHeld /\ OneServerEach

-----------------------------------------------------------------------------
(* The count of waiters.                                                   *)

\* There are finitely many waiters.
LEMMA FiniteWaiters == IsFiniteSet(Waiters) /\ Cardinality(Waiters) \in Nat
<1>1. IsFiniteSet(Thread)
  BY ModelBounds, FS_Union DEF Thread
<1>2. Waiters \in SUBSET Thread
  BY DEF Waiters
<1> QED
  BY <1>1, <1>2, FS_Subset, FS_CardinalityType

\* A step that moves nobody into or out of the queue leaves the count true.
LEMMA CountStays ==
  ASSUME Counted, waiting' = waiting,
         \A t \in Thread : doing'[t] \in {"asleep", "woken"} <=> doing[t] \in {"asleep", "woken"}
  PROVE  Counted'
<1>1. Waiters' = Waiters
  BY DEF Waiters
<1> QED
  BY <1>1 DEF Counted

\* A thread that joins the queue is counted, ...
LEMMA CountJoins ==
  ASSUME Counted, Typed, NEW t \in Thread, doing[t] \notin {"asleep", "woken"},
         Becomes(t, "asleep"), waiting' = waiting + 1
  PROVE  Counted'
<1>1. Waiters' = Waiters \cup {t}
  BY DEF Waiters, Becomes, Typed
<1>2. t \notin Waiters
  BY DEF Waiters
<1> QED
  BY <1>1, <1>2, FiniteWaiters, FS_AddElement DEF Counted

\* ... and one that goes in or gives up no longer is.
LEMMA CountLeaves ==
  ASSUME Counted, Typed, NEW t \in Thread, doing[t] \in {"asleep", "woken"},
         NEW what \in {"idle", "entering"}, Becomes(t, what), waiting' = waiting - 1
  PROVE  Counted'
<1>1. Waiters' = Waiters \ {t}
  BY DEF Waiters, Becomes, Typed
<1>2. t \in Waiters
  BY DEF Waiters
<1> QED
  BY <1>1, <1>2, FiniteWaiters, FS_RemoveElement DEF Counted

-----------------------------------------------------------------------------
(* The gate.                                                               *)

\* A thread enters the queue or the gate, looks again, gives up or wakes a sleeper: the
\* engines have no part in it.
GateStep(t) == Acquire(t) \/ LookAgain(t) \/ GiveUp(t) \/ NotifyOne(t)

\* A waiter has a question.
LEMMA WaiterAsks ==
  ASSUME IndexersPass, NEW t \in Thread, doing[t] \in {"asleep", "woken", "leaving"}
  PROVE  t \in Asker
BY DEF IndexersPass, Thread, Inside

\* The steps of the gate keep the invariant.
LEMMA GateKeepsInv ==
  ASSUME GateInv, NEW t \in Thread, GateStep(t)
  PROVE  GateInv'
<1> USE DEF GateInv
<1>1. Typed'
  BY DEF Typed, GateStep, Acquire, LookAgain, GiveUp, NotifyOne, Becomes, servers, gate,
         Outside, Inside, Thread
<1>2. Counted'
  <2>1. CASE Acquire(t)
    BY <2>1, CountJoins, CountStays DEF Acquire, Becomes, Typed
  <2>2. CASE LookAgain(t)
    BY <2>2, CountLeaves, CountStays DEF LookAgain, Becomes, Typed, gate
  <2>3. CASE GiveUp(t)
    BY <2>3, CountLeaves DEF GiveUp
  <2>4. CASE NotifyOne(t)
    BY <2>4, CountStays DEF NotifyOne, Becomes, Typed, gate, Thread
  <2> QED
    BY <2>1, <2>2, <2>3, <2>4 DEF GateStep
<1>3. IndexersPass'
  BY WaiterAsks, ModelBounds
  DEF IndexersPass, GateStep, Acquire, LookAgain, GiveUp, NotifyOne, Becomes, Typed,
      Thread, Inside
<1>4. OneInside'
  BY WaiterAsks
  DEF OneInside, GateStep, Acquire, LookAgain, GiveUp, NotifyOne, Becomes, Typed, gate,
      Thread, Inside
<1>5. NoneForgotten'
  <2>1. CASE Acquire(t)
    BY <2>1 DEF NoneForgotten, Acquire, Becomes, Typed, Thread
  <2>2. CASE LookAgain(t)
    BY <2>2 DEF NoneForgotten, LookAgain, Becomes, Typed, Thread, gate
  <2>3. CASE GiveUp(t)
    BY <2>3 DEF NoneForgotten, GiveUp
  <2>4. CASE NotifyOne(t)
    BY <2>4 DEF NoneForgotten, NotifyOne, Becomes, Typed, Thread, gate
  <2> QED
    BY <2>1, <2>2, <2>3, <2>4 DEF GateStep
<1>6. MutexIsHeld'
  <2>1. UNCHANGED servers
    BY DEF GateStep, Acquire, LookAgain, GiveUp, NotifyOne
  <2>2. /\ doing[t] \notin Inside
        /\ doing' \in [Thread -> Outside \cup Inside]
        /\ \A u \in Thread : doing[u] = "starting" <=> doing'[u] = "starting"
    BY <1>1 DEF GateStep, Acquire, LookAgain, GiveUp, NotifyOne, Becomes, Typed,
                Thread, Inside
  <2>3. \A u \in Thread : doing[u] = "starting" => needs'[u] = needs[u]
    BY <2>2 DEF GateStep, Acquire, LookAgain, GiveUp, NotifyOne, Typed, Inside
  <2> QED
    BY <2>1, <2>2, <2>3 DEF MutexIsHeld, servers, Typed
<1>7. OneServerEach'
  BY DEF OneServerEach, GateStep, Acquire, LookAgain, GiveUp, NotifyOne, servers
<1> QED
  BY <1>1, <1>2, <1>3, <1>4, <1>5, <1>6, <1>7

-----------------------------------------------------------------------------
(* The engines.                                                            *)


\* A thread that is done leaves the gate as it found it, but for its permit.
LEMMA LeaveKeepsGate ==
  ASSUME GateInv, NEW t \in Thread, doing[t] \in Inside, Leave(t)
  PROVE  /\ busy' \in BOOLEAN /\ doing' \in [Thread -> Outside \cup Inside]
         /\ needs' = needs
         /\ \A u \in Thread : u # t => doing'[u] = doing[u]
         /\ doing'[t] \notin Inside
         /\ Counted' /\ IndexersPass' /\ OneInside' /\ NoneForgotten'
<1>1. /\ busy' \in BOOLEAN /\ doing' \in [Thread -> Outside \cup Inside]
      /\ needs' = needs /\ waiting' = waiting
      /\ \A u \in Thread : u # t => doing'[u] = doing[u]
      /\ IF t \in Asker THEN doing'[t] = "leaving" /\ ~busy'
                        ELSE doing'[t] = "idle" /\ busy' = busy
  BY DEF GateInv, Typed, Leave, DropPermit, Becomes, gate, Outside, Inside
<1>2. Counted'
  BY <1>1, CountStays DEF GateInv, Inside
<1>3. IndexersPass' /\ OneInside' /\ NoneForgotten'
  BY <1>1, ModelBounds
  DEF GateInv, IndexersPass, OneInside, NoneForgotten, Thread, Inside
<1> QED
  BY <1>1, <1>2, <1>3 DEF Inside

\* A thread that moves on, inside, changes nothing at the gate.
LEMMA MoveKeepsGate ==
  ASSUME GateInv, NEW t \in Thread,
         doing[t] \in Inside \/ (t \in Indexer /\ doing[t] = "idle"),
         NEW what \in Inside, Becomes(t, what), UNCHANGED gate
  PROVE  /\ busy' \in BOOLEAN /\ doing' \in [Thread -> Outside \cup Inside]
         /\ \A u \in Thread : u # t => doing'[u] = doing[u]
         /\ doing'[t] = what
         /\ Counted' /\ IndexersPass' /\ OneInside' /\ NoneForgotten'
<1>1. /\ busy' = busy /\ doing' \in [Thread -> Outside \cup Inside]
      /\ waiting' = waiting
      /\ \A u \in Thread : u # t => doing'[u] = doing[u]
      /\ doing'[t] = what
  BY DEF GateInv, Typed, Becomes, gate
<1>2. Counted'
  BY <1>1, CountStays DEF GateInv, Inside
<1>3. IndexersPass' /\ OneInside' /\ NoneForgotten'
  BY <1>1, ModelBounds
  DEF GateInv, IndexersPass, OneInside, NoneForgotten, Thread, Inside
<1> QED
  BY <1>1, <1>2, <1>3 DEF GateInv, Typed

EngineStep(t) ==
  \/ StartEmbedding(t) \/ FindServing(t) \/ Spawn(t) \/ FailToSpawn(t)
  \/ BecomeReady(t) \/ FailToStart(t) \/ EndCall(t)

\* The steps of a thread among the engines keep the invariant.
LEMMA EngineKeepsInv ==
  ASSUME GateInv, NEW t \in Thread, EngineStep(t)
  PROVE  GateInv'
<1>1. CASE StartEmbedding(t)
  <2>1. /\ Counted' /\ IndexersPass' /\ OneInside' /\ NoneForgotten' /\ Typed'
        /\ \A u \in Thread : u # t => doing'[u] = doing[u]
        /\ doing[t] = "idle" /\ doing'[t] = "entering"
    BY <1>1, MoveKeepsGate DEF StartEmbedding, GateInv, Typed, gate, servers, Inside
  <2>2. MutexIsHeld' /\ OneServerEach'
    BY <1>1, <2>1 DEF StartEmbedding, GateInv, Typed, MutexIsHeld, OneServerEach, gate, servers
  <2> QED
    BY <2>1, <2>2 DEF GateInv
<1>2. CASE FindServing(t)
  <2>1. /\ Counted' /\ IndexersPass' /\ OneInside' /\ NoneForgotten' /\ Typed'
        /\ \A u \in Thread : u # t => doing'[u] = doing[u]
        /\ doing[t] = "entering" /\ doing'[t] = "calling"
    BY <1>2, MoveKeepsGate DEF FindServing, GateInv, Typed, gate, servers, Inside
  <2>2. MutexIsHeld' /\ OneServerEach'
    BY <1>2, <2>1 DEF FindServing, GateInv, Typed, MutexIsHeld, OneServerEach, gate, servers
  <2> QED
    BY <2>1, <2>2 DEF GateInv
<1>3. CASE Spawn(t)
  <2>1. /\ Counted' /\ IndexersPass' /\ OneInside' /\ NoneForgotten'
        /\ doing' \in [Thread -> Outside \cup Inside] /\ busy' \in BOOLEAN
        /\ \A u \in Thread : u # t => doing'[u] = doing[u]
        /\ doing[t] = "entering" /\ doing'[t] = "starting"
    BY <1>3, MoveKeepsGate DEF Spawn, gate, Inside
  <2>2. Typed'
    BY <1>3, <2>1 DEF Spawn, GateInv, Typed, gate
  <2>3. MutexIsHeld'
    BY <1>3, <2>1, ModelBounds DEF Spawn, GateInv, Typed, MutexIsHeld, gate
  <2>4. OneServerEach'
    BY <1>3 DEF Spawn, GateInv, Typed, MutexIsHeld, OneServerEach
  <2> QED
    BY <2>1, <2>2, <2>3, <2>4 DEF GateInv
<1>4. CASE FailToSpawn(t)
  <2>1. /\ Counted' /\ IndexersPass' /\ OneInside' /\ NoneForgotten'
        /\ doing' \in [Thread -> Outside \cup Inside] /\ busy' \in BOOLEAN
        /\ \A u \in Thread : u # t => doing'[u] = doing[u]
        /\ doing[t] = "entering" /\ doing'[t] \notin Inside /\ needs' = needs
    BY <1>4, LeaveKeepsGate DEF FailToSpawn, Inside
  <2>2. Typed'
    BY <1>4, <2>1 DEF FailToSpawn, GateInv, Typed
  <2>3. MutexIsHeld'
    BY <1>4, <2>1 DEF FailToSpawn, GateInv, Typed, MutexIsHeld, Inside
  <2>4. OneServerEach'
    BY <1>4 DEF FailToSpawn, GateInv, Typed, MutexIsHeld, OneServerEach
  <2> QED
    BY <2>1, <2>2, <2>3, <2>4 DEF GateInv
<1>5. CASE BecomeReady(t)
  <2>1. /\ Counted' /\ IndexersPass' /\ OneInside' /\ NoneForgotten'
        /\ doing' \in [Thread -> Outside \cup Inside] /\ busy' \in BOOLEAN
        /\ \A u \in Thread : u # t => doing'[u] = doing[u]
        /\ doing[t] = "starting" /\ doing'[t] = "calling"
    BY <1>5, MoveKeepsGate DEF BecomeReady, gate, Inside
  <2>2. Typed'
    BY <1>5, <2>1 DEF BecomeReady, GateInv, Typed, gate
  <2>3. MutexIsHeld'
    BY <1>5, <2>1 DEF BecomeReady, GateInv, Typed, MutexIsHeld, gate
  <2>4. OneServerEach'
    BY <1>5 DEF BecomeReady, GateInv, Typed, OneServerEach
  <2> QED
    BY <2>1, <2>2, <2>3, <2>4 DEF GateInv
<1>6. CASE FailToStart(t)
  <2>1. /\ Counted' /\ IndexersPass' /\ OneInside' /\ NoneForgotten'
        /\ doing' \in [Thread -> Outside \cup Inside] /\ busy' \in BOOLEAN
        /\ \A u \in Thread : u # t => doing'[u] = doing[u]
        /\ doing[t] = "starting" /\ doing'[t] \notin Inside /\ needs' = needs
    BY <1>6, LeaveKeepsGate DEF FailToStart, Inside
  <2>2. holder[needs[t]] = t /\ child[needs[t]] \in {"loading", "dead"}
    BY <2>1, ModelBounds DEF GateInv, MutexIsHeld, Typed, Thread
  <2>3. Typed' /\ OneServerEach'
    BY <1>6, <2>1, <2>2 DEF FailToStart, GateInv, Typed, OneServerEach
  <2>4. MutexIsHeld'
    BY <1>6, <2>1, <2>2 DEF FailToStart, GateInv, Typed, MutexIsHeld, Inside
  <2> QED
    BY <2>1, <2>3, <2>4 DEF GateInv
<1>7. CASE EndCall(t)
  <2>1. /\ Counted' /\ IndexersPass' /\ OneInside' /\ NoneForgotten'
        /\ doing' \in [Thread -> Outside \cup Inside] /\ busy' \in BOOLEAN
        /\ \A u \in Thread : u # t => doing'[u] = doing[u] /\ needs'[u] = needs[u]
        /\ needs' \in [Thread -> Engine]
        /\ doing[t] = "calling" /\ doing'[t] # "starting"
    <3>1. CASE Leave(t)
      BY <1>7, <3>1, LeaveKeepsGate DEF EndCall, Inside, GateInv, Typed
    <3>2. CASE Becomes(t, "entering") /\ UNCHANGED gate
               /\ needs' = [needs EXCEPT ![t] = "generator"]
      BY <1>7, <3>2, MoveKeepsGate DEF EndCall, Inside, GateInv, Typed, Engine
    <3> QED
      BY <1>7, <3>1, <3>2 DEF EndCall
  <2>2. Typed' /\ OneServerEach'
    BY <1>7, <2>1 DEF EndCall, GateInv, Typed, OneServerEach, servers
  <2>3. MutexIsHeld'
    BY <1>7, <2>1 DEF EndCall, GateInv, Typed, MutexIsHeld, servers
  <2> QED
    BY <2>1, <2>2, <2>3 DEF GateInv
<1> QED
  BY <1>1, <1>2, <1>3, <1>4, <1>5, <1>6, <1>7 DEF EngineStep

\* A server that dies, or is unloaded, leaves its engine to notice.
LEMMA DeathKeepsInv ==
  ASSUME GateInv, (\E e \in Engine : ServerDies(e)) \/ Unload
  PROVE  GateInv'
<1>1. UNCHANGED <<gate, doing, needs, holder>>
  BY DEF ServerDies, Unload
<1>2. Counted' /\ IndexersPass' /\ OneInside' /\ NoneForgotten'
  BY <1>1, CountStays DEF GateInv, IndexersPass, OneInside, NoneForgotten, gate
<1>3. Typed' /\ MutexIsHeld' /\ OneServerEach'
  BY <1>1, ModelBounds
  DEF GateInv, Typed, MutexIsHeld, OneServerEach, ServerDies, Unload, gate, Engine
<1> QED
  BY <1>2, <1>3 DEF GateInv

-----------------------------------------------------------------------------
(* Theorems.                                                               *)

\* A process starts with an open gate and no server.
LEMMA ModelStarts == ModelInit => GateInv
<1> SUFFICES ASSUME ModelInit PROVE GateInv
  OBVIOUS
<1>1. Waiters = {}
  BY DEF ModelInit, Waiters
<1>2. Counted
  BY <1>1, FS_EmptySet DEF ModelInit, Counted
<1>3. Typed
  <2>1. 0 \in 0..MaxDeaths
    BY ModelBounds
  <2>2. /\ doing \in [Thread -> Outside \cup Inside] /\ needs \in [Thread -> Engine]
        /\ child \in [Engine -> {"none", "loading", "serving", "dead"}]
    BY DEF ModelInit, Engine, Outside
  <2>3. holder \in [Engine -> Thread \cup {NoThread}] /\ children \in [Engine -> Nat]
    BY DEF ModelInit
  <2> QED
    BY <2>1, <2>2, <2>3 DEF ModelInit, Typed
<1>4. IndexersPass /\ OneInside /\ NoneForgotten
  BY DEF ModelInit, IndexersPass, OneInside, NoneForgotten, Inside, Thread
<1>5. MutexIsHeld /\ OneServerEach
  BY DEF ModelInit, MutexIsHeld, OneServerEach
<1> QED
  BY <1>2, <1>3, <1>4, <1>5 DEF GateInv

\* Every step keeps the invariant.
LEMMA ModelStays == GateInv /\ [ModelNext]_modelVars => GateInv'
<1> SUFFICES ASSUME GateInv, [ModelNext]_modelVars PROVE GateInv'
  OBVIOUS
<1>1. CASE \E t \in Thread : GateStep(t)
  BY <1>1, GateKeepsInv
<1>2. CASE \E t \in Thread : EngineStep(t)
  BY <1>2, EngineKeepsInv
<1>3. CASE (\E e \in Engine : ServerDies(e)) \/ Unload
  BY <1>3, DeathKeepsInv
<1>4. CASE UNCHANGED modelVars
  BY <1>4, CountStays
  DEF modelVars, gate, servers, GateInv, Typed, IndexersPass, OneInside, NoneForgotten,
      MutexIsHeld, OneServerEach
<1> QED
  BY <1>1, <1>2, <1>3, <1>4 DEF ModelNext, GateStep, EngineStep

\* What the invariant says of one asker inside, as the count that GateIsKept takes.
LEMMA InsideIsOne ==
  ASSUME GateInv
  PROVE  Cardinality({t \in Asker : doing[t] \in Inside}) = IF busy THEN 1 ELSE 0
<1> DEFINE S == {t \in Asker : doing[t] \in Inside}
<1>1. CASE busy
  <2>1. PICK t \in Asker : doing[t] \in Inside
    BY <1>1 DEF GateInv, OneInside
  <2>2. S = {t}
    BY <2>1 DEF GateInv, OneInside
  <2> QED
    BY <1>1, <2>2, FS_Singleton
<1>2. CASE ~busy
  <2>1. S = {}
    BY <1>2 DEF GateInv, OneInside
  <2> QED
    BY <1>2, <2>1, FS_EmptySet
<1> QED
  BY <1>1, <1>2

\* However many threads ask, index, give up and walk past the queue, and however servers die:
\* one question at a time holds the permit (Permit), no waiter is left asleep beside a free
\* gate, and each engine has at most the one server it remembers (ensure_running).
THEOREM ModelsShared == ModelSpec => []ModelsAreShared
<1>1. GateInv => ModelsAreShared
  BY InsideIsOne
  DEF GateInv, ModelsAreShared, ModelTypeOK, GateIsKept, Typed, Counted, Waiters, NoneForgotten
<1> QED
  BY <1>1, ModelStarts, ModelStays, PTL DEF ModelSpec
=============================================================================
