--------------------------- MODULE DatabaseSwitch ---------------------------
(***************************************************************************)
(* Application::setDatabase: one database after the other is opened, each  *)
(* with a worker and a MetadataReader of its own, and takes the place of   *)
(* the one before, which is deleted together with its reader.              *)
(*                                                                         *)
(* ~Database waits for its worker, which first runs all jobs it was given. *)
(* ~MetadataReader only leaves the listeners: its thread goes on, with     *)
(* both objects.  A job is [kind, n]; a use of a deleted object is noted   *)
(* and ends the behaviour.                                                 *)
(***************************************************************************)
EXTENDS Naturals, Sequences, FiniteSets, SequencesExt

CONSTANTS
  Dbs,      \* Database objects, one for each call of Database::open()
  NoDb,
  Images,   \* images that get added
  Reads,    \* other jobs of the application: count(), getIds()
  Patient   \* whether another database is opened only while the reader
            \* has nothing to do

ASSUME SwitchAssumption == NoDb \notin Dbs /\ Patient \in BOOLEAN

VARIABLES
  messages,  \* the queue of the dispatch thread
  main,      \* the database that setDatabase() makes current while it waits
             \* for the worker of the one before, or NoDb
  current,   \* Application::db
  object,    \* of each Database: "none", "open", "deleted"
  queue,     \* its jobs
  worker,    \* its thread: "none", "runs", "exited"
  closed,    \* JobFinalize has closed its event and its provider
  mr,        \* its MetadataReader: "none", "alive", "deleted"
  reader,    \* the reader's thread: "none", "waits", "tests",
             \* "pops", "returns"
  ping,      \* MetadataReader::job
  stack,     \* the images on the METADATA stack
  added,     \* images added
  asked,     \* other jobs given to a database, ...
  answered,  \* ... and those called back
  usesDeleted

dbVars == <<object, queue, worker, closed>>
mrVars == <<mr, reader, ping, stack>>
switchVars == <<messages, main, current, dbVars, mrVars, added, asked, answered,
                usesDeleted>>

Job(k, x) == [kind |-> k, of |-> x]
Note(k, d, x) == [kind |-> k, db |-> d, of |-> x]

SwitchInit ==
  /\ messages = <<>>
  /\ main = NoDb
  /\ current = NoDb
  /\ object = [d \in Dbs |-> "none"]
  /\ queue = [d \in Dbs |-> <<>>]
  /\ worker = [d \in Dbs |-> "none"]
  /\ closed = [d \in Dbs |-> FALSE]
  /\ mr = [d \in Dbs |-> "none"]
  /\ reader = [d \in Dbs |-> "none"]
  /\ ping = [d \in Dbs |-> FALSE]
  /\ stack = [d \in Dbs |-> {}]
  /\ added = {} /\ asked = {} /\ answered = {}
  /\ usesDeleted = FALSE

Running == ~usesDeleted
Gets == Running /\ main = NoDb
Add(d, j) == queue' = [queue EXCEPT ![d] = Append(@, j)]

---------------------------------------------------------------------------
(* Handlers of the application, on the dispatch thread.                    *)

(* What the reader of the current database still has to do.                *)
ReaderIsIdle ==
  current # NoDb =>
    /\ reader[current] = "waits" /\ ~ping[current]
    /\ \A i \in DOMAIN messages : messages[i].kind \notin {"added", "pushed"}
    /\ \A i \in DOMAIN queue[current] : queue[current][i].kind \in {"read"}

(* Database::open(): a worker and its first job.                           *)
Open ==
  /\ Gets
  /\ \E d \in Dbs :
       /\ object[d] = "none"
       /\ Patient => ReaderIsIdle /\ \A e \in Dbs : object[e] = "open" => e = current
       /\ object' = [object EXCEPT ![d] = "open"]
       /\ worker' = [worker EXCEPT ![d] = "runs"]
       /\ Add(d, Job("open", NoDb))
  /\ UNCHANGED <<messages, main, current, closed, mrVars, added, asked, answered,
                 usesDeleted>>

(* addImageCallback posts "imageAdded".                                    *)
AddImage ==
  /\ Gets /\ current # NoDb
  /\ Patient => \A d \in Dbs : object[d] = "open" => d = current
  /\ \E g \in Images \ added :
       /\ added' = added \cup {g}
       /\ messages' = Append(messages, Note("added", current, g))
  /\ UNCHANGED <<main, current, dbVars, mrVars, asked, answered, usesDeleted>>

(* A handler asks the current database for something.                      *)
Ask ==
  /\ Gets /\ current # NoDb
  /\ \E r \in Reads \ asked :
       /\ asked' = asked \cup {r}
       /\ Add(current, Job("read", r))
  /\ UNCHANGED <<messages, main, current, object, worker, closed, mrVars, added,
                 answered, usesDeleted>>

---------------------------------------------------------------------------
(* Dispatched messages.                                                    *)
Dispatch(kind) == Gets /\ messages # <<>> /\ Head(messages).kind = kind
                       /\ messages' = Tail(messages)

(* setDatabase(d) with a database to replace: ~MetadataReader, and then    *)
(* ~Database, which puts JobFinalize into the queue and waits.             *)
Replace(d) ==
  /\ mr' = [mr EXCEPT ![current] = "deleted"]
  /\ Add(current, Job("finalize", NoDb))
  /\ main' = d
  /\ UNCHANGED <<current, object, worker, closed, reader, ping, stack>>

(* The rest of setDatabase(): a reader for d.                              *)
Adopt(d) ==
  /\ current' = d
  /\ mr' = [mr EXCEPT ![d] = "alive"]
  /\ reader' = [reader EXCEPT ![d] = "waits"]

DispatchOpened ==
  /\ Dispatch("opened")
  /\ LET d == Head(messages).db
     IN  IF current # NoDb THEN Replace(d)
         ELSE Adopt(d) /\ UNCHANGED <<main, dbVars, ping, stack>>
  /\ UNCHANGED <<added, asked, answered, usesDeleted>>

Joined ==
  /\ Running /\ main # NoDb
  /\ worker[current] = "exited"
  /\ object' = [object EXCEPT ![current] = "deleted"]
  /\ Adopt(main)
  /\ main' = NoDb
  /\ UNCHANGED <<messages, queue, worker, closed, ping, stack, added, asked,
                 answered, usesDeleted>>

(* Mutant: a deleted reader is a listener still.                           *)
DispatchAdded_Old ==
  /\ Dispatch("added")
  /\ Add(current, Job("push", Head(messages).of))
  /\ ping' = [ping EXCEPT ![current] = TRUE]
  /\ usesDeleted' = (\E d \in Dbs : mr[d] = "deleted")
  /\ UNCHANGED <<main, current, object, worker, closed, mr, reader, stack,
                 added, asked, answered>>

(* eventReceived("imageAdded") of the current reader: push and ping.       *)
DispatchAdded ==
  /\ Dispatch("added")
  /\ Add(current, Job("push", Head(messages).of))
  /\ ping' = [ping EXCEPT ![current] = TRUE]
  /\ UNCHANGED <<main, current, object, worker, closed, mr, reader, stack,
                 added, asked, answered, usesDeleted>>

(* pushMetadataItemCallback() pings the reader that pushed.                *)
DispatchPushed ==
  /\ Dispatch("pushed")
  /\ LET d == Head(messages).db
     IN  IF mr[d] = "deleted" THEN usesDeleted' = TRUE /\ UNCHANGED ping
         ELSE ping' = [ping EXCEPT ![d] = TRUE] /\ UNCHANGED usesDeleted
  /\ UNCHANGED <<main, current, dbVars, mr, reader, stack, added, asked, answered>>

DispatchRead ==
  /\ Dispatch("read")
  /\ answered' = answered \cup {Head(messages).of}
  /\ UNCHANGED <<main, current, dbVars, mrVars, added, asked, usesDeleted>>

---------------------------------------------------------------------------
CloseEvent(d) == closed' = [closed EXCEPT ![d] = TRUE]

(* The worker of database d.  After JobFinalize jobs still run, with a     *)
(* closed provider: they fail, and are called back.                        *)
RunJob(d) ==
  /\ Running /\ worker[d] = "runs"
  /\ queue[d] # <<>>
  /\ queue' = [queue EXCEPT ![d] = Tail(@)]
  /\ LET j == Head(queue[d])
         Call(k) == messages' = Append(messages, Note(k, d, j.of))
     IN  CASE j.kind = "open" ->
                Call("opened") /\ UNCHANGED <<closed, reader, stack>>
           [] j.kind = "read" ->
                Call("read") /\ UNCHANGED <<closed, reader, stack>>
           [] j.kind = "push" /\ ~closed[d] ->
                /\ Call("pushed")
                /\ stack' = [stack EXCEPT ![d] = @ \cup {j.of}]
                /\ UNCHANGED <<closed, reader>>
           [] j.kind = "push" /\ closed[d] ->
                UNCHANGED <<messages, closed, reader, stack>>
           [] j.kind = "pop" /\ (closed[d] \/ stack[d] = {}) ->
                /\ reader' = [reader EXCEPT ![d] = "returns"]
                /\ UNCHANGED <<messages, closed, stack>>
           [] j.kind = "pop" /\ ~closed[d] /\ stack[d] # {} ->
                /\ reader' = [reader EXCEPT ![d] = "tests"]
                /\ \E g \in stack[d] : stack' = [stack EXCEPT ![d] = @ \ {g}]
                /\ UNCHANGED <<messages, closed>>
           [] j.kind = "finalize" ->
                /\ CloseEvent(d)
                /\ UNCHANGED <<messages, reader, stack>>
  /\ UNCHANGED <<main, current, object, worker, mr, ping, added, asked,
                 answered, usesDeleted>>

(* The closed event ends the worker's wait with an error.                  *)
WorkerExits(d) ==
  /\ Running /\ worker[d] = "runs"
  /\ queue[d] = <<>> /\ closed[d]
  /\ worker' = [worker EXCEPT ![d] = "exited"]
  /\ UNCHANGED <<messages, main, current, object, queue, closed, mrVars, added,
                 asked, answered, usesDeleted>>

(* The thread of d's reader.                                               *)
ReaderWakes(d) ==
  /\ Running /\ reader[d] = "waits" /\ ping[d]
  /\ ping' = [ping EXCEPT ![d] = FALSE]
  /\ reader' = [reader EXCEPT ![d] = "tests"]
  /\ UNCHANGED <<messages, main, current, dbVars, mr, stack, added, asked,
                 answered, usesDeleted>>

(* It looks at shutdown and db of its MetadataReader, and asks the         *)
(* database.                                                               *)
ReaderPops(d) ==
  /\ Running /\ reader[d] = "tests"
  /\ IF mr[d] = "deleted" \/ object[d] = "deleted"
     THEN usesDeleted' = TRUE /\ UNCHANGED <<queue, reader>>
     ELSE /\ Add(d, Job("pop", NoDb))
          /\ reader' = [reader EXCEPT ![d] = "pops"]
          /\ UNCHANGED usesDeleted
  /\ UNCHANGED <<messages, main, current, object, worker, closed, mr, ping,
                 stack, added, asked, answered>>

(* No image, or an error: the outer loop looks at shutdown again.          *)
ReaderReturns(d) ==
  /\ Running /\ reader[d] = "returns"
  /\ IF mr[d] = "deleted" THEN usesDeleted' = TRUE /\ UNCHANGED reader
     ELSE reader' = [reader EXCEPT ![d] = "waits"] /\ UNCHANGED usesDeleted
  /\ UNCHANGED <<messages, main, current, dbVars, mr, ping, stack, added, asked,
                 answered>>

Main == DispatchOpened \/ Joined \/ DispatchAdded \/ DispatchPushed \/ DispatchRead
Worker(d) == RunJob(d) \/ WorkerExits(d)
ReaderStep(d) == ReaderWakes(d) \/ ReaderPops(d) \/ ReaderReturns(d)

SwitchNext ==
  \/ Open \/ AddImage \/ Ask
  \/ Main
  \/ \E d \in Dbs : Worker(d) \/ ReaderStep(d)

SwitchSpec == SwitchInit /\ [][SwitchNext]_switchVars

(* Threads are scheduled by the system, messages by the loop; the user     *)
(* need not do anything.                                                   *)
FairSwitch ==
  /\ SwitchSpec
  /\ WF_switchVars(Main)
  /\ \A d \in Dbs : WF_switchVars(Worker(d)) /\ WF_switchVars(ReaderStep(d))

---------------------------------------------------------------------------
SwitchTypeOK ==
  /\ messages \in Seq([kind : {"opened", "added", "pushed", "read"},
                      db : Dbs, of : Images \union Reads \union {NoDb}])
  /\ main \in Dbs \union {NoDb} /\ current \in Dbs \union {NoDb}
  /\ object \in [Dbs -> {"none", "open", "deleted"}]
  /\ queue \in [Dbs -> Seq([kind : {"open", "read", "push", "pop", "finalize"},
                            of : Images \union Reads \union {NoDb}])]
  /\ worker \in [Dbs -> {"none", "runs", "exited"}]
  /\ closed \in [Dbs -> BOOLEAN]
  /\ mr \in [Dbs -> {"none", "alive", "deleted"}]
  /\ reader \in [Dbs -> {"none", "waits", "tests", "pops", "returns"}]
  /\ ping \in [Dbs -> BOOLEAN]
  /\ usesDeleted \in BOOLEAN

(* A deleted database has kept nothing to itself: its worker is gone and   *)
(* every job it was given has been run.                                    *)
DeletedIsDrained ==
  \A d \in Dbs : object[d] = "deleted" => worker[d] = "exited" /\ queue[d] = <<>>

(* No thread and no callback uses a reader or a database that setDatabase  *)
(* has deleted, when the reader had nothing to do by the time the next     *)
(* database was opened; and whenever it was, no job is lost.               *)
NothingUsesDeleted ==
  SwitchTypeOK /\ DeletedIsDrained /\ (Patient => ~usesDeleted)

(* setDatabase() does not keep the dispatch thread for ever.               *)
SwitchEnds == [](main # NoDb => <>(main = NoDb))

(* Whatever database was current when a handler asked, and however often   *)
(* it was replaced since: the answer comes.                                *)
EveryReadAnswered == \A r \in Reads : [](r \in asked => <>(r \in answered))
===============================================================================
