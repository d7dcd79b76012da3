----------------------- MODULE MetadataReader_proofs -----------------------
(***************************************************************************)
(* Theorems about the metadata reader on its database, for every set of    *)
(* images and every choice of jobs that can fail: the reader uses a        *)
(* database that is there, and only with a file to read.  They rest on the *)
(* invariant of Database, which the steps of the reader and the broadcasts *)
(* in the shared message queue preserve.                                   *)
(***************************************************************************)
EXTENDS MetadataReader, Database_proofs

Messages == DBMessages \union Broadcasts

(* The names of jobs and messages, and the two callers.                    *)
LEMMA Names ==
  /\ MessagesOK(Messages)
  /\ Callers = {Main, Reader} /\ Main # Reader /\ Reader \in Threads
  /\ BlockingJobs = {PopJob, FileJob} /\ PopJob # FileJob
  /\ Broadcasts \subseteq Messages \ DBMessages
  /\ Broadcasts \intersect (AllJobs \union {NoJob}) = {}
<1>1. /\ Threads = {Reader} /\ BlockingJobs = {PopJob, FileJob}
      /\ PopJob # FileJob
      /\ Broadcasts \intersect (AllJobs \union {NoJob, ShutdownMsg}) = {}
  BY ReaderAssumption
<1>2. MessagesOK(Messages)
  BY <1>1, JobsAssumption
     DEF MessagesOK, Messages, DBMessages, AllJobs, Jobs, AsyncJobs
<1>3. Broadcasts \subseteq Messages \ DBMessages
  BY <1>1 DEF Messages, DBMessages, AllJobs, Jobs
<1> QED BY <1>1, <1>2, <1>3, ThreadsAssumption DEF Callers

(* The jobs and the broadcasts of an image are its own.                    *)
LEMMA ImageNames ==
  ASSUME NEW g \in Images
  PROVE  /\ {Push(g), Meta(g), Thumb(g)} \subseteq Requests
         /\ Added(g) \in Broadcasts /\ Changed(g) \in Broadcasts
         /\ Push(g)[2] = g
         /\ \A h : /\ Push(g) # Meta(h) /\ Push(g) # Thumb(h)
                   /\ Added(g) # Changed(h)
                   /\ Push(g) = Push(h) => g = h
                   /\ Added(g) = Added(h) => g = h
<1>1. {Push(g), Meta(g), Thumb(g)} \subseteq Requests
  BY ReaderAssumption
<1>2. Added(g) \in Broadcasts /\ Changed(g) \in Broadcasts
  BY DEF Broadcasts
<1>3. ASSUME NEW h
      PROVE  /\ Push(g) # Meta(h) /\ Push(g) # Thumb(h)
             /\ Added(g) # Changed(h)
             /\ Push(g) = Push(h) => g = h
             /\ Added(g) = Added(h) => g = h
  BY DEF Push, Meta, Thumb, Added, Changed
<1> QED BY <1>1, <1>2, <1>3 DEF Push
-----------------------------------------------------------------------------
(* What a step of the reader's world does to the database.                 *)

(* A step of the database that allocates no job.                           *)
QuietStep ==
  \/ \E t \in Callers : AddJob(t) \/ SignalWorker(t) \/ Return(t)
  \/ WorkerNext
  \/ MainNext
  \/ UNCHANGED vars

(* The steps that are not the database's own.                              *)
ForeignStep ==
  \/ \E g \in Images : ImageAdded(g)
  \/ DispatchAdded \/ DispatchChanged \/ DispatchStored

ReaderCalls ==
  /\ \/ ReaderPops /\ Call(Reader, PopJob)
     \/ ReaderAsksFile /\ Call(Reader, FileJob)
     \/ StoreMetadata /\ Call(Reader, Meta(guid))
     \/ StoreThumbnail /\ Call(Reader, Thumb(guid))

(* Every step is one of these.                                             *)
LEMMA StepKinds ==
  ASSUME [MRNext]_allVars
  PROVE  QuietStep \/ ReaderCalls \/ ForeignStep
<1> USE DEF QuietStep
<1>1. CASE UNCHANGED allVars
  BY <1>1 DEF allVars
<1>2. CASE RunAsyncJob \/ RunPop \/ RunFile
  BY <1>2 DEF RunAsyncJob, RunPop, RunFile, WorkerNext
<1>3. CASE OtherDatabaseStep
  BY <1>3 DEF OtherDatabaseStep, WorkerNext, MainNext
<1>4. CASE DispatchNext
  BY <1>4 DEF DispatchNext, DispatchOpened, DispatchPushed, DispatchShutdown,
     MainNext, ForeignStep
<1>5. CASE PingAfterPush \/ StopReader \/ ReaderJoined
  BY <1>5 DEF PingAfterPush, StopReader, ReaderJoined
<1>6. CASE LoopStep
  BY <1>6 DEF LoopStep, MainNext
<1>7. CASE ReaderNext
  <2>1. CASE ReaderTests \/ ReaderWakes \/ ReadFile
    BY <2>1 DEF ReaderTests, ReaderWakes, ReadFile
  <2>2. CASE ReaderPopped \/ ReaderGotFile
    BY <2>2, Names DEF ReaderPopped, ReaderGotFile
  <2>3. CASE ReaderPops \/ ReaderAsksFile
    BY <2>3 DEF ReaderPops, ReaderAsksFile, ReaderCalls
  <2>4. CASE StoreMetadata \/ StoreThumbnail
    BY <2>4 DEF StoreMetadata, StoreThumbnail, Store, ReaderCalls
  <2> QED BY <1>7, <2>1, <2>2, <2>3, <2>4 DEF ReaderNext
<1>8. CASE \E g \in Images : ImageAdded(g)
  BY <1>8 DEF ForeignStep
<1> QED BY <1>1, <1>2, <1>3, <1>4, <1>5, <1>6, <1>7, <1>8 DEF MRNext

(* The first two kinds are steps of Database.                              *)
LEMMA DatabaseSteps ==
  ASSUME QuietStep \/ ReaderCalls
  PROVE  [Next]_vars
<1>1. CASE QuietStep
  BY <1>1 DEF QuietStep, Next, CallerNext
<1>2. CASE ReaderCalls
  <2>1. PICK j : Call(Reader, j)
    BY <1>2 DEF ReaderCalls
  <2>2. j \in Jobs /\ Reader \in Callers
    BY <2>1, Names DEF Call, Jobs, AsyncJobs
  <2> QED BY <2>1, <2>2 DEF Next, CallerNext
<1> QED BY <1>1, <1>2
-----------------------------------------------------------------------------
(* The message queue.                                                      *)

(* Message m is there once at most.                                        *)
Single(s, m) == \A i, k \in DOMAIN s : s[i] = m /\ s[k] = m => i = k

(* Appending one message and taking the head of a queue, seen from another *)
(* message.                                                                *)
LEMMA SingleFacts ==
  ASSUME NEW S, NEW s \in Seq(S), NEW x \in S, NEW m
  PROVE  /\ m # x /\ Single(s, m) => Single(Append(s, x), m)
         /\ m \notin Elems(s) => Single(Append(s, x), m)
         /\ s # <<>> /\ Single(s, m) =>
              /\ Single(Tail(s), m)
              /\ Head(s) = m => m \notin Elems(Tail(s))
<1>1. ASSUME (m # x /\ Single(s, m)) \/ m \notin Elems(s)
      PROVE  Single(Append(s, x), m)
  BY <1>1, EndFacts DEF Single, Elems
<1>2. ASSUME s # <<>>, Single(s, m)
      PROVE  /\ Single(Tail(s), m)
             /\ Head(s) = m => m \notin Elems(Tail(s))
  <2>1. Single(Tail(s), m)
    BY <1>2, StartFacts DEF Single
  <2>2. ASSUME Head(s) = m, NEW i \in DOMAIN Tail(s), Tail(s)[i] = m
        PROVE  FALSE
    <3>1. i \in 1..(Len(s) - 1) /\ Len(s) \in Nat \ {0}
          /\ DOMAIN s = 1..Len(s) /\ Tail(s)[i] = s[i + 1] /\ s[1] = m
      BY <1>2, <2>2, StartFacts
    <3>2. i + 1 \in DOMAIN s /\ 1 \in DOMAIN s /\ i + 1 # 1
      BY <3>1
    <3> QED BY <1>2, <2>2, <3>1, <3>2 DEF Single
  <2> QED BY <2>1, <2>2 DEF Elems
<1> QED BY <1>1, <1>2

(* A step of the database takes the oldest message, or posts one of its    *)
(* own, or leaves the queue alone.                                         *)
LEMMA PostedSteps ==
  ASSUME NEW Msg, Inv(Msg), [Next]_vars
  PROVE  \/ posted' = posted
         \/ posted # <<>> /\ posted' = Tail(posted)
         \/ \E x \in DBMessages : posted' = Append(posted, x)
<1>1. ASSUME NEW t \in Callers, CallerNext(t) PROVE posted' = posted
  BY <1>1 DEF CallerNext, Call, AddJob, SignalWorker, Return, mqVars
<1>2. CASE WorkerNext
  BY <1>2 DEF WorkerNext, Wake, WorkerExits, QueueIsEmpty, RemoveJob,
     RunAsync, RunBlocking, RunFinalize, Post, mqVars, DBMessages
<1>3. CASE MainNext
  <2>1. CASE DispatchDone \/ PutOffShutdown \/ BeginFinalize
    BY <2>1 DEF DispatchDone, PutOffShutdown, BeginFinalize, GetMessage
  <2>2. CASE MainInitiatesShutdown \/ MainChecksShutdown
    BY <2>2 DEF MainInitiatesShutdown, InitiateShutdown, MainChecksShutdown,
       CheckShutdown, Post, DBMessages
  <2>3. CASE Joined \/ MainInput \/ MainHandlerReturns \/ MainLoopEnds
    BY <2>3 DEF Joined, MainInput, Input, MainHandlerReturns, HandlerReturns,
       MainLoopEnds, LoopEnds, mqVars
  <2> QED BY <1>3, <2>1, <2>2, <2>3 DEF MainNext
<1>4. CASE Done \/ UNCHANGED vars
  BY <1>4 DEF Done, vars, mqVars
<1> QED BY <1>1, <1>2, <1>3, <1>4 DEF Next

(* So no broadcast comes in, and none is doubled, by a step of the         *)
(* database.                                                               *)
LEMMA BroadcastsStay ==
  ASSUME Inv(Messages), [Next]_vars, NEW m \in Broadcasts
  PROVE  /\ m \in Elems(posted') => m \in Elems(posted)
         /\ Single(posted, m) => Single(posted', m)
<1>1. posted \in Seq(Messages)
  BY DEF Inv, DBTypeOK, MQTypeOK
<1>2. CASE posted # <<>> /\ posted' = Tail(posted)
  BY <1>1, <1>2, TailFacts, SingleFacts, Names
<1>3. ASSUME NEW x \in DBMessages, posted' = Append(posted, x)
      PROVE  /\ m \in Elems(posted') => m \in Elems(posted)
             /\ Single(posted, m) => Single(posted', m)
  <2>1. x \in Messages /\ x # m
    BY Names DEF Messages
  <2> QED BY <1>1, <1>3, <2>1, AppendFacts, SingleFacts
<1> QED BY <1>2, <1>3, PostedSteps
-----------------------------------------------------------------------------
(* The steps that are not the database's own preserve its invariant.       *)

(* Where a job can be.                                                     *)
InUse(j) ==
  \/ j \in Elems(queue) \union Elems(posted) \union {running}
  \/ \E t \in Callers : cur[t] = j

(* A handler takes a message or posts a broadcast.                         *)
LEMMA ForeignInv ==
  ASSUME Inv(Messages), loop' = "handler",
         posted' \in Seq(Messages), Once(posted'),
         Elems(posted') \subseteq Elems(posted) \union Broadcasts,
         UNCHANGED <<shutdown, shutdownDelay, quit, dbVars>>
  PROVE  Inv(Messages)'
<1> USE DEF Inv, dbVars
<1>1. DBTypeOK(Messages)'
  BY DEF DBTypeOK, MQTypeOK
<1>2. CallerOK' /\ MainOK' /\ OneHolder' /\ BlockingHeld' /\ WorkerOK'
        /\ FinalizeOnce' /\ NoLostWakeup'
  BY DEF CallerOK, MainOK, OneHolder, BlockingHeld, Taken, WorkerOK,
     FinalizeOnce, NoLostWakeup
<1>3. Broadcasts \intersect (AllJobs \union {NoJob}) = {}
      /\ ShutdownMsg \notin Broadcasts
  BY Names DEF DBMessages
<1>4. ShutdownOnce'
  BY <1>3 DEF ShutdownOnce
<1>5. AnswersAreResults'
  BY <1>3 DEF AnswersAreResults, AllJobs
<1>6. Places'
  <2>1. /\ Elems(queue) \subseteq AllJobs /\ answered \subseteq AllJobs
        /\ running \in AllJobs \union {NoJob}
    BY MemberTypes DEF DBTypeOK, AllJobs, Jobs
  <2>2. \A t \in Callers : pc[t] = "add" => cur[t] \in AllJobs
    BY DEF CallerOK
  <2> QED BY <1>3, <2>1, <2>2 DEF Places
<1> QED BY <1>1, <1>2, <1>4, <1>5, <1>6

(* A handler takes a message and calls the database with a new job.        *)
LEMMA HandlerCallInv ==
  ASSUME Inv(Messages), GetMessage, peer, NEW j \in Requests, ~InUse(j),
         pc' = [pc EXCEPT ![Main] = "add"],
         cur' = [cur EXCEPT ![Main] = j],
         error' = [error EXCEPT ![j] = "none"],
         UNCHANGED <<shutdown, shutdownDelay, quit, queue, job, peer, worker,
                     running, provider, answered, current>>
  PROVE  Inv(Messages)'
<1> USE DEF Inv, GetMessage
<1>1. posted \in Seq(Messages) /\ posted # <<>>
  BY DEF DBTypeOK, MQTypeOK
<1>2. /\ Tail(posted) \in Seq(Messages)
      /\ Elems(Tail(posted)) \subseteq Elems(posted)
      /\ Once(posted) => Once(Tail(posted))
  BY <1>1, TailFacts
<1>3. /\ j \in Jobs /\ j \in AllJobs /\ j \in AsyncJobs
      /\ j \notin BlockingJobs \union {FinalizeJob, NoJob}
  BY JobsAssumption DEF AllJobs, Jobs, AsyncJobs
<1>4. Main \in Callers /\ pc[Main] = "ready" /\ cur[Main] = NoJob
  BY DEF MainOK, CallerOK, Callers
<1>5. j \notin Elems(queue) \union Elems(posted) \union {running}
      /\ \A t \in Callers : cur[t] # j
  BY DEF InUse
<1>6. j \notin answered
  BY <1>3 DEF DBTypeOK
<1>7. DBTypeOK(Messages)'
  BY <1>2, <1>3, <1>4 DEF DBTypeOK, MQTypeOK
<1>8. cur \in [Callers -> AllJobs \union {NoJob}]
      /\ pc \in [Callers -> {"ready", "add", "signal", "await", "join"}]
      /\ error \in [Jobs -> {"none", "ok", "failed", "misuse"}]
  BY DEF DBTypeOK
<1>9. CallerOK' /\ MainOK' /\ OneHolder' /\ WorkerOK'
  BY <1>3, <1>4, <1>5, <1>8 DEF CallerOK, MainOK, OneHolder, WorkerOK
<1>10. BlockingHeld'
  BY <1>3, <1>4, <1>5, <1>8 DEF BlockingHeld, Taken
<1>11. FinalizeOnce' /\ ShutdownOnce' /\ NoLostWakeup'
  <2>1. NoJob # FinalizeJob
    BY JobsAssumption DEF AllJobs
  <2>2. FinalizeOnce'
    BY <1>3, <1>4, <1>8, <2>1 DEF FinalizeOnce
  <2>3. ShutdownOnce'
    BY <1>2 DEF ShutdownOnce
  <2>4. NoLostWakeup'
    BY <1>4, <1>8 DEF NoLostWakeup
  <2> QED BY <2>2, <2>3, <2>4
<1>12. Places'
  BY <1>2, <1>4, <1>5, <1>6, <1>8 DEF Places
<1>13. AnswersAreResults'
  BY <1>2, <1>5, <1>6, <1>8 DEF AnswersAreResults
<1> QED BY <1>7, <1>9, <1>10, <1>11, <1>12, <1>13

(* They leave the shutdown where it is.                                    *)
LEMMA ForeignEnds ==
  ASSUME ShutdownOK, ~quit, loop' = "handler",
         ShutdownMsg \in Elems(posted) => ShutdownMsg \in Elems(posted'),
         cur[Main] = FinalizeJob => cur'[Main] = FinalizeJob,
         UNCHANGED <<shutdown, shutdownDelay, quit, peer, worker>>
  PROVE  ShutdownOK'
BY DEF ShutdownOK
-----------------------------------------------------------------------------
(* The invariant.                                                          *)

(* The push of an image is allocated once, by the handler of its broadcast.*)
ImportOK ==
  \A g \in Images :
    /\ g \notin added => Added(g) \notin Elems(posted) /\ ~InUse(Push(g))
    /\ Added(g) \in Elems(posted) => ~InUse(Push(g))
    /\ Single(posted, Added(g))

(* Where the reader is in its loop, and where in a method of Database.     *)
ReaderOK ==
  /\ reader \in {"none", "test", "wait", "file", "read", "metadata", "exited"}
       => pc[Reader] = "ready"
  /\ reader \in {"pop", "thumbnail"} => cur[Reader] \notin BlockingJobs
  /\ reader = "popping" => cur[Reader] = PopJob
  /\ reader = "filing" => cur[Reader] = FileJob
  /\ cur[Main] \notin BlockingJobs
  /\ reader \in {"file", "filing", "read", "metadata", "thumbnail"}
       => guid \in Images

(* The handler of "shutdown" is one handler, and it waits for the reader.  *)
HandlerOK ==
  /\ after # "none" => loop = "handler"
  /\ after = "join" => pc[Main] = "ready"
  /\ stop => after = "join" \/ reader = "exited"

(* The reader is created once, by the callback of the one JobOpen.         *)
OpenOK == reader = "none" \/ ~InUse(OpenJob)

(* Behind the shutdown no reader is in a method of Database: it was        *)
(* stopped, or is being stopped, or was created when there was no peer.    *)
Behind == shutdown /\ ShutdownMsg \notin Elems(posted) /\ shutdownDelay = 0

StopOK ==
  Behind =>
    \/ reader \in {"none", "exited"}
    \/ after \in {"stop", "join"}
    \/ ~peer /\ pc[Reader] = "ready"

MRInv ==
  /\ Inv(Messages)
  /\ ShutdownOK
  /\ MRTypeOK
  /\ ImportOK
  /\ ReaderOK
  /\ HandlerOK
  /\ OpenOK
  /\ StopOK
-----------------------------------------------------------------------------
(* The database's part of the invariant.                                   *)

(* imageAdded is posted.                                                   *)
LEMMA ImageAddedDB ==
  ASSUME MRInv, NEW g \in Images, ImageAdded(g)
  PROVE  Inv(Messages)' /\ ShutdownOK'
<1> USE DEF MRInv
<1>1. /\ posted \in Seq(Messages) /\ Added(g) \in Messages
      /\ Added(g) \in Broadcasts /\ Added(g) \notin Elems(posted)
      /\ posted' = Append(posted, Added(g)) /\ loop' = "handler"
  BY Names, ImageNames
     DEF Inv, DBTypeOK, MQTypeOK, ImportOK, ImageAdded, Post
<1>2. /\ posted' \in Seq(Messages)
      /\ Elems(posted') = Elems(posted) \union {Added(g)}
      /\ Once(posted) => Once(posted')
  BY <1>1, AppendFacts
<1>3. Inv(Messages)'
  BY <1>1, <1>2, ForeignInv DEF Inv, Places, ImageAdded
<1>4. ShutdownOK'
  BY <1>1, <1>2, ForeignEnds DEF ShutdownOK, ImageAdded, dbVars
<1> QED BY <1>3, <1>4

(* A broadcast is dispatched.                                              *)
LEMMA DispatchAddedDB ==
  ASSUME MRInv, DispatchAdded
  PROVE  Inv(Messages)' /\ ShutdownOK'
<1> USE DEF MRInv
<1>1. PICK g \in Images :
        /\ Head(posted) = Added(g)
        /\ IF peer
           THEN /\ pc' = [pc EXCEPT ![Main] = "add"]
                /\ cur' = [cur EXCEPT ![Main] = Push(g)]
                /\ error' = [error EXCEPT ![Push(g)] = "none"]
           ELSE UNCHANGED <<pc, cur, error>>
  BY DEF DispatchAdded
<1>2. /\ posted \in Seq(Messages) /\ posted # <<>> /\ posted' = Tail(posted)
      /\ GetMessage /\ loop = "get" /\ loop' = "handler"
  BY DEF Inv, DBTypeOK, MQTypeOK, DispatchAdded, GetMessage
<1>3. /\ posted' \in Seq(Messages) /\ Once(posted) => Once(posted')
      /\ Elems(posted) = {Added(g)} \union Elems(posted')
  BY <1>1, <1>2, TailFacts
<1>4. Inv(Messages)'
  <2>1. CASE peer
    <3>1. Push(g) \in Requests /\ ~InUse(Push(g))
      BY <1>3, ImageNames DEF ImportOK
    <3> QED BY <1>1, <1>2, <2>1, <3>1, HandlerCallInv DEF DispatchAdded
  <2>2. CASE ~peer
    BY <1>1, <1>2, <1>3, <2>2, ForeignInv
       DEF Inv, Places, DispatchAdded, dbVars
  <2> QED BY <2>1, <2>2
<1>5. ShutdownOK'
  <2>1. cur[Main] # FinalizeJob
    BY <1>2, JobsAssumption DEF Inv, MainOK, CallerOK, Callers, AllJobs
  <2>2. ~quit
    BY <1>2 DEF ShutdownOK
  <2>3. ShutdownMsg # Added(g)
    BY ImageNames, Names DEF DBMessages
  <2> QED BY <1>2, <1>3, <2>1, <2>2, <2>3, ForeignEnds DEF DispatchAdded
<1> QED BY <1>4, <1>5

LEMMA DispatchChangedDB ==
  ASSUME MRInv, DispatchChanged
  PROVE  Inv(Messages)' /\ ShutdownOK'
<1> USE DEF MRInv
<1>1. /\ posted \in Seq(Messages) /\ posted # <<>> /\ posted' = Tail(posted)
      /\ GetMessage /\ loop' = "handler"
      /\ Head(posted) \in Broadcasts
      /\ UNCHANGED <<shutdown, shutdownDelay, quit, dbVars>>
  BY ImageNames DEF Inv, DBTypeOK, MQTypeOK, DispatchChanged, GetMessage
<1>2. /\ posted' \in Seq(Messages) /\ Once(posted) => Once(posted')
      /\ Elems(posted') \subseteq Elems(posted)
  BY <1>1, TailFacts
<1>3. Inv(Messages)'
  BY <1>1, <1>2, ForeignInv DEF Inv, Places
<1>4. ShutdownOK'
  <2>1. Head(posted) # ShutdownMsg
    BY <1>1, Names DEF DBMessages
  <2> QED BY <1>1, <2>1, MessageEnds DEF dbVars
<1> QED BY <1>3, <1>4

(* The callback of an update broadcasts imageChanged.                      *)
LEMMA DispatchStoredDB ==
  ASSUME MRInv, DispatchStored
  PROVE  Inv(Messages)' /\ ShutdownOK'
<1> USE DEF MRInv
<1>1. PICK g \in Images :
        /\ Head(posted) \in {Meta(g), Thumb(g)}
        /\ posted' = Append(Tail(posted), Changed(g)) \/ posted' = Tail(posted)
  BY DEF DispatchStored
<1>2. /\ posted \in Seq(Messages) /\ posted # <<>>
      /\ loop = "get" /\ loop' = "handler"
      /\ Changed(g) \in Broadcasts /\ Changed(g) \in Messages
      /\ UNCHANGED <<shutdown, shutdownDelay, quit, dbVars>>
  BY Names, ImageNames DEF Inv, DBTypeOK, MQTypeOK, DispatchStored
<1>3. /\ Tail(posted) \in Seq(Messages)
      /\ Once(posted) => Once(Tail(posted))
      /\ Elems(posted) = {Head(posted)} \union Elems(Tail(posted))
  BY <1>2, TailFacts
<1>4. /\ Append(Tail(posted), Changed(g)) \in Seq(Messages)
      /\ Elems(Append(Tail(posted), Changed(g)))
           = Elems(Tail(posted)) \union {Changed(g)}
      /\ Once(Tail(posted)) => Once(Append(Tail(posted), Changed(g)))
  <2> DEFINE s == Tail(posted)
             m == Changed(g)
  <2>1. s \in Seq(Messages) /\ m \in Messages /\ m \notin DBMessages
    BY <1>2, <1>3, Names
  <2> HIDE DEF s, m
  <2>2. /\ Append(s, m) \in Seq(Messages)
        /\ Elems(Append(s, m)) = Elems(s) \union {m}
    BY <2>1, AppendFacts
  <2>3. /\ Len(s) \in Nat /\ DOMAIN s = 1..Len(s)
        /\ DOMAIN Append(s, m) = 1..(Len(s) + 1)
        /\ \A i \in 1..Len(s) : Append(s, m)[i] = s[i]
        /\ Append(s, m)[Len(s) + 1] = m
    BY <2>1, EndFacts
  <2>4. Once(s) => Once(Append(s, m))
    <3> SUFFICES ASSUME Once(s),
                        NEW i \in 1..(Len(s) + 1), NEW k \in 1..(Len(s) + 1),
                        Append(s, m)[i] = Append(s, m)[k],
                        Append(s, m)[i] \in DBMessages
                 PROVE  i = k
      BY <2>3 DEF Once
    <3>1. i \in 1..Len(s) /\ k \in 1..Len(s)
      BY <2>1, <2>3
    <3> QED BY <2>3, <3>1 DEF Once
  <2> QED BY <2>2, <2>4 DEF s, m
<1>5. Inv(Messages)'
  BY <1>1, <1>2, <1>3, <1>4, ForeignInv DEF Inv, Places
<1>6. ShutdownOK'
  <2>1. Head(posted) # ShutdownMsg
    BY <1>1, ImageNames, JobsAssumption DEF AllJobs, Jobs, AsyncJobs
  <2>2. ShutdownMsg \in Elems(posted) => ShutdownMsg \in Elems(posted')
    BY <1>1, <1>3, <1>4, <2>1
  <2> QED BY <1>2, <2>2, ForeignEnds DEF ShutdownOK, dbVars
<1> QED BY <1>5, <1>6

(* Whatever the step, the database keeps its invariant.                    *)
LEMMA StepDB ==
  ASSUME MRInv, [MRNext]_allVars
  PROVE  Inv(Messages)' /\ ShutdownOK'
<1>1. CASE QuietStep \/ ReaderCalls
  BY <1>1, DatabaseSteps, NextInv, NextEnds, Names DEF MRInv
<1>2. CASE ForeignStep
  BY <1>2, ImageAddedDB, DispatchAddedDB, DispatchChangedDB, DispatchStoredDB
     DEF ForeignStep
<1> QED BY <1>1, <1>2, StepKinds
-----------------------------------------------------------------------------
(* Jobs come into use only by a call.                                      *)

LEMMA CallerMoves ==
  ASSUME Inv(Messages), NEW j \in AsyncJobs, ~InUse(j),
         NEW t \in Callers, AddJob(t) \/ SignalWorker(t) \/ Return(t)
  PROVE  ~InUse(j)'
<1>1. j # NoJob /\ cur \in [Callers -> AllJobs \union {NoJob}]
  BY JobsAssumption DEF AllJobs, Jobs, Inv, DBTypeOK
<1>2. UNCHANGED <<running, posted>>
  BY DEF AddJob, SignalWorker, Return, mqVars
<1>3. \A u \in Callers : cur'[u] # j
  BY <1>1 DEF AddJob, SignalWorker, Return, InUse
<1>4. j \notin Elems(queue')
  <2>1. CASE AddJob(t)
    <3>1. queue \in Seq(AllJobs) /\ cur[t] \in AllJobs /\ cur[t] # j
      BY <2>1 DEF Inv, DBTypeOK, CallerOK, AddJob, InUse
    <3>2. Elems(Append(queue, cur[t])) = Elems(queue) \union {cur[t]}
      BY <3>1, AppendFacts
    <3> QED BY <2>1, <3>1, <3>2 DEF AddJob, InUse
  <2>2. CASE SignalWorker(t) \/ Return(t)
    BY <2>2 DEF SignalWorker, Return, InUse
  <2> QED BY <2>1, <2>2
<1> QED BY <1>2, <1>3, <1>4 DEF InUse

LEMMA WorkerMoves ==
  ASSUME Inv(Messages), NEW j \in AsyncJobs, ~InUse(j), WorkerNext
  PROVE  ~InUse(j)'
<1>1. j # NoJob
  BY JobsAssumption DEF AllJobs, Jobs
<1>2. UNCHANGED cur
  BY DEF WorkerNext, Wake, WorkerExits, QueueIsEmpty, RemoveJob, RunAsync,
     RunBlocking, RunFinalize
<1>3. Elems(queue') \union {running'}
        \subseteq Elems(queue) \union {running, NoJob}
  <2>1. CASE RemoveJob
    <3>1. queue \in Seq(AllJobs) /\ queue # <<>>
      BY <2>1 DEF Inv, DBTypeOK, RemoveJob
    <3>2. Elems(queue) = {Head(queue)} \union Elems(Tail(queue))
      BY <3>1, TailFacts
    <3> QED BY <2>1, <3>2 DEF RemoveJob
  <2>2. CASE ~RemoveJob
    BY <2>2 DEF WorkerNext, Wake, WorkerExits, QueueIsEmpty, RunAsync,
       RunBlocking, RunFinalize
  <2> QED BY <2>1, <2>2
<1>4. Elems(posted') \subseteq Elems(posted) \union {running}
  <2>1. CASE RunAsync
    <3>1. posted \in Seq(Messages) /\ running \in Messages
      BY <2>1 DEF Inv, DBTypeOK, MQTypeOK, RunAsync, Messages, DBMessages
    <3>2. Elems(Append(posted, running)) = Elems(posted) \union {running}
      BY <3>1, AppendFacts
    <3> QED BY <2>1, <3>2 DEF RunAsync, Post
  <2>2. CASE ~RunAsync
    BY <2>2 DEF WorkerNext, Wake, WorkerExits, QueueIsEmpty, RemoveJob,
       RunBlocking, RunFinalize, mqVars
  <2> QED BY <2>1, <2>2
<1> QED BY <1>1, <1>2, <1>3, <1>4 DEF InUse

LEMMA MainMoves ==
  ASSUME Inv(Messages), NEW j \in AsyncJobs, ~InUse(j), MainNext
  PROVE  ~InUse(j)'
<1>1. j # NoJob /\ j # FinalizeJob /\ j # ShutdownMsg
      /\ cur \in [Callers -> AllJobs \union {NoJob}]
  BY JobsAssumption DEF AllJobs, Jobs, Inv, DBTypeOK
<1>2. UNCHANGED <<queue, running>>
  BY DEF MainNext, DispatchDone, PutOffShutdown, BeginFinalize, Joined,
     MainInput, MainInitiatesShutdown, MainHandlerReturns,
     MainChecksShutdown, MainLoopEnds, dbVars
<1>3. \A u \in Callers : cur'[u] # j
  BY <1>1 DEF MainNext, DispatchDone, PutOffShutdown, BeginFinalize, Joined,
     MainInput, MainInitiatesShutdown, MainHandlerReturns,
     MainChecksShutdown, MainLoopEnds, dbVars, InUse
<1>4. j \notin Elems(posted')
  <2>1. posted \in Seq(Messages) /\ ShutdownMsg \in Messages
    BY DEF Inv, DBTypeOK, MQTypeOK, Messages, DBMessages
  <2>2. \/ posted' = posted
        \/ posted # <<>> /\ posted' = Tail(posted)
        \/ posted' = Append(posted, ShutdownMsg)
    <3>1. CASE DispatchDone \/ PutOffShutdown \/ BeginFinalize
      BY <3>1 DEF DispatchDone, PutOffShutdown, BeginFinalize, GetMessage
    <3>2. CASE MainInitiatesShutdown \/ MainChecksShutdown
      BY <3>2 DEF MainInitiatesShutdown, InitiateShutdown, MainChecksShutdown,
         CheckShutdown, Post
    <3>3. CASE Joined \/ MainInput \/ MainHandlerReturns \/ MainLoopEnds
      BY <3>3 DEF Joined, MainInput, Input, MainHandlerReturns,
         HandlerReturns, MainLoopEnds, LoopEnds, mqVars
    <3> QED BY <3>1, <3>2, <3>3 DEF MainNext
  <2>3. Elems(posted') \subseteq Elems(posted) \union {ShutdownMsg}
    <3>1. Elems(Append(posted, ShutdownMsg)) = Elems(posted) \union {ShutdownMsg}
      BY <2>1, AppendFacts
    <3>2. posted # <<>> => Elems(Tail(posted)) \subseteq Elems(posted)
      BY <2>1, TailFacts
    <3> QED BY <2>2, <3>1, <3>2
  <2> QED BY <1>1, <2>3 DEF InUse
<1> QED BY <1>2, <1>3, <1>4 DEF InUse

LEMMA QuietMoves ==
  ASSUME Inv(Messages), NEW j \in AsyncJobs, ~InUse(j), QuietStep
  PROVE  ~InUse(j)'
<1>1. CASE UNCHANGED vars
  BY <1>1 DEF vars, mqVars, dbVars, InUse
<1> QED BY <1>1, CallerMoves, WorkerMoves, MainMoves DEF QuietStep

(* The reader's calls, and the pushes of the dispatch thread, use no other *)
(* job.                                                                    *)
LEMMA CallMoves ==
  ASSUME Inv(Messages), NEW j \in AsyncJobs, ~InUse(j),
         NEW t \in Callers, NEW k, k # j,
         cur' = [cur EXCEPT ![t] = k], UNCHANGED <<queue, running>>,
         Elems(posted') \subseteq Elems(posted) \union Broadcasts
  PROVE  ~InUse(j)'
<1>1. j \notin Broadcasts
  BY Names DEF AllJobs, Jobs
<1>2. \A u \in Callers : cur'[u] # j
  BY DEF InUse, Inv, DBTypeOK
<1> QED BY <1>1, <1>2 DEF InUse

(* A broadcast's handler that calls nothing uses no job.                   *)
LEMMA ForeignMoves ==
  ASSUME NEW j \in AsyncJobs, ~InUse(j), UNCHANGED <<queue, running, cur>>,
         Elems(posted') \subseteq Elems(posted) \union Broadcasts
  PROVE  ~InUse(j)'
<1>1. j \notin Broadcasts
  BY Names DEF AllJobs, Jobs
<1> QED BY <1>1 DEF InUse
-----------------------------------------------------------------------------
(* What the steps that are not the database's own do to the message queue. *)
LEMMA ForeignPosted ==
  ASSUME Inv(Messages), ForeignStep, NEW m \in Broadcasts,
         \A g \in Images : m = Added(g) => ~ImageAdded(g),
         \A g \in Images : m # Changed(g)
  PROVE  /\ m \in Elems(posted') => m \in Elems(posted)
         /\ Single(posted, m) => Single(posted', m)
         /\ posted # <<>> /\ Head(posted) = m /\ Single(posted, m)
              /\ ~(\E g \in Images : ImageAdded(g))
                => m \notin Elems(posted')
<1>1. posted \in Seq(Messages)
  BY DEF Inv, DBTypeOK, MQTypeOK
<1>2. ASSUME NEW g \in Images, ImageAdded(g), m # Added(g)
      PROVE  /\ m \in Elems(posted') => m \in Elems(posted)
             /\ Single(posted, m) => Single(posted', m)
  <2>1. posted' = Append(posted, Added(g)) /\ Added(g) \in Messages
    BY <1>2, ImageNames, Names DEF ImageAdded, Post
  <2> QED BY <1>1, <1>2, <2>1, AppendFacts, SingleFacts
<1>3. ASSUME DispatchAdded \/ DispatchChanged \/ DispatchStored
      PROVE  /\ m \in Elems(posted') => m \in Elems(posted)
             /\ Single(posted, m) => Single(posted', m)
             /\ Head(posted) = m /\ Single(posted, m) => m \notin Elems(posted')
  <2>1. /\ posted # <<>>
        /\ \/ posted' = Tail(posted)
           \/ \E g \in Images : posted' = Append(Tail(posted), Changed(g))
    BY <1>3 DEF DispatchAdded, DispatchChanged, DispatchStored, GetMessage
  <2>2. /\ Tail(posted) \in Seq(Messages)
        /\ m \in Elems(Tail(posted)) => m \in Elems(posted)
        /\ Single(posted, m) => Single(Tail(posted), m)
        /\ Head(posted) = m /\ Single(posted, m)
             => m \notin Elems(Tail(posted))
    BY <1>1, <2>1, TailFacts, SingleFacts
  <2>3. ASSUME NEW g \in Images, posted' = Append(Tail(posted), Changed(g))
        PROVE  /\ m \in Elems(posted') => m \in Elems(Tail(posted))
               /\ Single(Tail(posted), m) => Single(posted', m)
    <3> DEFINE s == Tail(posted)
    <3>1. s \in Seq(Messages) /\ Changed(g) \in Messages /\ Changed(g) # m
      BY <2>2, ImageNames, Names
    <3> HIDE DEF s
    <3>2. /\ Elems(Append(s, Changed(g))) = Elems(s) \union {Changed(g)}
          /\ Single(s, m) => Single(Append(s, Changed(g)), m)
      BY <3>1, AppendFacts, SingleFacts
    <3> QED BY <2>3, <3>1, <3>2 DEF s
  <2> QED BY <2>1, <2>2, <2>3
<1> QED BY <1>2, <1>3 DEF ForeignStep
(* They bring in nothing but broadcasts.                                   *)
LEMMA ForeignElems ==
  ASSUME Inv(Messages), ForeignStep
  PROVE  Elems(posted') \subseteq Elems(posted) \union Broadcasts
<1>1. posted \in Seq(Messages)
  BY DEF Inv, DBTypeOK, MQTypeOK
<1>2. ASSUME NEW g \in Images, ImageAdded(g)
      PROVE  Elems(posted') \subseteq Elems(posted) \union Broadcasts
  <2>1. posted' = Append(posted, Added(g)) /\ Added(g) \in Messages
    BY <1>2, ImageNames, Names DEF ImageAdded, Post
  <2>2. Elems(posted') = Elems(posted) \union {Added(g)}
    BY <1>1, <2>1, AppendFacts
  <2> QED BY <2>2, ImageNames
<1>3. CASE DispatchAdded \/ DispatchChanged \/ DispatchStored
  <2>0. posted # <<>>
    BY <1>3 DEF DispatchAdded, DispatchChanged, DispatchStored, GetMessage
  <2>1. Elems(Tail(posted)) \subseteq Elems(posted)
        /\ Tail(posted) \in Seq(Messages)
    BY <1>1, <2>0, TailFacts
  <2>2. ASSUME NEW h \in Images, posted' = Append(Tail(posted), Changed(h))
        PROVE  Elems(posted') = Elems(Tail(posted)) \union {Changed(h)}
    <3> DEFINE s == Tail(posted)
    <3>1. s \in Seq(Messages) /\ Changed(h) \in Messages
      BY <2>1, ImageNames, Names
    <3> HIDE DEF s
    <3>2. Elems(Append(s, Changed(h))) = Elems(s) \union {Changed(h)}
      BY <3>1, AppendFacts
    <3> QED BY <2>2, <3>2 DEF s
  <2>3. \/ posted' = Tail(posted)
        \/ \E h \in Images : posted' = Append(Tail(posted), Changed(h))
    BY <1>3 DEF DispatchAdded, DispatchChanged, DispatchStored, GetMessage
  <2>4. \A h \in Images : Changed(h) \in Broadcasts
    BY ImageNames
  <2> QED BY <2>1, <2>2, <2>3, <2>4
<1> QED BY <1>2, <1>3 DEF ForeignStep
-----------------------------------------------------------------------------
(* The types of the reader's state.                                        *)

(* Rows come and go at the end of a stack table.                           *)
LEMMA StackFacts ==
  ASSUME NEW s \in Seq(Images)
  PROVE  /\ \A g \in Images : Append(s, g) \in Seq(Images)
         /\ s # <<>> => /\ s[Len(s)] \in Images
                        /\ SubSeq(s, 1, Len(s) - 1) \in Seq(Images)
OBVIOUS

LEMMA StepTypes ==
  ASSUME MRInv, [MRNext]_allVars
  PROVE  MRTypeOK'
<1> USE DEF MRTypeOK
<1>0. MRTypeOK
  BY DEF MRInv
<1>1. CASE UNCHANGED allVars
  BY <1>0, <1>1 DEF allVars, mrVars
<1>2. CASE RunAsyncJob
  <2>1. ASSUME NEW g \in Images, running = Push(g)
        PROVE  Append(stack, running[2]) \in Seq(Images)
    BY <1>0, <2>1, ImageNames, StackFacts
  <2>2. stack' \in Seq(Images)
    BY <1>0, <1>2, <2>1 DEF RunAsyncJob
  <2> QED BY <1>0, <1>2, <2>2 DEF RunAsyncJob
<1>3. CASE RunPop
  <2>1. stack' \in Seq(Images) /\ guid' \in Images \union {NoImage}
    BY <1>0, <1>3, StackFacts DEF RunPop
  <2> QED BY <1>0, <1>3, <2>1 DEF RunPop
<1>4. CASE RunFile
  BY <1>0, <1>4 DEF RunFile
<1>5. CASE OtherDatabaseStep \/ LoopStep
  BY <1>0, <1>5 DEF OtherDatabaseStep, LoopStep, mrVars
<1>6. CASE \E g \in Images : ImageAdded(g)
  BY <1>0, <1>6 DEF ImageAdded
<1>7. CASE DispatchNext
  <2>1. error \in [Jobs -> {"none", "ok", "failed", "misuse"}]
    BY DEF MRInv, Inv, DBTypeOK
  <2>2. CASE DispatchPushed
    BY <1>0, <2>2 DEF DispatchPushed
  <2>3. CASE DispatchAdded \/ DispatchChanged \/ DispatchStored
    BY <1>0, <2>3 DEF DispatchAdded, DispatchChanged, DispatchStored, mrVars
  <2>4. CASE DispatchOpened \/ DispatchShutdown
    BY <1>0, <2>4 DEF DispatchOpened, DispatchShutdown
  <2> QED BY <1>7, <2>2, <2>3, <2>4 DEF DispatchNext
<1>8. CASE PingAfterPush \/ StopReader \/ ReaderJoined
  BY <1>0, <1>8 DEF PingAfterPush, StopReader, ReaderJoined
<1>9. CASE ReaderNext
  <2>1. CASE ReaderTests \/ ReaderWakes \/ ReadFile
    BY <1>0, <2>1 DEF ReaderTests, ReaderWakes, ReadFile, ReaderVarsKept
  <2>2. CASE ReaderPops \/ ReaderPopped \/ ReaderAsksFile \/ ReaderGotFile
    BY <1>0, <2>2 DEF ReaderPops, ReaderPopped, ReaderAsksFile, ReaderGotFile,
       ReaderVarsKept
  <2>3. CASE StoreMetadata \/ StoreThumbnail
    BY <1>0, <2>3 DEF StoreMetadata, StoreThumbnail, Store, ReaderVarsKept
  <2> QED BY <1>9, <2>1, <2>2, <2>3 DEF ReaderNext
<1> QED BY <1>1, <1>2, <1>3, <1>4, <1>5, <1>6, <1>7, <1>8, <1>9 DEF MRNext
-----------------------------------------------------------------------------
(* The imports.                                                            *)

(* The database, and the reader's calls, leave imports alone.              *)
LEMMA ImportDB ==
  ASSUME MRInv, QuietStep \/ ReaderCalls, UNCHANGED added
  PROVE  ImportOK'
<1> SUFFICES ASSUME NEW g \in Images
             PROVE  /\ g \notin added =>
                         Added(g) \notin Elems(posted') /\ ~InUse(Push(g))'
                    /\ Added(g) \in Elems(posted') => ~InUse(Push(g))'
                    /\ Single(posted', Added(g))
  BY DEF ImportOK
<1>1. Inv(Messages) /\ ImportOK
  BY DEF MRInv
<1>2. Push(g) \in AsyncJobs /\ Added(g) \in Broadcasts
  BY ImageNames DEF AsyncJobs
<1>3. /\ Added(g) \in Elems(posted') => Added(g) \in Elems(posted)
      /\ Single(posted', Added(g))
  BY <1>1, <1>2, DatabaseSteps, BroadcastsStay DEF ImportOK
<1>4. ~InUse(Push(g)) => ~InUse(Push(g))'
  <2> SUFFICES ASSUME ~InUse(Push(g)) PROVE ~InUse(Push(g))'
    OBVIOUS
  <2>1. CASE QuietStep
    BY <1>1, <1>2, <2>1, QuietMoves
  <2>2. CASE ReaderCalls
    <3>1. PICK k \in {PopJob, FileJob, Meta(guid), Thumb(guid)} :
            Call(Reader, k)
      BY <2>2 DEF ReaderCalls
    <3>2. k # Push(g)
      <4>1. Push(g) \notin BlockingJobs
        BY ImageNames, JobsAssumption
      <4> QED BY <3>1, <4>1, ImageNames, Names
    <3>3. Reader \in Callers /\ posted' = posted
      BY <3>1, Names DEF Call, mqVars
    <3> QED BY <1>1, <1>2, <3>1, <3>2, <3>3, CallMoves DEF Call
  <2> QED BY <2>1, <2>2
<1> QED BY <1>1, <1>3, <1>4 DEF ImportOK

LEMMA ImageAddedImport ==
  ASSUME MRInv, NEW h \in Images, ImageAdded(h)
  PROVE  ImportOK'
<1> SUFFICES ASSUME NEW g \in Images
             PROVE  /\ g \notin added' =>
                         Added(g) \notin Elems(posted') /\ ~InUse(Push(g))'
                    /\ Added(g) \in Elems(posted') => ~InUse(Push(g))'
                    /\ Single(posted', Added(g))
  BY DEF ImportOK
<1>1. Inv(Messages) /\ ImportOK
  BY DEF MRInv
<1>2. Push(g) \in AsyncJobs /\ Added(g) \in Broadcasts
      /\ Added(h) \in Broadcasts /\ (Added(g) = Added(h) => g = h)
  BY ImageNames DEF AsyncJobs
<1>3. /\ posted \in Seq(Messages) /\ Added(h) \in Messages
      /\ posted' = Append(posted, Added(h))
      /\ h \notin added /\ added' = added \union {h}
      /\ UNCHANGED <<queue, running, cur>>
  BY <1>1, <1>2, Names DEF Inv, DBTypeOK, MQTypeOK, ImageAdded, Post, dbVars
<1>4. Elems(posted') = Elems(posted) \union {Added(h)}
  BY <1>3, AppendFacts
<1>5. ~InUse(Push(g)) => ~InUse(Push(g))'
  BY <1>2, <1>3, <1>4, ForeignMoves
<1>6. Single(posted', Added(g))
  BY <1>1, <1>2, <1>3, SingleFacts DEF ImportOK
<1> QED BY <1>1, <1>2, <1>3, <1>4, <1>5, <1>6 DEF ImportOK

LEMMA DispatchImport ==
  ASSUME MRInv, DispatchAdded \/ DispatchChanged \/ DispatchStored
  PROVE  ImportOK'
<1> SUFFICES ASSUME NEW g \in Images
             PROVE  /\ g \notin added =>
                         Added(g) \notin Elems(posted') /\ ~InUse(Push(g))'
                    /\ Added(g) \in Elems(posted') => ~InUse(Push(g))'
                    /\ Single(posted', Added(g))
  <2>1. added' = added
    BY DEF DispatchAdded, DispatchChanged, DispatchStored, mrVars
  <2> QED BY <2>1 DEF ImportOK
<1>1. Inv(Messages) /\ ImportOK /\ posted \in Seq(Messages) /\ posted # <<>>
  BY DEF MRInv, Inv, DBTypeOK, MQTypeOK, DispatchAdded, DispatchChanged,
     DispatchStored, GetMessage
<1>2. Push(g) \in AsyncJobs /\ Added(g) \in Broadcasts
      /\ \A h \in Images : Added(g) # Changed(h)
  BY ImageNames DEF AsyncJobs
<1>3. ~\E h \in Images : ImageAdded(h)
  BY DEF ImageAdded, DispatchAdded, DispatchChanged, DispatchStored, GetMessage
<1>4. /\ Added(g) \in Elems(posted') => Added(g) \in Elems(posted)
      /\ Single(posted', Added(g))
      /\ Head(posted) = Added(g) => Added(g) \notin Elems(posted')
  BY <1>1, <1>2, <1>3, ForeignPosted DEF ForeignStep, ImportOK
<1>5. Elems(posted') \subseteq Elems(posted) \union Broadcasts
  BY <1>1, ForeignElems DEF ForeignStep
<1>6. CASE UNCHANGED <<queue, running, cur>>
  BY <1>1, <1>2, <1>4, <1>5, <1>6, ForeignMoves DEF ImportOK
<1>7. CASE ~UNCHANGED <<queue, running, cur>>
  <2>1. PICK h \in Images : /\ Head(posted) = Added(h)
                            /\ cur' = [cur EXCEPT ![Main] = Push(h)]
                            /\ UNCHANGED <<queue, running>>
    BY <1>7 DEF DispatchAdded, DispatchChanged, DispatchStored, dbVars
  <2>2. CASE h = g
    <3>1. Added(g) \in Elems(posted)
      BY <1>1, <2>1, <2>2, TailFacts
    <3> QED BY <1>1, <1>4, <2>1, <2>2, <3>1 DEF ImportOK
  <2>3. CASE h # g
    <3>1. Push(h) # Push(g) /\ Main \in Callers
      BY <2>3, ImageNames DEF Callers
    <3>2. ~InUse(Push(g)) => ~InUse(Push(g))'
      BY <1>1, <1>2, <1>5, <2>1, <3>1, CallMoves
    <3> QED BY <1>1, <1>4, <3>2 DEF ImportOK
  <2> QED BY <2>2, <2>3
<1> QED BY <1>6, <1>7

(* Only the end of an import adds an image.                                *)
LEMMA StepImport ==
  ASSUME MRInv, [MRNext]_allVars
  PROVE  ImportOK'
<1>1. CASE ForeignStep
  BY <1>1, ImageAddedImport, DispatchImport DEF ForeignStep
<1>2. CASE ~ForeignStep
  <2>1. UNCHANGED added
    BY <1>2 DEF MRNext, ForeignStep, RunAsyncJob, RunPop, RunFile,
       OtherDatabaseStep, DispatchNext, DispatchOpened, DispatchPushed,
       DispatchShutdown, PingAfterPush, StopReader, ReaderJoined, LoopStep,
       ReaderNext, ReaderTests, ReaderWakes, ReaderPops, ReaderPopped,
       ReaderAsksFile, ReaderGotFile, ReadFile, StoreMetadata, StoreThumbnail,
       Store, ReaderVarsKept, mrVars, allVars
  <2> QED BY <1>2, <2>1, StepKinds, ImportDB
<1> QED BY <1>1, <1>2
-----------------------------------------------------------------------------
(* Where the reader is.                                                    *)

(* A blocking job in the list, being run or answered is the reader's.      *)
LEMMA ReaderRuns ==
  ASSUME MRInv, NEW j \in Taken \intersect BlockingJobs
  PROVE  /\ j = PopJob => reader = "popping"
         /\ j = FileJob => reader = "filing"
<1>1. PICK t \in Callers : cur[t] = j /\ pc[t] \in {"signal", "await"}
  BY DEF MRInv, Inv, BlockingHeld
<1>2. t = Reader
  BY <1>1, Names DEF MRInv, ReaderOK
<1>3. reader \in {"popping", "filing"}
  BY <1>1, <1>2 DEF MRInv, ReaderOK, MRTypeOK
<1> QED BY <1>1, <1>2, <1>3, Names DEF MRInv, ReaderOK

(* Steps of the database on behalf of the reader and the dispatch thread.  *)
LEMMA ReaderDB ==
  ASSUME MRInv, RunAsyncJob \/ RunFile \/ OtherDatabaseStep \/ LoopStep
  PROVE  ReaderOK'
<1> USE DEF MRInv, ReaderOK
<1>1. UNCHANGED <<reader, guid>>
  BY DEF RunAsyncJob, RunFile, OtherDatabaseStep, LoopStep, mrVars
<1>2. /\ cur \in [Callers -> AllJobs \union {NoJob}]
      /\ pc \in [Callers -> {"ready", "add", "signal", "await", "join"}]
      /\ Callers = {Main, Reader} /\ Main # Reader
      /\ NoJob \notin BlockingJobs
      /\ AsyncJobs \intersect BlockingJobs = {}
      /\ {PopJob, FileJob} \subseteq BlockingJobs
  BY Names, JobsAssumption DEF Inv, DBTypeOK, AllJobs, Jobs, AsyncJobs
<1>3. ASSUME NEW t \in Callers, AddJob(t)
      PROVE  ReaderOK'
  <2>1. pc[t] = "add" /\ pc' = [pc EXCEPT ![t] = "signal"]
        /\ cur' = [cur EXCEPT ![t] = IF @ \in AsyncJobs THEN NoJob ELSE @]
    BY <1>3 DEF AddJob
  <2> QED BY <1>1, <1>2, <2>1
<1>4. ASSUME NEW t \in Callers, SignalWorker(t)
      PROVE  ReaderOK'
  <2>1. pc[t] = "signal" /\ cur' = cur
        /\ pc' = [pc EXCEPT ![t] = IF cur[t] = NoJob THEN "ready"
                                   ELSE IF cur[t] = FinalizeJob THEN "join"
                                   ELSE "await"]
    BY <1>4 DEF SignalWorker
  <2> QED BY <1>1, <1>2, <2>1
<1>5. CASE Joined
  <2>1. pc' = [pc EXCEPT ![Main] = "ready"]
        /\ cur' = [cur EXCEPT ![Main] = NoJob]
    BY <1>5 DEF Joined
  <2> QED BY <1>1, <1>2, <2>1
<1>6. CASE UNCHANGED <<pc, cur>>
  BY <1>1, <1>6
<1>7. \/ \E t \in Callers : AddJob(t) \/ SignalWorker(t)
      \/ Joined
      \/ UNCHANGED <<pc, cur>>
  BY DEF RunAsyncJob, RunAsync, RunFile, RunBlocking, OtherDatabaseStep, Wake,
     WorkerExits, QueueIsEmpty, RemoveJob, RunFinalize, LoopStep, MainInput,
     MainInitiatesShutdown, MainHandlerReturns, MainChecksShutdown,
     MainLoopEnds, dbVars
<1> QED BY <1>3, <1>4, <1>5, <1>6, <1>7

(* Handlers.                                                               *)
LEMMA ReaderMain ==
  ASSUME MRInv,
         \/ \E g \in Images : ImageAdded(g)
         \/ DispatchNext \/ PingAfterPush \/ StopReader \/ ReaderJoined
         \/ RunPop \/ UNCHANGED allVars
  PROVE  ReaderOK'
<1> USE DEF MRInv, ReaderOK
<1>1. CASE RunPop
  <2>1. UNCHANGED <<pc, cur, reader>> /\ reader = "popping"
    BY <1>1, ReaderRuns DEF RunPop, RunBlocking, Taken
  <2> QED BY <2>1
<1>2. CASE DispatchOpened
  <2>1. reader = "none" /\ UNCHANGED <<pc, cur, guid>>
        /\ reader' \in {"none", "test"}
    <3>1. posted \in Seq(Messages) /\ posted # <<>> /\ Head(posted) = OpenJob
      BY <1>2 DEF Inv, DBTypeOK, MQTypeOK, DispatchOpened, DispatchDone,
         GetMessage
    <3>2. OpenJob \in Elems(posted)
      BY <3>1, TailFacts
    <3> QED BY <1>2, <3>2 DEF OpenOK, InUse, DispatchOpened, DispatchDone
  <2> QED BY <2>1
<1>3. CASE DispatchAdded \/ DispatchShutdown
  <2>1. /\ cur \in [Callers -> AllJobs \union {NoJob}]
        /\ pc \in [Callers -> {"ready", "add", "signal", "await", "join"}]
        /\ Callers = {Main, Reader} /\ Main # Reader
    BY Names DEF Inv, DBTypeOK
  <2>2. UNCHANGED <<reader, guid>>
    BY <1>3 DEF DispatchAdded, DispatchShutdown
  <2>3. \/ UNCHANGED <<pc, cur>>
        \/ \E j \in Requests \union {FinalizeJob} :
             /\ pc' = [pc EXCEPT ![Main] = "add"]
             /\ cur' = [cur EXCEPT ![Main] = j]
    BY <1>3, ImageNames DEF DispatchAdded, DispatchShutdown, PutOffShutdown,
       BeginFinalize, dbVars
  <2>4. (Requests \union {FinalizeJob}) \intersect BlockingJobs = {}
    BY JobsAssumption DEF Jobs
  <2> QED BY <2>1, <2>2, <2>3, <2>4
<1>4. CASE \/ \E g \in Images : ImageAdded(g)
           \/ DispatchChanged \/ DispatchPushed \/ DispatchStored
           \/ PingAfterPush \/ StopReader \/ ReaderJoined
           \/ UNCHANGED allVars
  <2>1. UNCHANGED <<pc, cur, reader, guid>>
    BY <1>4 DEF ImageAdded, DispatchChanged, DispatchPushed, DispatchDone,
       DispatchStored, PingAfterPush, StopReader, ReaderJoined, allVars, vars,
       mrVars, dbVars
  <2> QED BY <2>1
<1> QED BY <1>1, <1>2, <1>3, <1>4 DEF DispatchNext

(* The reader's own steps.                                                 *)
LEMMA ReaderSteps ==
  ASSUME MRInv, ReaderNext
  PROVE  ReaderOK'
<1> USE DEF MRInv, ReaderOK
<1>1. /\ cur \in [Callers -> AllJobs \union {NoJob}]
      /\ pc \in [Callers -> {"ready", "add", "signal", "await", "join"}]
      /\ Callers = {Main, Reader} /\ Main # Reader
      /\ BlockingJobs = {PopJob, FileJob}
      /\ NoJob \notin BlockingJobs
      /\ guid \in Images \union {NoImage}
      /\ pc[Reader] = "ready" => cur[Reader] = NoJob
  BY Names, JobsAssumption DEF Inv, DBTypeOK, CallerOK, MRTypeOK, AllJobs, Jobs
<1>2. CASE ReaderTests \/ ReaderWakes \/ ReadFile
  <2>1. UNCHANGED <<pc, cur, guid>>
    BY <1>2 DEF ReaderTests, ReaderWakes, ReadFile, vars, dbVars
  <2>2. /\ reader \in {"test", "wait", "read"}
        /\ reader' \in {"exited", "wait", "pop", "metadata"}
        /\ reader' = "metadata" => reader = "read"
    BY <1>2 DEF ReaderTests, ReaderWakes, ReadFile
  <2> QED BY <1>1, <2>1, <2>2
<1>3. CASE ReaderPops
  <2>1. CASE Call(Reader, PopJob) /\ reader' = "popping"
    BY <1>1, <2>1 DEF Call
  <2>2. CASE reader' = "test" /\ UNCHANGED vars
    BY <1>1, <1>3, <2>2 DEF ReaderPops, vars, dbVars
  <2> QED BY <1>3, <2>1, <2>2 DEF ReaderPops
<1>4. CASE ReaderPopped
  <2>1. /\ pc' = [pc EXCEPT ![Reader] = "ready"]
        /\ cur' = [cur EXCEPT ![Reader] = NoJob]
        /\ guid' = guid
        /\ reader' = "test" \/ (reader' = "file" /\ guid # NoImage)
    BY <1>4 DEF ReaderPopped, Return
  <2> QED BY <1>1, <2>1
<1>5. CASE ReaderAsksFile
  <2>1. CASE Call(Reader, FileJob) /\ reader' = "filing"
    BY <1>1, <1>5, <2>1 DEF ReaderAsksFile, Call
  <2>2. CASE reader' = "read" /\ UNCHANGED vars
    BY <1>1, <1>5, <2>2 DEF ReaderAsksFile, vars, dbVars
  <2> QED BY <1>5, <2>1, <2>2 DEF ReaderAsksFile
<1>6. CASE ReaderGotFile
  BY <1>1, <1>6 DEF ReaderGotFile, Return
<1>7. CASE StoreMetadata \/ StoreThumbnail
  <2>1. PICK j \in {Meta(guid), Thumb(guid)} :
          Call(Reader, j) \/ UNCHANGED vars
    BY <1>7 DEF StoreMetadata, StoreThumbnail, Store
  <2>2. /\ pc[Reader] = "ready" /\ guid' = guid
        /\ \/ reader = "metadata" /\ reader' = "thumbnail"
           \/ reader' = "pop"
    BY <1>7 DEF StoreMetadata, StoreThumbnail, Store
  <2>3. Call(Reader, j) => j \notin BlockingJobs
    <3>1. reader \in {"metadata", "thumbnail"}
      BY <1>7 DEF StoreMetadata, StoreThumbnail, Store
    <3>2. guid \in Images
      BY <3>1
    <3> QED BY <3>2, ImageNames, JobsAssumption
  <2> QED BY <1>1, <2>1, <2>2, <2>3 DEF Call, vars, dbVars
<1> QED BY <1>2, <1>3, <1>4, <1>5, <1>6, <1>7 DEF ReaderNext

LEMMA StepReader ==
  ASSUME MRInv, [MRNext]_allVars
  PROVE  ReaderOK'
BY ReaderDB, ReaderMain, ReaderSteps DEF MRNext
-----------------------------------------------------------------------------
(* The handler of "shutdown".                                              *)

LEMMA StepHandler ==
  ASSUME MRInv, [MRNext]_allVars
  PROVE  HandlerOK'
<1> USE DEF HandlerOK
<1>0. HandlerOK /\ ReaderOK /\ MRTypeOK /\ Inv(Messages)
      /\ pc \in [Callers -> {"ready", "add", "signal", "await", "join"}]
      /\ Callers = {Main, Reader} /\ Main # Reader
  BY Names DEF MRInv, Inv, DBTypeOK
<1>1. CASE UNCHANGED allVars
  BY <1>0, <1>1 DEF allVars, vars, mqVars, dbVars, mrVars
<1>2. CASE RunAsyncJob \/ RunPop \/ RunFile
  BY <1>0, <1>2 DEF RunAsyncJob, RunAsync, RunPop, RunFile, RunBlocking, mqVars
<1>3. CASE OtherDatabaseStep
  <2>1. UNCHANGED <<loop, after, stop, reader>>
    BY <1>3 DEF OtherDatabaseStep, Wake, WorkerExits, QueueIsEmpty, RemoveJob,
       RunFinalize, Joined, AddJob, SignalWorker, mqVars, mrVars
  <2>2. pc[Main] = "ready" => pc'[Main] = "ready"
    BY <1>0, <1>3 DEF OtherDatabaseStep, Wake, WorkerExits, QueueIsEmpty,
       RemoveJob, RunFinalize, Joined, AddJob, SignalWorker
  <2> QED BY <1>0, <2>1, <2>2
<1>4. CASE \E g \in Images : ImageAdded(g)
  BY <1>0, <1>4 DEF ImageAdded, MainIdle, dbVars
<1>5. CASE DispatchNext
  <2>1. loop = "get" /\ loop' = "handler" /\ stop' = stop /\ after = "none"
    BY <1>0, <1>5 DEF DispatchNext, DispatchAdded, DispatchChanged,
       DispatchOpened, DispatchPushed, DispatchStored, DispatchShutdown,
       DispatchDone, PutOffShutdown, BeginFinalize, GetMessage, mrVars
  <2>2. after' \in {"none", "ping", "stop"}
    BY <1>5, <2>1 DEF DispatchNext, DispatchAdded, DispatchChanged,
       DispatchOpened, DispatchPushed, DispatchStored, DispatchShutdown, mrVars
  <2>3. reader = "exited" => reader' = "exited"
    <3>1. CASE DispatchOpened
      <4>1. posted \in Seq(Messages) /\ posted # <<>> /\ Head(posted) = OpenJob
        BY <1>0, <3>1 DEF Inv, DBTypeOK, MQTypeOK, DispatchOpened,
           DispatchDone, GetMessage
      <4>2. OpenJob \in Elems(posted)
        BY <4>1, TailFacts
      <4> QED BY <4>2 DEF MRInv, OpenOK, InUse
    <3>2. CASE ~DispatchOpened
      BY <1>5, <3>2 DEF DispatchNext, DispatchAdded, DispatchChanged,
         DispatchPushed, DispatchStored, DispatchShutdown, mrVars
    <3> QED BY <3>1, <3>2
  <2> QED BY <1>0, <2>1, <2>2, <2>3
<1>6. CASE PingAfterPush \/ StopReader \/ ReaderJoined
  BY <1>0, <1>6 DEF PingAfterPush, StopReader, ReaderJoined, vars, mqVars,
     dbVars
<1>7. CASE LoopStep
  <2>1. UNCHANGED <<pc, after, stop, reader>>
    BY <1>7 DEF LoopStep, MainInput, MainInitiatesShutdown,
       MainHandlerReturns, MainChecksShutdown, MainLoopEnds, dbVars, mrVars
  <2>2. after # "none" => loop' = "handler"
    BY <1>0, <1>7 DEF LoopStep, MainInput, Input, MainInitiatesShutdown,
       MainHandlerReturns, MainChecksShutdown, CheckShutdown, MainLoopEnds,
       LoopEnds
  <2> QED BY <1>0, <2>1, <2>2
<1>8. CASE ReaderNext
  <2>1. UNCHANGED <<loop, after, stop>>
    BY <1>8 DEF ReaderNext, ReaderTests, ReaderWakes, ReaderPops,
       ReaderPopped, ReaderAsksFile, ReaderGotFile, ReadFile, StoreMetadata,
       StoreThumbnail, Store, ReaderVarsKept, Call, Return, vars, mqVars
  <2>2. reader # "exited"
    BY <1>0, <1>8 DEF ReaderNext, ReaderTests, ReaderWakes, ReaderPops,
       ReaderPopped, ReaderAsksFile, ReaderGotFile, ReadFile, StoreMetadata,
       StoreThumbnail, Store
  <2>3. pc'[Main] = pc[Main]
    BY <1>0, <1>8 DEF ReaderNext, ReaderTests, ReaderWakes, ReaderPops,
       ReaderPopped, ReaderAsksFile, ReaderGotFile, ReadFile, StoreMetadata,
       StoreThumbnail, Store, Call, Return, vars, dbVars
  <2> QED BY <1>0, <2>1, <2>2, <2>3
<1> QED BY <1>1, <1>2, <1>3, <1>4, <1>5, <1>6, <1>7, <1>8 DEF MRNext
-----------------------------------------------------------------------------
(* The one JobOpen.                                                        *)

(* The reader and the handlers of broadcasts call nothing but requests.    *)
LEMMA NotCalled ==
  ASSUME Inv(Messages), [MRNext]_allVars,
         NEW j \in AsyncJobs, j \notin Requests, ~InUse(j)
  PROVE  ~InUse(j)'
<1>0. Inv(Messages) /\ j \in AsyncJobs /\ j \notin Requests \union BlockingJobs
  BY JobsAssumption DEF AsyncJobs
<1>1. CASE QuietStep
  BY <1>0, <1>1, QuietMoves
<1>2. CASE ReaderCalls
  <2>1. PICK k : Call(Reader, k)
    BY <1>2 DEF ReaderCalls
  <2>2. k # j /\ Reader \in Callers /\ posted' = posted
    BY <1>0, <2>1, Names DEF Call, mqVars
  <2> QED BY <1>0, <2>1, <2>2, CallMoves DEF Call
<1>3. CASE ForeignStep
  <2>1. \A g \in Images : Push(g) # j
    BY <1>0, ImageNames
  <2>2. Elems(posted') \subseteq Elems(posted) \union Broadcasts
    BY <1>0, <1>3, ForeignElems
  <2>3. UNCHANGED <<queue, running>>
        /\ \/ UNCHANGED cur
           \/ \E g \in Images : cur' = [cur EXCEPT ![Main] = Push(g)]
    BY <1>3 DEF ForeignStep, ImageAdded, DispatchAdded, DispatchChanged,
       DispatchStored, dbVars
  <2> QED BY <1>0, <2>1, <2>2, <2>3, CallMoves, ForeignMoves DEF Callers
<1> QED BY <1>1, <1>2, <1>3, StepKinds

(* The callback that creates the reader is the last of it.                 *)
LEMMA StepOpen ==
  ASSUME MRInv, [MRNext]_allVars
  PROVE  OpenOK'
<1>1. Inv(Messages) /\ OpenOK /\ OpenJob \in AsyncJobs
      /\ OpenJob \notin Requests \union BlockingJobs
      /\ posted \in Seq(Messages)
  BY JobsAssumption DEF MRInv, AsyncJobs, Inv, DBTypeOK, MQTypeOK
<1>2. ~InUse(OpenJob) => ~InUse(OpenJob)'
  BY <1>1, NotCalled
<1>3. CASE DispatchOpened
  <2>1. /\ posted # <<>> /\ Head(posted) = OpenJob /\ posted' = Tail(posted)
        /\ UNCHANGED <<queue, running, cur>>
    BY <1>3 DEF DispatchOpened, DispatchDone, GetMessage
  <2>2. /\ OpenJob \in Elems(posted)
        /\ Once(posted) => OpenJob \notin Elems(Tail(posted))
    BY <1>1, <2>1, TailFacts DEF DBMessages
  <2>3. OpenJob \notin Elems(queue) \union {running}
        /\ OpenJob \notin Elems(posted')
    BY <1>1, <2>1, <2>2 DEF Inv, Places
  <2>4. \A t \in Callers : cur[t] # OpenJob
    <3> SUFFICES ASSUME NEW t \in Callers, cur[t] = OpenJob PROVE FALSE
      OBVIOUS
    <3>1. OpenJob \notin BlockingJobs \union {FinalizeJob, NoJob}
      BY <1>1, JobsAssumption DEF AllJobs, Jobs, AsyncJobs
    <3>2. pc[t] = "add"
      BY <1>1, <3>1 DEF Inv, CallerOK, DBTypeOK
    <3> QED BY <1>1, <2>2, <3>2 DEF Inv, Places
  <2> QED BY <2>1, <2>3, <2>4 DEF OpenOK, InUse
<1>4. CASE ~DispatchOpened
  <2>1. reader = "none" => reader' = "none"
    BY <1>4 DEF MRNext, RunAsyncJob, RunPop, RunFile, OtherDatabaseStep,
       ImageAdded, DispatchNext, DispatchAdded, DispatchChanged,
       DispatchPushed, DispatchStored, DispatchShutdown, PingAfterPush,
       StopReader, ReaderJoined, LoopStep, ReaderNext, ReaderTests,
       ReaderWakes, ReaderPops, ReaderPopped, ReaderAsksFile, ReaderGotFile,
       ReadFile, StoreMetadata, StoreThumbnail, Store, mrVars, allVars
  <2> QED BY <1>1, <1>2, <2>1 DEF OpenOK
<1> QED BY <1>3, <1>4
-----------------------------------------------------------------------------
(* Behind the shutdown.                                                    *)

(* Only the handler of "shutdown" can leave it behind.                     *)
LEMMA StillComing ==
  ASSUME MRInv, [MRNext]_allVars, ~Behind, ~(PutOffShutdown \/ BeginFinalize)
  PROVE  ~Behind'
<1> USE DEF Behind
<1>1. posted \in Seq(Messages) /\ ShutdownMsg \in Messages
      /\ ShutdownMsg \notin Broadcasts /\ ShutdownMsg \notin AsyncJobs
  BY Names, JobsAssumption DEF MRInv, Inv, DBTypeOK, MQTypeOK, Messages,
     DBMessages, AllJobs, Jobs
<1>2. CASE /\ UNCHANGED <<shutdown, shutdownDelay>>
           /\ ShutdownMsg \in Elems(posted) => ShutdownMsg \in Elems(posted')
  BY <1>2
<1>3. CASE posted' = Append(posted, ShutdownMsg)
  <2>1. Elems(posted') = Elems(posted) \union {ShutdownMsg}
    BY <1>1, <1>3, AppendFacts
  <2> QED BY <2>1
<1>4. ASSUME GetMessage, Head(posted) # ShutdownMsg,
             UNCHANGED <<shutdown, shutdownDelay>>
      PROVE  ~Behind'
  <2>1. posted # <<>> /\ posted' = Tail(posted)
    BY <1>4 DEF GetMessage
  <2>2. Elems(posted) = {Head(posted)} \union Elems(Tail(posted))
    BY <1>1, <2>1, TailFacts
  <2> QED BY <1>2, <1>4, <2>1, <2>2
<1>5. ASSUME NEW x \in Messages, posted' = Append(posted, x),
             UNCHANGED <<shutdown, shutdownDelay>>
      PROVE  ~Behind'
  <2>1. Elems(posted') = Elems(posted) \union {x}
    BY <1>1, <1>5, AppendFacts
  <2> QED BY <1>2, <1>5, <2>1
<1>6. CASE QuietStep
  <2>1. CASE \E t \in Callers : AddJob(t) \/ SignalWorker(t) \/ Return(t)
    BY <1>2, <2>1 DEF AddJob, SignalWorker, Return, mqVars
  <2>2. CASE WorkerNext
    <3>1. CASE RunAsync
      <4>1. running \in Messages
        BY <3>1 DEF RunAsync, Messages, DBMessages
      <4> QED BY <1>5, <3>1, <4>1 DEF RunAsync, Post
    <3>2. CASE ~RunAsync
      BY <1>2, <2>2, <3>2 DEF WorkerNext, Wake, WorkerExits, QueueIsEmpty,
         RemoveJob, RunBlocking, RunFinalize, mqVars
    <3> QED BY <3>1, <3>2
  <2>3. CASE MainNext
    <3>1. CASE DispatchDone
      BY <1>1, <1>4, <3>1 DEF DispatchDone
    <3>2. CASE MainInitiatesShutdown
      BY <1>3, <3>2 DEF MainInitiatesShutdown, InitiateShutdown, Post
    <3>3. CASE MainChecksShutdown
      BY <1>2, <1>3, <3>3 DEF MainChecksShutdown, CheckShutdown, Post
    <3>4. CASE Joined \/ MainInput \/ MainHandlerReturns \/ MainLoopEnds
      BY <1>2, <3>4 DEF Joined, MainInput, Input, MainHandlerReturns,
         HandlerReturns, MainLoopEnds, LoopEnds, mqVars
    <3> QED BY <2>3, <3>1, <3>2, <3>3, <3>4 DEF MainNext
  <2>4. CASE UNCHANGED vars
    BY <1>2, <2>4 DEF vars, mqVars
  <2> QED BY <1>6, <2>1, <2>2, <2>3, <2>4 DEF QuietStep
<1>7. CASE ReaderCalls
  BY <1>2, <1>7 DEF ReaderCalls, Call, mqVars
<1>8. CASE ForeignStep
  <2>1. ASSUME NEW g \in Images, ImageAdded(g) PROVE ~Behind'
    BY <1>5, <2>1, ImageNames, Names DEF ImageAdded, Post
  <2>2. CASE DispatchAdded \/ DispatchChanged
    <3>1. Head(posted) \in Broadcasts
      BY <2>2, ImageNames DEF DispatchAdded, DispatchChanged
    <3> QED BY <1>1, <1>4, <2>2, <3>1 DEF DispatchAdded, DispatchChanged
  <2>3. CASE DispatchStored
    <3>1. PICK g \in Images :
            /\ Head(posted) \in {Meta(g), Thumb(g)} /\ posted # <<>>
            /\ \/ posted' = Append(Tail(posted), Changed(g))
               \/ posted' = Tail(posted)
      BY <2>3 DEF DispatchStored
    <3>2. Head(posted) # ShutdownMsg /\ Changed(g) \in Messages
      BY <1>1, <3>1, ImageNames, Names DEF AsyncJobs
    <3>3. /\ Elems(posted) = {Head(posted)} \union Elems(Tail(posted))
          /\ Tail(posted) \in Seq(Messages)
      BY <1>1, <3>1, TailFacts
    <3> DEFINE s == Tail(posted)
    <3>4. s \in Seq(Messages)
      BY <3>3
    <3> HIDE DEF s
    <3>5. Elems(Append(s, Changed(g))) = Elems(s) \union {Changed(g)}
      BY <3>2, <3>4, AppendFacts
    <3>6. ShutdownMsg \in Elems(posted) => ShutdownMsg \in Elems(posted')
      BY <3>1, <3>2, <3>3, <3>5 DEF s
    <3> QED BY <1>2, <2>3, <3>6 DEF DispatchStored
  <2> QED BY <1>8, <2>1, <2>2, <2>3 DEF ForeignStep
<1> QED BY <1>6, <1>7, <1>8, StepKinds

(* No other step takes the message.                                        *)
LEMMA ShutdownIsDispatched ==
  ASSUME MRInv, [MRNext]_allVars, PutOffShutdown \/ BeginFinalize
  PROVE  DispatchShutdown
<1>1. loop = "get" /\ loop' = "handler" /\ Head(posted) = ShutdownMsg
  BY DEF PutOffShutdown, BeginFinalize, GetMessage
<1>2. ShutdownMsg \notin AsyncJobs \union Broadcasts
  BY Names, JobsAssumption DEF DBMessages, AllJobs, Jobs
<1>3. ~(DispatchAdded \/ DispatchChanged)
  BY <1>1, <1>2, ImageNames DEF DispatchAdded, DispatchChanged
<1>4. ~(DispatchOpened \/ DispatchPushed)
  BY <1>1, <1>2 DEF DispatchOpened, DispatchPushed, DispatchDone
<1>5. ~DispatchStored
  BY <1>1, <1>2, ImageNames DEF DispatchStored, AsyncJobs
<1>6. ~LoopStep
  <2>1. ~MainInput
    BY <1>1 DEF MainInput, Input, PutOffShutdown, BeginFinalize, GetMessage,
       MRInv, Inv, ShutdownOnce, DBTypeOK, MQTypeOK, Elems
  <2> QED BY <1>1, <2>1 DEF LoopStep, MainInitiatesShutdown, InitiateShutdown,
          MainHandlerReturns, HandlerReturns, MainChecksShutdown,
          CheckShutdown, MainLoopEnds, LoopEnds
<1>7. ~(RunAsyncJob \/ RunPop \/ RunFile \/ OtherDatabaseStep)
  BY <1>1 DEF RunAsyncJob, RunAsync, RunPop, RunFile, RunBlocking,
     OtherDatabaseStep, Wake, WorkerExits, QueueIsEmpty, RemoveJob,
     RunFinalize, Joined, AddJob, SignalWorker, mqVars
<1>8. ~(\/ \E g \in Images : ImageAdded(g)
        \/ PingAfterPush \/ StopReader \/ ReaderJoined \/ UNCHANGED allVars)
  BY <1>1 DEF ImageAdded, PingAfterPush, StopReader, ReaderJoined, allVars,
     vars, mqVars
<1>9. ~ReaderNext
  BY <1>1 DEF ReaderNext, ReaderTests, ReaderWakes, ReaderPops, ReaderPopped,
     ReaderAsksFile, ReaderGotFile, ReadFile, StoreMetadata, StoreThumbnail,
     Store, Call, Return, vars, mqVars
<1> QED BY <1>3, <1>4, <1>5, <1>6, <1>7, <1>8, <1>9 DEF MRNext, DispatchNext

(* Without a peer there is none again, and the reader calls nothing.       *)
LEMMA NoPeerNoCall ==
  ASSUME MRInv, [MRNext]_allVars, ~peer
  PROVE  ~peer' /\ (pc[Reader] = "ready" => pc'[Reader] = "ready")
<1>1. pc \in [Callers -> {"ready", "add", "signal", "await", "join"}]
      /\ Callers = {Main, Reader} /\ Main # Reader
  BY Names DEF MRInv, Inv, DBTypeOK
<1>2. CASE QuietStep
  <2>1. CASE \E t \in Callers : AddJob(t) \/ SignalWorker(t) \/ Return(t)
    BY <1>1, <2>1 DEF AddJob, SignalWorker, Return
  <2>2. CASE WorkerNext
    BY <2>2 DEF WorkerNext, Wake, WorkerExits, QueueIsEmpty, RemoveJob,
       RunAsync, RunBlocking, RunFinalize
  <2>3. CASE MainNext
    BY <1>1, <2>3 DEF MainNext, DispatchDone, PutOffShutdown, BeginFinalize,
       Joined, MainInput, MainInitiatesShutdown, MainHandlerReturns,
       MainChecksShutdown, MainLoopEnds, dbVars
  <2>4. CASE UNCHANGED vars
    BY <2>4 DEF vars, dbVars
  <2> QED BY <1>2, <2>1, <2>2, <2>3, <2>4 DEF QuietStep
<1>3. CASE ReaderCalls
  BY <1>3 DEF ReaderCalls, Call
<1>4. CASE ForeignStep
  BY <1>1, <1>4 DEF ForeignStep, ImageAdded, DispatchAdded, DispatchChanged,
     DispatchStored, dbVars
<1> QED BY <1>2, <1>3, <1>4, StepKinds

(* A reader that was not created, or has ended, stays so, unless a late    *)
(* JobOpen creates it.                                                     *)
LEMMA GoneReaders ==
  ASSUME MRInv, [MRNext]_allVars
  PROVE  /\ reader = "none" => reader' = "none" \/ DispatchOpened
         /\ reader = "exited" => reader' = "exited"
<1>1. CASE DispatchOpened
  <2>1. posted \in Seq(Messages) /\ posted # <<>> /\ Head(posted) = OpenJob
    BY <1>1 DEF MRInv, Inv, DBTypeOK, MQTypeOK, DispatchOpened, DispatchDone,
       GetMessage
  <2>2. OpenJob \in Elems(posted)
    BY <2>1, TailFacts
  <2> QED BY <1>1, <2>2 DEF MRInv, OpenOK, InUse
<1>2. CASE ~DispatchOpened
  BY <1>2 DEF MRNext, RunAsyncJob, RunPop, RunFile, OtherDatabaseStep,
     ImageAdded, DispatchNext, DispatchAdded, DispatchChanged,
     DispatchPushed, DispatchStored, DispatchShutdown, PingAfterPush,
     StopReader, ReaderJoined, LoopStep, ReaderNext, ReaderTests,
     ReaderWakes, ReaderPops, ReaderPopped, ReaderAsksFile, ReaderGotFile,
     ReadFile, StoreMetadata, StoreThumbnail, Store, mrVars, allVars
<1> QED BY <1>1, <1>2

LEMMA StepStop ==
  ASSUME MRInv, [MRNext]_allVars
  PROVE  StopOK'
<1> SUFFICES ASSUME Behind'
             PROVE  \/ reader' \in {"none", "exited"}
                    \/ after' \in {"stop", "join"}
                    \/ ~peer' /\ pc'[Reader] = "ready"
  BY DEF StopOK
<1>1. MRTypeOK /\ HandlerOK /\ ReaderOK /\ ShutdownOK /\ StopOK
  BY DEF MRInv
<1>2. CASE ~Behind
  <2>1. (PutOffShutdown \/ BeginFinalize) /\ loop = "get"
    BY <1>2, StillComing DEF PutOffShutdown, BeginFinalize, GetMessage
  <2>2. reader' = "none" \/ after' = "stop"
    BY <2>1, ShutdownIsDispatched DEF DispatchShutdown
  <2> QED BY <2>2
<1>3. CASE Behind /\ reader \in {"none", "exited"}
  <2>1. CASE DispatchOpened
    <3>1. loop = "get" /\ pc' = pc /\ peer' = peer
      BY <2>1 DEF DispatchOpened, DispatchDone, GetMessage
    <3>2. cur[Main] # FinalizeJob
      BY <3>1, JobsAssumption
         DEF MRInv, Inv, MainOK, CallerOK, Callers, AllJobs
    <3>3. ~peer
      BY <1>1, <1>3, <3>2 DEF ShutdownOK, Behind
    <3> QED BY <1>1, <1>3, <3>1, <3>3 DEF ReaderOK
  <2>2. CASE ~DispatchOpened
    BY <1>3, <2>2, GoneReaders
  <2> QED BY <2>1, <2>2
<1>4. CASE after \in {"stop", "join"}
  <2>1. loop = "handler"
    BY <1>1, <1>4 DEF HandlerOK
  <2>2. after' \in {"stop", "join"} \/ ReaderJoined
    BY <1>4, <2>1 DEF MRNext, RunAsyncJob, RunPop, RunFile,
     OtherDatabaseStep, ImageAdded, MainIdle, DispatchNext, DispatchAdded,
     DispatchChanged, DispatchOpened, DispatchPushed, DispatchDone,
     DispatchStored, DispatchShutdown, PutOffShutdown, BeginFinalize,
     GetMessage, PingAfterPush, StopReader, LoopStep, ReaderNext, ReaderTests,
     ReaderWakes, ReaderPops, ReaderPopped, ReaderAsksFile, ReaderGotFile,
     ReadFile, StoreMetadata, StoreThumbnail, Store, ReaderVarsKept, mrVars,
     allVars
  <2>3. ReaderJoined => reader' = "exited"
    BY DEF ReaderJoined
  <2> QED BY <2>2, <2>3
<1>5. CASE ~peer /\ pc[Reader] = "ready"
  BY <1>5, NoPeerNoCall
<1> QED BY <1>1, <1>2, <1>3, <1>4, <1>5 DEF StopOK
-----------------------------------------------------------------------------
(* The invariant holds in every reachable state.                           *)

LEMMA InitMR == MRInit => MRInv
<1> SUFFICES ASSUME MRInit PROVE MRInv
  OBVIOUS
<1>1. Init /\ posted = <<>> /\ queue = <<>> /\ running = NoJob
      /\ cur = [t \in Callers |-> IF t = Main THEN OpenJob ELSE NoJob]
      /\ pc = [t \in Callers |-> IF t = Main THEN "add" ELSE "ready"]
  BY DEF MRInit, Init, MQInit
<1>2. Inv(Messages) /\ ShutdownOK
  BY <1>1, InitInv, InitEnds, Names
<1>3. MRTypeOK
  <2>1. stack \in Seq(Images)
    <3>1. stack = <<>> /\ \A S : <<>> \in Seq(S)
      BY DEF MRInit
    <3> QED BY ONLY <3>1
  <2>2. /\ added = {} /\ reader = "none" /\ ping = FALSE /\ stop = FALSE
        /\ guid = NoImage /\ file = FALSE /\ after = "none" /\ crashed = FALSE
    BY DEF MRInit
  <2> QED BY <2>1, <2>2 DEF MRTypeOK
<1>4. ImportOK
  <2>1. \A g \in Images : Push(g) # NoJob /\ Push(g) # OpenJob
    BY ImageNames, JobsAssumption DEF AllJobs, Jobs, AsyncJobs
  <2>2. Elems(posted) = {} /\ Elems(queue) = {}
        /\ \A m : Single(posted, m)
    BY <1>1 DEF Elems, Single
  <2> QED BY <1>1, <2>1, <2>2 DEF ImportOK, InUse
<1>5. ReaderOK
  BY <1>1, Names, JobsAssumption DEF MRInit, ReaderOK, AllJobs, Jobs
<1>6. HandlerOK /\ OpenOK /\ StopOK
  BY DEF MRInit, Init, MQInit, HandlerOK, OpenOK, StopOK, Behind
<1> QED BY <1>2, <1>3, <1>4, <1>5, <1>6 DEF MRInv

LEMMA SpecMR == MRSpec => []MRInv
<1>1. MRInv /\ [MRNext]_allVars => MRInv'
  BY StepDB, StepTypes, StepImport, StepReader, StepHandler, StepOpen,
     StepStop DEF MRInv
<1> QED BY <1>1, InitMR, PTL DEF MRSpec

(* The state of the reader and of what it works on is well-typed: the      *)
(* stack holds images, the reader is at a line of its loop.                *)
THEOREM ReaderTypes == MRSpec => []MRTypeOK
<1>1. MRInv => MRTypeOK
  BY DEF MRInv
<1> QED BY <1>1, SpecMR, PTL

(* With the reader as its client, and broadcasts in its message queue, the *)
(* database keeps its promises: no wake-up is lost, a blocked caller's job *)
(* is held, and answers are results.                                       *)
THEOREM DatabaseServesReader ==
  MRSpec => [](NoLostWakeup /\ BlockedJobIsHeld /\ AnswersAreResults)
<1>1. MRInv => NoLostWakeup /\ BlockedJobIsHeld /\ AnswersAreResults
  BY DEF MRInv, Inv, CallerOK, BlockingHeld, Taken, BlockedJobIsHeld
<1> QED BY <1>1, SpecMR, PTL

(* When the message loop has ended no reader is in a method of the         *)
(* database, which is then deleted: however the shutdown is put off, and   *)
(* even if the callback of a late JobOpen creates the reader behind it.    *)
THEOREM NobodyUsesTheDatabase == MRSpec => []DatabaseUnusedAtExit
<1>1. MRInv => DatabaseUnusedAtExit
  <2> SUFFICES ASSUME MRInv, loop = "exited"
               PROVE  pc[Reader] = "ready"
    BY DEF DatabaseUnusedAtExit
  <2>1. Behind
    BY EmptyFacts DEF MRInv, ShutdownOK, Behind
  <2>2. after = "none"
    BY DEF MRInv, HandlerOK
  <2> QED BY <2>1, <2>2 DEF MRInv, StopOK, ReaderOK
<1> QED BY <1>1, SpecMR, PTL
-----------------------------------------------------------------------------
(* A stopped reader leaves no job behind.                                  *)

(* While there is no reader, or it has ended, the finalize job is the last.*)
FinalOK == reader \in {"none", "exited"} /\ peer => FinalizeIsLast

(* A reader that ends was stopped by a handler, which is not in finalize().*)
LEMMA LateReader ==
  ASSUME MRInv, [MRNext]_allVars, peer, reader \notin {"none", "exited"},
         reader' \in {"none", "exited"}
  PROVE  FinalizeIsLast'
<1>1. MRTypeOK /\ HandlerOK
  BY DEF MRInv
<1>2. reader = "test" /\ stop /\ UNCHANGED vars
  BY DEF MRNext, RunAsyncJob, RunPop, RunFile, OtherDatabaseStep, ImageAdded,
     DispatchNext, DispatchAdded, DispatchChanged, DispatchOpened,
     DispatchPushed, DispatchStored, DispatchShutdown, PingAfterPush,
     StopReader, ReaderJoined, LoopStep, ReaderNext, ReaderTests, ReaderWakes,
     ReaderPops, ReaderPopped, ReaderAsksFile, ReaderGotFile, ReadFile,
     StoreMetadata, StoreThumbnail, Store, mrVars, allVars
<1>3. cur[Main] # FinalizeJob
  BY <1>1, <1>2, JobsAssumption
     DEF HandlerOK, MRInv, Inv, CallerOK, Callers, AllJobs
<1>4. FinalizeJob \notin Elems(queue) \union {running} /\ job # "closed"
  BY <1>3 DEF MRInv, Inv, FinalizeOnce
<1> QED BY <1>2, <1>4 DEF FinalizeIsLast, Elems, vars, dbVars

LEMMA StepFinal ==
  ASSUME MRInv, FinalOK, [MRNext]_allVars
  PROVE  FinalOK'
<1> SUFFICES ASSUME reader' \in {"none", "exited"}, peer'
             PROVE  FinalizeIsLast'
  BY DEF FinalOK
<1>1. peer
  BY NoPeerNoCall
<1>2. CASE reader \in {"none", "exited"}
  <2>1. FinalizeIsLast /\ Inv(Messages) /\ pc[Reader] = "ready"
    BY <1>1, <1>2 DEF FinalOK, MRInv, ReaderOK
  <2>2. \A t \in Threads : pc[t] # "add"
    BY <2>1, ReaderAssumption
  <2>3. CASE QuietStep \/ ReaderCalls
    BY <2>1, <2>2, <2>3, DatabaseSteps, LastStays
  <2>4. CASE ForeignStep
    <3>1. UNCHANGED <<queue, running, job>>
      BY <2>4 DEF ForeignStep, ImageAdded, DispatchAdded, DispatchChanged,
         DispatchStored, dbVars
    <3> QED BY <2>1, <3>1 DEF FinalizeIsLast
  <2> QED BY <2>3, <2>4, StepKinds
<1>3. CASE reader \notin {"none", "exited"}
  BY <1>1, <1>3, LateReader
<1> QED BY <1>2, <1>3

(* peer becomes null where finalize() has joined the worker.               *)
LEMMA OnlyJoined ==
  ASSUME MRInv, [MRNext]_allVars, peer, ~peer'
  PROVE  worker = "exited" /\ queue' = queue
<1>1. CASE QuietStep
  <2>1. ~(\E t \in Callers : AddJob(t) \/ SignalWorker(t) \/ Return(t))
    BY DEF AddJob, SignalWorker, Return
  <2>2. ~(WorkerNext \/ UNCHANGED vars)
    BY DEF WorkerNext, Wake, WorkerExits, QueueIsEmpty, RemoveJob, RunAsync,
       RunBlocking, RunFinalize, vars, dbVars
  <2>3. Joined
    BY <1>1, <2>1, <2>2 DEF QuietStep, MainNext, DispatchDone, PutOffShutdown,
       BeginFinalize, MainInput, MainInitiatesShutdown, MainHandlerReturns,
       MainChecksShutdown, MainLoopEnds, dbVars
  <2> QED BY <2>3 DEF Joined
<1>2. ~ReaderCalls
  BY DEF ReaderCalls, Call
<1>3. ~ForeignStep
  BY DEF ForeignStep, ImageAdded, DispatchAdded, DispatchChanged,
     DispatchStored, dbVars
<1> QED BY <1>1, <1>2, <1>3, StepKinds

(* finalize() of a database whose reader has been stopped, or was never    *)
(* created, leaves no job in the list: none is lost and leaked.            *)
THEOREM NoJobIsLeft == MRSpec => StoppedReaderLeavesNoJob
<1>1. MRInit => FinalOK
  BY JobsAssumption
     DEF MRInit, Init, FinalOK, FinalizeIsLast, AllJobs
<1>2. MRInv /\ FinalOK /\ [MRNext]_allVars => FinalOK'
  BY StepFinal
<1>3. MRInv /\ FinalOK /\ [MRNext]_allVars
        => [(peer /\ ~peer' /\ reader \in {"none", "exited"})
              => queue' = <<>>]_allVars
  <2> SUFFICES ASSUME MRInv, FinalOK, [MRNext]_allVars, peer, ~peer',
                      reader \in {"none", "exited"}
               PROVE  queue' = <<>>
    OBVIOUS
  <2>1. worker = "exited" /\ queue' = queue
    BY OnlyJoined
  <2>2. job = "closed"
    BY <2>1 DEF MRInv, Inv, WorkerOK
  <2> QED BY <2>1, <2>2 DEF FinalOK, FinalizeIsLast
<1> QED BY <1>1, <1>2, <1>3, SpecMR, PTL DEF MRSpec, StoppedReaderLeavesNoJob
-----------------------------------------------------------------------------
(* While the frame is open the reader has a file to read.                  *)

FrameIsOpen ==
  /\ ~shutdown /\ peer /\ cur[Main] # FinalizeJob
  /\ ~InUse(CloseJob)
  /\ error[OpenJob] = "ok" \/ current => provider = "open"
  /\ reader # "none" => current

FileIsThere ==
  /\ FileJob \in answered \/ reader = "read" => file
  /\ ~crashed

LEMMA FrameStaysOpen ==
  ASSUME ~FrameCloses, MRInv, FrameIsOpen, [MRNext]_allVars
  PROVE  FrameIsOpen'
<1>1. ~shutdown /\ peer /\ cur[Main] # FinalizeJob /\ ~InUse(CloseJob)
      /\ Inv(Messages)
  BY DEF FrameIsOpen, MRInv
<1>2. ~(PutOffShutdown \/ BeginFinalize)
  <2>1. posted \in Seq(Messages)
    BY <1>1 DEF Inv, DBTypeOK, MQTypeOK
  <2>2. ShutdownMsg \notin Elems(posted)
    BY <1>1 DEF Inv, ShutdownOnce
  <2> QED BY <2>1, <2>2, TailFacts DEF PutOffShutdown, BeginFinalize, GetMessage
<1>3. ~Joined /\ ~RunFinalize
  BY <1>1 DEF Joined, RunFinalize, Inv, CallerOK, FinalizeOnce, Callers
<1>4. CloseJob \in AsyncJobs /\ CloseJob \notin Requests
      /\ OpenJob \in Jobs /\ OpenJob \notin Requests \union BlockingJobs
      /\ CloseJob # OpenJob /\ FinalizeJob \notin AsyncJobs
  BY JobsAssumption DEF AsyncJobs, Jobs
<1>5. ~InUse(CloseJob)'
  BY <1>1, <1>4, NotCalled
<1>6. ~shutdown'
  <2>1. UNCHANGED shutdown
    BY <1>2 DEF MRNext, RunAsyncJob, RunAsync, RunPop, RunFile, RunBlocking,
       OtherDatabaseStep, Wake, WorkerExits, QueueIsEmpty, RemoveJob,
       RunFinalize, Joined, AddJob, SignalWorker, ImageAdded, DispatchNext,
       DispatchAdded, DispatchChanged, DispatchOpened, DispatchPushed,
       DispatchDone, DispatchStored, DispatchShutdown, PingAfterPush,
       StopReader, ReaderJoined, LoopStep, MainInput, Input,
       MainHandlerReturns, HandlerReturns, MainChecksShutdown, CheckShutdown,
       MainLoopEnds, LoopEnds, ReaderNext, ReaderTests, ReaderWakes,
       ReaderPops, ReaderPopped, ReaderAsksFile, ReaderGotFile, ReadFile,
       StoreMetadata, StoreThumbnail, Store, Call, Return, mqVars, vars,
       allVars
  <2> QED BY <1>1, <2>1
<1>7. peer' /\ cur'[Main] # FinalizeJob
  <2>1. cur \in [Callers -> AllJobs \union {NoJob}]
        /\ Callers = {Main, Reader} /\ Main # Reader
        /\ NoJob # FinalizeJob /\ FinalizeJob \notin Requests
    BY <1>1, Names, JobsAssumption DEF Inv, DBTypeOK, AllJobs, Jobs, AsyncJobs
  <2>2. CASE QuietStep
    <3>1. CASE \E t \in Callers : AddJob(t) \/ SignalWorker(t) \/ Return(t)
      BY <1>1, <2>1, <3>1 DEF AddJob, SignalWorker, Return
    <3>2. CASE WorkerNext
      BY <1>1, <3>2 DEF WorkerNext, Wake, WorkerExits, QueueIsEmpty,
         RemoveJob, RunAsync, RunBlocking, RunFinalize
    <3>3. CASE MainNext
      BY <1>1, <1>2, <1>3, <3>3 DEF MainNext, DispatchDone, MainInput,
         MainInitiatesShutdown, MainHandlerReturns, MainChecksShutdown,
         MainLoopEnds, dbVars
    <3>4. CASE UNCHANGED vars
      BY <1>1, <3>4 DEF vars, dbVars
    <3> QED BY <2>2, <3>1, <3>2, <3>3, <3>4 DEF QuietStep
  <2>3. CASE ReaderCalls
    BY <1>1, <2>1, <2>3 DEF ReaderCalls, Call
  <2>4. CASE ForeignStep
    <3>1. \A g \in Images : Push(g) \in Requests
      BY ImageNames
    <3>2. /\ peer' = peer
          /\ \/ cur' = cur
             \/ \E g \in Images : cur' = [cur EXCEPT ![Main] = Push(g)]
      BY <2>4 DEF ForeignStep, ImageAdded, DispatchAdded, DispatchChanged,
         DispatchStored, dbVars
    <3> QED BY <1>1, <2>1, <3>1, <3>2
  <2> QED BY <2>2, <2>3, <2>4, StepKinds
<1>8. error'[OpenJob] = "ok" \/ current' => provider' = "open"
  <2>1. error \in [Jobs -> {"none", "ok", "failed", "misuse"}]
        /\ (error[OpenJob] = "ok" \/ current => provider = "open")
    BY <1>1 DEF Inv, DBTypeOK, FrameIsOpen
  <2>2. ASSUME NEW j \in Requests \union BlockingJobs,
               error' = [error EXCEPT ![j] = "none"],
               UNCHANGED <<provider, current>>
        PROVE  error'[OpenJob] = "ok" \/ current' => provider' = "open"
    BY <1>4, <2>1, <2>2
  <2>3. ASSUME running # CloseJob, Perform(running), UNCHANGED current
        PROVE  error'[OpenJob] = "ok" \/ current' => provider' = "open"
    BY <1>4, <2>1, <2>3 DEF Perform
  <2>4. CASE QuietStep
    <3>1. CASE RunAsync \/ RunBlocking
      BY <1>1, <2>3, <3>1 DEF RunAsync, RunBlocking, InUse
    <3>2. CASE DispatchDone
      BY <2>1, <3>2 DEF DispatchDone
    <3>3. CASE ~(RunAsync \/ RunBlocking \/ DispatchDone)
      <4>1. UNCHANGED <<error, provider, current>>
        BY <1>3, <2>4, <3>3 DEF QuietStep, AddJob, SignalWorker, Return,
           WorkerNext, Wake, WorkerExits, QueueIsEmpty, RemoveJob, MainNext,
           PutOffShutdown, BeginFinalize, Joined, MainInput,
           MainInitiatesShutdown, MainHandlerReturns, MainChecksShutdown,
           MainLoopEnds, vars, dbVars
      <4> QED BY <2>1, <4>1
    <3> QED BY <3>1, <3>2, <3>3
  <2>5. CASE ReaderCalls
    <3>1. PICK j : Call(Reader, j)
      BY <2>5 DEF ReaderCalls
    <3> QED BY <2>2, <3>1, Names DEF Call
  <2>6. CASE ForeignStep
    <3>1. CASE UNCHANGED <<error, provider, current>>
      BY <2>1, <3>1
    <3>2. CASE ~UNCHANGED <<error, provider, current>>
      <4>1. PICK g \in Images : /\ error' = [error EXCEPT ![Push(g)] = "none"]
                                /\ UNCHANGED <<provider, current>>
        BY <2>6, <3>2 DEF ForeignStep, ImageAdded, DispatchAdded,
           DispatchChanged, DispatchStored, dbVars
      <4> QED BY <2>2, <4>1, ImageNames
    <3> QED BY <3>1, <3>2
  <2> QED BY <2>4, <2>5, <2>6, StepKinds
<1>9. reader' # "none" => current'
  <2>1. current => current'
    BY DEF MRNext, RunAsyncJob, RunAsync, RunPop, RunFile, RunBlocking,
       OtherDatabaseStep, Wake, WorkerExits, QueueIsEmpty, RemoveJob,
       RunFinalize, Joined, AddJob, SignalWorker, ImageAdded, DispatchNext,
       DispatchAdded, DispatchChanged, DispatchOpened, DispatchPushed,
       DispatchDone, DispatchStored, DispatchShutdown, PutOffShutdown,
       BeginFinalize, PingAfterPush, StopReader, ReaderJoined, LoopStep,
       MainInput, MainInitiatesShutdown, MainHandlerReturns,
       MainChecksShutdown, MainLoopEnds, ReaderNext, ReaderTests, ReaderWakes,
       ReaderPops, ReaderPopped, ReaderAsksFile, ReaderGotFile, ReadFile,
       StoreMetadata, StoreThumbnail, Store, Call, Return, dbVars, vars,
       allVars
  <2>2. CASE reader = "none"
    BY <2>2, GoneReaders DEF DispatchOpened
  <2>3. CASE reader # "none"
    BY <2>1, <2>3 DEF FrameIsOpen
  <2> QED BY <2>2, <2>3
<1> QED BY <1>5, <1>6, <1>7, <1>8, <1>9 DEF FrameIsOpen

(* What the reader gets from getFilename(), and until when.                *)
LEMMA FileStaysThere ==
  ASSUME ~FrameCloses, FileJob \notin MayFail, MRInv, FrameIsOpen,
         FileIsThere, [MRNext]_allVars
  PROVE  FileIsThere'
<1> USE DEF FileIsThere
<1>1. ReaderOK /\ MRTypeOK /\ Inv(Messages) /\ ~crashed
  BY DEF MRInv
<1>2. FileJob \in answered => reader = "filing"
  BY <1>1, ReaderRuns, Names DEF Taken
<1>3. CASE RunAsyncJob \/ RunPop
  <2>1. UNCHANGED <<file, reader, crashed>>
    BY <1>3 DEF RunAsyncJob, RunPop
  <2>2. FileJob \in answered' => FileJob \in answered
    BY <1>3, Names DEF RunAsyncJob, RunAsync, RunPop, RunBlocking
  <2> QED BY <1>1, <2>1, <2>2
<1>4. CASE RunFile
  <2>1. running = FileJob /\ FileJob \in BlockingJobs
    BY <1>4, Names DEF RunFile
  <2>2. reader = "filing"
    BY <1>1, <2>1, ReaderRuns DEF Taken
  <2>3. provider = "open" /\ guid \in Images
    BY <1>1, <2>2 DEF FrameIsOpen, ReaderOK
  <2>4. error'[FileJob] = "ok"
    <3>1. error \in [Jobs -> {"none", "ok", "failed", "misuse"}]
          /\ FileJob \in Jobs /\ FileJob \notin {OpenJob, CloseJob}
      BY <1>1, <2>1, JobsAssumption DEF Inv, DBTypeOK, Jobs
    <3> QED BY <1>4, <2>1, <2>3, <3>1 DEF RunFile, RunBlocking, Perform
  <2>5. guid # NoImage
    BY <2>3, ReaderAssumption
  <2> QED BY <1>1, <1>4, <2>2, <2>4, <2>5 DEF RunFile
<1>5. CASE ReaderNext
  <2>1. CASE ReaderTests \/ ReaderWakes
    BY <1>1, <2>1 DEF ReaderTests, ReaderWakes, ReaderVarsKept, vars, dbVars
  <2>2. CASE ReaderPops \/ StoreMetadata \/ StoreThumbnail
    <3>1. UNCHANGED <<answered, file, crashed>> /\ reader' # "read"
      BY <2>2 DEF ReaderPops, StoreMetadata, StoreThumbnail, Store, Call, vars,
         dbVars
    <3> QED BY <1>1, <3>1
  <2>3. CASE ReaderPopped
    <3>1. answered' \subseteq answered /\ reader = "popping"
          /\ reader' # "read" /\ crashed' = crashed
      BY <2>3 DEF ReaderPopped, Return
    <3> QED BY <1>1, <1>2, <3>1
  <2>4. CASE ReaderAsksFile
    <3>1. Call(Reader, FileJob) /\ reader' = "filing"
      BY <2>4 DEF ReaderAsksFile, FrameIsOpen
    <3> QED BY <1>1, <2>4, <3>1 DEF ReaderAsksFile, Call
  <2>5. CASE ReaderGotFile
    <3>1. cur[Reader] = FileJob /\ cur[Reader] \in answered
      BY <1>1, <2>5 DEF ReaderGotFile, Return, ReaderOK
    <3> QED BY <1>1, <2>5, <3>1 DEF ReaderGotFile
  <2>6. CASE ReadFile
    <3>1. reader = "read" /\ crashed' = ~file /\ reader' # "read"
          /\ UNCHANGED <<answered, file>>
      BY <2>6 DEF ReadFile, vars, dbVars
    <3> QED BY <1>1, <3>1
  <2> QED BY <1>5, <2>1, <2>2, <2>3, <2>4, <2>5, <2>6 DEF ReaderNext
<1>6. CASE ~(RunAsyncJob \/ RunPop \/ RunFile \/ ReaderNext)
  <2>1. UNCHANGED <<answered, file, crashed>>
    BY <1>6 DEF MRNext, OtherDatabaseStep, Wake, WorkerExits, QueueIsEmpty,
       RemoveJob, RunFinalize, Joined, AddJob, SignalWorker, ImageAdded,
       DispatchNext, DispatchAdded, DispatchChanged, DispatchOpened,
       DispatchPushed, DispatchDone, DispatchStored, DispatchShutdown,
       PutOffShutdown, BeginFinalize, PingAfterPush, StopReader, ReaderJoined,
       LoopStep, MainInput, MainInitiatesShutdown, MainHandlerReturns,
       MainChecksShutdown, MainLoopEnds, mrVars, vars, dbVars, allVars
  <2>2. reader' \in {reader, "test"}
    BY <1>6 DEF MRNext, OtherDatabaseStep, ImageAdded, DispatchNext,
       DispatchAdded, DispatchChanged, DispatchOpened, DispatchPushed,
       DispatchStored, DispatchShutdown, PingAfterPush, StopReader,
       ReaderJoined, LoopStep, mrVars, allVars
  <2> QED BY <1>1, <2>1, <2>2
<1> QED BY <1>3, <1>4, <1>5, <1>6

(* While the user leaves the frame open and getFilename() itself does not  *)
(* fail, the reader never reads without a file name, whatever other        *)
(* operation fails: an image it popped is one it can ask a file for.       *)
THEOREM ReaderHasFile ==
  ASSUME ~FrameCloses, FileJob \notin MayFail
  PROVE  MRSpec => []PoppedImageHasFile
<1>1. MRInit => FrameIsOpen /\ FileIsThere
  <2> SUFFICES ASSUME MRInit PROVE FrameIsOpen /\ FileIsThere
    OBVIOUS
  <2>1. /\ CloseJob # OpenJob /\ CloseJob # NoJob /\ OpenJob # FinalizeJob
        /\ OpenJob \in Jobs
    BY JobsAssumption DEF AllJobs, Jobs, AsyncJobs
  <2>2. ~InUse(CloseJob)
    BY <2>1, EmptyFacts DEF MRInit, Init, MQInit, InUse
  <2> QED BY <2>1, <2>2 DEF MRInit, Init, MQInit, FrameIsOpen, FileIsThere,
             Callers
<1>2. MRInv /\ FrameIsOpen /\ [MRNext]_allVars => FrameIsOpen'
  BY FrameStaysOpen
<1>3. MRInv /\ FrameIsOpen /\ FileIsThere /\ [MRNext]_allVars => FileIsThere'
  BY FileStaysThere
<1>4. FileIsThere => PoppedImageHasFile
  BY DEF FileIsThere, PoppedImageHasFile
<1> QED BY <1>1, <1>2, <1>3, <1>4, SpecMR, PTL DEF MRSpec
=============================================================================
