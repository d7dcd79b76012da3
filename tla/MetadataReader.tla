--------------------------- MODULE MetadataReader ---------------------------
(***************************************************************************)
(* The background thread that reads the metadata of every added image      *)
(* (src/kolobok/MetadataReader.cpp), composed with the Database it works   *)
(* on and the message loop they both listen to.                            *)
(*                                                                         *)
(* An "imageAdded" broadcast pushes the image on the METADATA stack of the *)
(* database and pings the reader.  The reader pops one image after the     *)
(* other with blocking jobs, reads its file, and stores what it found with *)
(* two asynchronous jobs.  On "shutdown" the dispatch thread first lets    *)
(* the Database, then the reader act: the Database was the first of the    *)
(* two to become a listener.                                               *)
(***************************************************************************)
EXTENDS Database

CONSTANTS
  Images,      \* the images that get added, each once
  NoImage,     \* a null guid
  PopJob,      \* the JobPopStackItem of the reader
  FileJob,     \* its JobGetFilename
  Unreadable,  \* images without readable metadata
  Thumbless,   \* images whose file has no thumbnail in it
  FrameCloses  \* whether the user closes the frame

VARIABLES
  stack,      \* the METADATA stack table, last pushed last
  added,      \* images whose imageAdded was posted
  reader,     \* where the reader thread is, "none" before it is created
  ping,       \* MetadataReader::job is set
  stop,       \* MetadataReader::shutdown
  guid,       \* the image the reader has popped
  file,       \* getFilename() gave it a file name
  after,      \* what the dispatch thread does once Database returns
  crashed     \* a null pointer was dereferenced: the process is gone

mrVars  == <<stack, added, reader, ping, stop, guid, file, after, crashed>>
allVars == <<vars, mrVars>>

Reader     == CHOOSE t \in Threads : TRUE
Push(g)    == <<"push", g>>
Meta(g)    == <<"metadata", g>>
Thumb(g)   == <<"thumbnail", g>>  \* or the push on THUMBNAIL in its place
Added(g)   == <<"imageAdded", g>>
Changed(g) == <<"imageChanged", g>>
Broadcasts == {Added(g) : g \in Images} \union {Changed(g) : g \in Images}

ASSUME ReaderAssumption ==
  /\ Threads = {Reader}
  /\ BlockingJobs = {PopJob, FileJob}
  /\ PopJob # FileJob
  /\ Requests = {Push(g) : g \in Images} \union {Meta(g) : g \in Images}
                  \union {Thumb(g) : g \in Images}
  /\ NoImage \notin Images
  /\ Unreadable \subseteq Images
  /\ Thumbless \subseteq Images
  /\ Broadcasts \intersect (AllJobs \union {NoJob, ShutdownMsg}) = {}

MRInit ==
  /\ Init
  /\ stack = <<>>
  /\ added = {}
  /\ reader = "none"
  /\ ping = FALSE
  /\ stop = FALSE
  /\ guid = NoImage
  /\ file = FALSE
  /\ after = "none"
  /\ crashed = FALSE
-----------------------------------------------------------------------------
(* The provider's part of the jobs: pushStackItem appends a row,           *)
(* popStackItem takes the newest one.                                      *)
RunAsyncJob ==
  /\ RunAsync
  /\ stack' = IF \E g \in Images : running = Push(g) /\ error'[running] = "ok"
              THEN Append(stack, running[2]) ELSE stack
  /\ UNCHANGED <<added, reader, ping, stop, guid, file, after, crashed>>

RunPop ==
  /\ RunBlocking
  /\ running = PopJob
  /\ IF error'[PopJob] = "ok" /\ stack # <<>>
     THEN /\ guid' = stack[Len(stack)]
          /\ stack' = SubSeq(stack, 1, Len(stack) - 1)
     ELSE guid' = NoImage /\ UNCHANGED stack
  /\ UNCHANGED <<added, reader, ping, stop, file, after, crashed>>

RunFile ==
  /\ RunBlocking
  /\ running = FileJob
  /\ file' = (error'[FileJob] = "ok" /\ guid # NoImage)
  /\ UNCHANGED <<stack, added, reader, ping, stop, guid, after, crashed>>

OtherDatabaseStep ==
  /\ \/ Wake \/ WorkerExits \/ QueueIsEmpty \/ RemoveJob \/ RunFinalize
     \/ Joined
     \/ \E t \in Callers : AddJob(t) \/ SignalWorker(t)
  /\ UNCHANGED mrVars
-----------------------------------------------------------------------------
(* The dispatch thread.                                                    *)

MainIdle == pc[Main] = "ready" /\ after = "none"

(* The handler of some message ends an import: addImageCallback posts      *)
(* "imageAdded".                                                           *)
ImageAdded(g) ==
  /\ loop = "handler" /\ MainIdle
  /\ current
  /\ g \notin added
  /\ added' = added \union {g}
  /\ Post(Added(g))
  /\ UNCHANGED <<loop, shutdown, shutdownDelay, quit, dbVars, stack, reader,
                 ping, stop, guid, file, after, crashed>>

(* eventReceived("imageAdded"): pushStackItem() and then ping().  A null   *)
(* peer makes pushStackItem() call back with an error at once.             *)
DispatchAdded ==
  /\ GetMessage
  /\ \E g \in Images :
       /\ Head(posted) = Added(g)
       /\ IF peer
          THEN /\ pc' = [pc EXCEPT ![Main] = "add"]
               /\ cur' = [cur EXCEPT ![Main] = Push(g)]
               /\ error' = [error EXCEPT ![Push(g)] = "none"]
          ELSE UNCHANGED <<pc, cur, error>>
  /\ after' = "ping"
  /\ UNCHANGED <<shutdown, shutdownDelay, quit, queue, job, peer, worker,
                 running, provider, answered, current, stack, added, reader,
                 ping, stop, guid, file, crashed>>

PingAfterPush ==
  /\ after = "ping" /\ pc[Main] = "ready"
  /\ ping' = TRUE
  /\ after' = "none"
  /\ UNCHANGED <<vars, stack, added, reader, stop, guid, file, crashed>>

DispatchChanged ==
  /\ GetMessage
  /\ \E g \in Images : Head(posted) = Changed(g)
  /\ UNCHANGED <<shutdown, shutdownDelay, quit, dbVars, mrVars>>

(* newDatabaseCallback: setDatabase() creates the reader and its thread.   *)
DispatchOpened ==
  /\ DispatchDone
  /\ Head(posted) = OpenJob
  /\ reader' = IF current' THEN "test" ELSE reader
  /\ UNCHANGED <<stack, added, ping, stop, guid, file, after, crashed>>

(* pushMetadataItemCallback: ping() if the push succeeded.                 *)
DispatchPushed ==
  /\ DispatchDone
  /\ \E g \in Images : Head(posted) = Push(g)
  /\ ping' = (ping \/ error[Head(posted)] = "ok")
  /\ UNCHANGED <<stack, added, reader, stop, guid, file, after, crashed>>

(* updateMetadataCallback and updateThumbnailCallback broadcast a success, *)
(* pushThumbnailItemCallback does not.                                     *)
DispatchStored ==
  /\ loop = "get"
  /\ posted # <<>>
  /\ \E g \in Images :
       /\ Head(posted) \in {Meta(g), Thumb(g)}
       /\ posted' = IF /\ error[Head(posted)] = "ok"
                       /\ Head(posted) = Thumb(g) => g \notin Thumbless
                    THEN Append(Tail(posted), Changed(g)) ELSE Tail(posted)
  /\ loop' = "handler"
  /\ UNCHANGED <<shutdown, shutdownDelay, quit, dbVars, mrVars>>

(* The broadcast "shutdown" reaches the Database and then, if there is     *)
(* one, the reader.                                                        *)
DispatchShutdown ==
  /\ PutOffShutdown \/ BeginFinalize
  /\ after' = IF reader = "none" THEN "none" ELSE "stop"
  /\ UNCHANGED <<stack, added, reader, ping, stop, guid, file, crashed>>

(* eventReceived("shutdown"): shutdown = true, ping(), wait for the peer.  *)
StopReader ==
  /\ after = "stop" /\ pc[Main] = "ready"
  /\ stop' = TRUE
  /\ ping' = TRUE
  /\ after' = "join"
  /\ UNCHANGED <<vars, stack, added, reader, guid, file, crashed>>

(* Mutant: the dispatch thread does not wait for the reader.               *)
ReaderJoined_NoWait ==
  /\ after = "join"
  /\ after' = "none"
  /\ UNCHANGED <<vars, stack, added, reader, ping, stop, guid, file, crashed>>

ReaderJoined ==
  /\ after = "join"
  /\ reader = "exited"
  /\ after' = "none"
  /\ UNCHANGED <<vars, stack, added, reader, ping, stop, guid, file, crashed>>

LoopStep ==
  /\ \/ MainInput
     \/ FrameCloses /\ after = "none" /\ MainInitiatesShutdown
     \/ after = "none" /\ MainHandlerReturns
     \/ MainChecksShutdown
     \/ MainLoopEnds
  /\ UNCHANGED mrVars
-----------------------------------------------------------------------------
(* The reader thread.                                                      *)

ReaderVarsKept == UNCHANGED <<stack, added, ping, stop, after>>

(* Mutant: the event is reset before the wait.                             *)
ReaderTests_Resets ==
  /\ reader = "test"
  /\ reader' = IF stop THEN "exited" ELSE "wait"
  /\ ping' = stop
  /\ UNCHANGED <<vars, stack, added, stop, guid, file, after, crashed>>

(* while (!shutdown && WaitForSingleObject(job) ...)                       *)
ReaderTests ==
  /\ reader = "test"
  /\ reader' = IF stop THEN "exited" ELSE "wait"
  /\ ReaderVarsKept /\ UNCHANGED <<vars, guid, file, crashed>>

ReaderWakes ==
  /\ reader = "wait"
  /\ ping
  /\ ping' = FALSE
  /\ reader' = "pop"
  /\ UNCHANGED <<vars, stack, added, stop, guid, file, after, crashed>>

(* A blocking call on the database answers an error at once without peer.  *)
ReaderPops ==
  /\ reader = "pop" /\ pc[Reader] = "ready"
  /\ IF ~stop /\ peer
     THEN Call(Reader, PopJob) /\ reader' = "popping"
     ELSE reader' = "test" /\ UNCHANGED vars
  /\ ReaderVarsKept /\ UNCHANGED <<guid, file, crashed>>

(* Mutant: the loop goes on without a guid.                                *)
ReaderPopped_NoGuidTest ==
  /\ reader = "popping"
  /\ Return(Reader)
  /\ reader' = IF error[PopJob] = "ok" THEN "file" ELSE "test"
  /\ file' = FALSE
  /\ ReaderVarsKept /\ UNCHANGED <<guid, crashed>>

ReaderPopped ==
  /\ reader = "popping"
  /\ Return(Reader)
  /\ reader' = IF error[PopJob] = "ok" /\ guid # NoImage
               THEN "file" ELSE "test"
  /\ file' = FALSE
  /\ ReaderVarsKept /\ UNCHANGED <<guid, crashed>>

ReaderAsksFile ==
  /\ reader = "file"
  /\ IF peer
     THEN Call(Reader, FileJob) /\ reader' = "filing"
     ELSE reader' = "read" /\ UNCHANGED vars
  /\ ReaderVarsKept /\ UNCHANGED <<guid, file, crashed>>

ReaderGotFile ==
  /\ reader = "filing"
  /\ Return(Reader)
  /\ reader' = "read"
  /\ ReaderVarsKept /\ UNCHANGED <<guid, file, crashed>>

(* er.read() on the file, whatever getFilename() returned.                 *)
ReadFile ==
  /\ reader = "read"
  /\ crashed' = ~file
  /\ reader' = IF guid \in Unreadable THEN "pop" ELSE "metadata"
  /\ ReaderVarsKept /\ UNCHANGED <<vars, guid, file>>

Store(j, at, next) ==
  /\ reader = at /\ pc[Reader] = "ready"
  /\ IF peer THEN Call(Reader, j) ELSE UNCHANGED vars
  /\ reader' = next
  /\ ReaderVarsKept /\ UNCHANGED <<guid, file, crashed>>

StoreMetadata  == Store(Meta(guid), "metadata", "thumbnail")
StoreThumbnail == Store(Thumb(guid), "thumbnail", "pop")

ReaderNext ==
  \/ ReaderTests
  \/ ReaderWakes
  \/ ReaderPops
  \/ ReaderPopped
  \/ ReaderAsksFile
  \/ ReaderGotFile
  \/ ReadFile
  \/ StoreMetadata
  \/ StoreThumbnail

DispatchNext ==
  \/ DispatchAdded
  \/ DispatchChanged
  \/ DispatchOpened
  \/ DispatchPushed
  \/ DispatchStored
  \/ DispatchShutdown

MRNext ==
  \/ /\ ~crashed
     /\ \/ RunAsyncJob
        \/ RunPop
        \/ RunFile
        \/ OtherDatabaseStep
        \/ \E g \in Images : ImageAdded(g)
        \/ DispatchNext
        \/ PingAfterPush
        \/ StopReader
        \/ ReaderJoined
        \/ LoopStep
        \/ ReaderNext
  \/ (loop = "exited" \/ crashed) /\ UNCHANGED allVars

MRSpec == MRInit /\ [][MRNext]_allVars

(* As in Database: threads are scheduled, messages are handed out in order *)
(* and handlers return.                                                    *)
MRFairness ==
  /\ WF_allVars(~crashed /\ (RunAsyncJob \/ RunPop \/ RunFile))
  /\ WF_allVars(~crashed /\ OtherDatabaseStep)
  /\ WF_allVars(~crashed /\ ReaderNext)
  /\ WF_allVars(~crashed /\ (PingAfterPush \/ StopReader \/ ReaderJoined))
  /\ WF_allVars(~crashed /\ (MainChecksShutdown \/ MainLoopEnds)
                         /\ UNCHANGED mrVars)
  /\ SF_allVars(~crashed /\ DispatchNext)
  /\ SF_allVars(~crashed /\ after = "none" /\ MainHandlerReturns
                         /\ UNCHANGED mrVars)

MRFairSpec == MRSpec /\ MRFairness
-----------------------------------------------------------------------------
MRTypeOK ==
  /\ stack \in Seq(Images)
  /\ added \subseteq Images
  /\ reader \in {"none", "test", "wait", "pop", "popping", "file", "filing",
                 "read", "metadata", "thumbnail", "exited"}
  /\ ping \in BOOLEAN /\ stop \in BOOLEAN
  /\ guid \in Images \union {NoImage}
  /\ file \in BOOLEAN /\ crashed \in BOOLEAN
  /\ after \in {"none", "ping", "stop", "join"}

(* While the frame is open and no provider call fails, the metadata and    *)
(* the thumbnail of every added readable image get stored (or the image is *)
(* put on the stack of images without a thumbnail): no ping is lost        *)
(* although one is sent before the push it announces was run.              *)
EveryImageIsStored ==
  \A g \in Images \ Unreadable :
    (g \in added) ~> (error[Meta(g)] = "ok" /\ error[Thumb(g)] = "ok")

(* When the message loop has ended, and Application is about to delete the *)
(* database, the reader is in none of its methods.                         *)
DatabaseUnusedAtExit ==
  loop = "exited" => pc[Reader] = "ready"

(* While the frame is open the reader never dereferences a null file name: *)
(* every image it takes from the stack is one the database has a file for. *)
PoppedImageHasFile == ~crashed

(* When the reader has been stopped before finalize() runs, finalize()     *)
(* leaves no job in the list; only a reader still at work can add one      *)
(* behind JobFinalize.                                                     *)
StoppedReaderLeavesNoJob ==
  [][(peer /\ ~peer' /\ reader \in {"none", "exited"}) => queue' = <<>>]_allVars

(* Database.cpp: finalizing "ensures that 'done' notification from last    *)
(* job will get posted and dispatched".                                    *)
LastJobIsRun ==
  ~peer => Elems(queue) \intersect AsyncJobs = {}

(* messageLoop(): "Make sure any pending messages get dispatched".         *)
PendingGetDispatched ==
  \A m \in AsyncJobs : (m \in Elems(posted)) ~> (m \notin Elems(posted) \/ crashed)
=============================================================================
