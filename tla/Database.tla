------------------------------ MODULE Database ------------------------------
(***************************************************************************)
(* kolobok's Database object (src/kolobok/Database.cpp): every operation   *)
(* is a job that one worker thread runs on the data provider.  Most jobs   *)
(* answer through a callback on the dispatch thread; the blocking ones     *)
(* answer by an event the calling background thread waits for.  The object *)
(* listens for the "shutdown" broadcast and then finalizes its worker.     *)
(*                                                                         *)
(* The state starts inside Database::open, which has created the worker    *)
(* and is about to add the JobOpen.  What an operation does to the data is *)
(* the subject of SQLiteProvider; here a job either succeeds or fails.     *)
(***************************************************************************)
EXTENDS MessageQueue, FiniteSets

CONSTANTS
  Main,          \* the dispatch thread
  Threads,       \* background threads that use the database
  Requests,      \* asynchronous jobs: add, get, updateMetadata, ...
  BlockingJobs,  \* getFilename and popStackItem jobs
  OpenJob,       \* the JobOpen of Database::open
  CloseJob,      \* the JobClose of Database::close
  FinalizeJob,   \* the JobFinalize of Database::finalize
  NoJob,         \* null
  MayFail        \* jobs whose provider call can return an error

Callers   == Threads \union {Main}
AsyncJobs == Requests \union {OpenJob, CloseJob}
Jobs      == AsyncJobs \union BlockingJobs
AllJobs   == Jobs \union {FinalizeJob}

ASSUME ThreadsAssumption == Main \notin Threads
ASSUME FailAssumption == MayFail \subseteq AllJobs \ {CloseJob}
ASSUME JobsAssumption ==
  /\ Requests \intersect BlockingJobs = {}
  /\ OpenJob \notin Requests \union BlockingJobs
  /\ CloseJob \notin Requests \union BlockingJobs \union {OpenJob}
  /\ FinalizeJob \notin Jobs
  /\ NoJob \notin AllJobs
  /\ ShutdownMsg \notin AllJobs \union {NoJob}

VARIABLES
  queue,     \* the job list from head on, in the order it is run
  job,       \* the event of Database::job: "clear", "set" or "closed"
  peer,      \* Database::peer # null
  worker,    \* where the worker thread is
  running,   \* the job the worker has removed and not finished
  provider,  \* the data provider: "closed" or "open"
  error,     \* the error field of each job, "none" before it has run
  answered,  \* blocking jobs whose event is set
  pc,        \* where each caller is in Database's methods
  cur,       \* the job the caller's method still points to
  current    \* the application has made this its current database

dbVars == <<queue, job, peer, worker, running, provider, error, answered,
            pc, cur, current>>
vars   == <<mqVars, dbVars>>

Elems(s) == {s[i] : i \in DOMAIN s}
Distinct(s) == \A i, k \in DOMAIN s : s[i] = s[k] => i = k

(* Memory that operator new can return for a job: nobody points to it.     *)
Free(j) ==
  /\ j \notin Elems(queue) \union Elems(posted) \union {running}
  /\ \A t \in Callers : cur[t] # j

Init ==
  /\ MQInit
  /\ queue = <<>>
  /\ job = "clear"
  /\ peer = TRUE
  /\ worker = "wait"
  /\ running = NoJob
  /\ provider = "closed"
  /\ error = [j \in Jobs |-> "none"]
  /\ answered = {}
  /\ pc = [t \in Callers |-> IF t = Main THEN "add" ELSE "ready"]
  /\ cur = [t \in Callers |-> IF t = Main THEN OpenJob ELSE NoJob]
  /\ current = FALSE
-----------------------------------------------------------------------------
(* Callers.                                                                *)

(* The dispatch thread calls the database only from a handler.             *)
MayRun(t) == t = Main => loop = "handler"

(* A public method with peer # null: it allocates its job.  The blocking   *)
(* ones assert that they are not called by the dispatch thread.  With      *)
(* peer = null a method answers SQLITE_ERROR at once and changes nothing.  *)
Call(t, j) ==
  /\ current
  /\ pc[t] = "ready"
  /\ MayRun(t)
  /\ peer
  /\ Free(j)
  /\ j \in IF t = Main THEN Requests \union {CloseJob}
                       ELSE Requests \union BlockingJobs
  /\ pc' = [pc EXCEPT ![t] = "add"]
  /\ cur' = [cur EXCEPT ![t] = j]
  /\ error' = [error EXCEPT ![j] = "none"]
  /\ UNCHANGED <<mqVars, queue, job, peer, worker, running, provider,
                 answered, current>>

(* Mutant: the job is linked in at the head of the list.                   *)
AddJob_AtHead(t) ==
  /\ pc[t] = "add"
  /\ queue' = <<cur[t]>> \o queue
  /\ pc' = [pc EXCEPT ![t] = "signal"]
  /\ cur' = [cur EXCEPT ![t] = IF @ \in AsyncJobs THEN NoJob ELSE @]
  /\ UNCHANGED <<mqVars, job, peer, worker, running, provider, error,
                 answered, current>>

(* addJob() inside its critical section.  Only a blocking caller and       *)
(* finalize() look at their job again.                                     *)
AddJob(t) ==
  /\ pc[t] = "add"
  /\ queue' = Append(queue, cur[t])
  /\ pc' = [pc EXCEPT ![t] = "signal"]
  /\ cur' = [cur EXCEPT ![t] = IF @ \in AsyncJobs THEN NoJob ELSE @]
  /\ UNCHANGED <<mqVars, job, peer, worker, running, provider, error,
                 answered, current>>

(* Mutant: addJob() does not set the event.                                *)
SignalWorker_NoEvent(t) ==
  /\ pc[t] = "signal"
  /\ pc' = [pc EXCEPT ![t] = IF cur[t] = NoJob THEN "ready"
                             ELSE IF cur[t] = FinalizeJob THEN "join"
                             ELSE "await"]
  /\ UNCHANGED <<mqVars, queue, job, peer, worker, running, provider, error,
                 answered, cur, current>>

(* SetEvent(job) at the end of addJob(); a closed handle is left alone.    *)
SignalWorker(t) ==
  /\ pc[t] = "signal"
  /\ job' = IF job = "closed" THEN job ELSE "set"
  /\ pc' = [pc EXCEPT ![t] = IF cur[t] = NoJob THEN "ready"
                             ELSE IF cur[t] = FinalizeJob THEN "join"
                             ELSE "await"]
  /\ UNCHANGED <<mqVars, queue, peer, worker, running, provider, error,
                 answered, cur, current>>

(* addJobAndWait(): the event of the job is set, its result is returned    *)
(* and the job deleted.                                                    *)
Return(t) ==
  /\ pc[t] = "await"
  /\ cur[t] \in answered
  /\ answered' = answered \ {cur[t]}
  /\ cur' = [cur EXCEPT ![t] = NoJob]
  /\ pc' = [pc EXCEPT ![t] = "ready"]
  /\ UNCHANGED <<mqVars, queue, job, peer, worker, running, provider, error,
                 current>>

(* Mutant: finalize() does not wait for the worker.                        *)
Joined_NoWait ==
  /\ pc[Main] = "join"
  /\ peer' = FALSE
  /\ cur' = [cur EXCEPT ![Main] = NoJob]
  /\ pc' = [pc EXCEPT ![Main] = "ready"]
  /\ UNCHANGED <<mqVars, queue, job, worker, running, provider, error,
                 answered, current>>

(* finalize(): the worker thread has ended.                                *)
Joined ==
  /\ pc[Main] = "join"
  /\ worker = "exited"
  /\ peer' = FALSE
  /\ cur' = [cur EXCEPT ![Main] = NoJob]
  /\ pc' = [pc EXCEPT ![Main] = "ready"]
  /\ UNCHANGED <<mqVars, queue, job, worker, running, provider, error,
                 answered, current>>
-----------------------------------------------------------------------------
(* The worker thread.                                                      *)

(* WaitForSingleObject(job) returns WAIT_OBJECT_0 and resets the event.    *)
Wake ==
  /\ worker = "wait"
  /\ job = "set"
  /\ job' = "clear"
  /\ worker' = "loop"
  /\ UNCHANGED <<mqVars, queue, peer, running, provider, error, answered,
                 pc, cur, current>>

(* The handle has been closed by JobFinalize: the wait fails.              *)
WorkerExits ==
  /\ worker = "wait"
  /\ job = "closed"
  /\ worker' = "exited"
  /\ UNCHANGED <<mqVars, queue, job, peer, running, provider, error,
                 answered, pc, cur, current>>

(* Mutant: "if" instead of "while (db->head != null)".                     *)
QueueIsEmpty_NoLoop ==
  /\ worker = "loop"
  /\ worker' = "wait"
  /\ UNCHANGED <<mqVars, queue, job, peer, running, provider, error,
                 answered, pc, cur, current>>

(* The inner loop finds head = null.                                       *)
QueueIsEmpty ==
  /\ worker = "loop"
  /\ queue = <<>>
  /\ worker' = "wait"
  /\ UNCHANGED <<mqVars, queue, job, peer, running, provider, error,
                 answered, pc, cur, current>>

(* Mutant: removeJob() returns the head without unlinking it.              *)
RemoveJob_NoUnlink ==
  /\ worker = "loop"
  /\ queue # <<>>
  /\ running' = Head(queue)
  /\ worker' = "run"
  /\ UNCHANGED <<mqVars, queue, job, peer, provider, error, answered, pc,
                 cur, current>>

(* removeJob() inside its critical section.                                *)
RemoveJob ==
  /\ worker = "loop"
  /\ queue # <<>>
  /\ running' = Head(queue)
  /\ queue' = Tail(queue)
  /\ worker' = "run"
  /\ UNCHANGED <<mqVars, job, peer, provider, error, answered, pc, cur,
                 current>>

(* The provider call of job j.  An operation on a closed provider is       *)
(* SQLITE_MISUSE.                                                          *)
Perform(j) ==
  \E e \in IF j \in {OpenJob, CloseJob} \/ provider = "open"
           THEN {"ok"} \union (IF j \in MayFail THEN {"failed"} ELSE {})
           ELSE {"misuse"} :
    /\ error' = [error EXCEPT ![j] = e]
    /\ provider' = IF j = OpenJob /\ e = "ok" THEN "open"
                   ELSE IF j = CloseJob THEN "closed"
                   ELSE provider

(* Mutant: run() posts the job without calling the provider.               *)
RunAsync_NoResult ==
  /\ worker = "run"
  /\ running \in AsyncJobs
  /\ Post(running)
  /\ running' = NoJob
  /\ worker' = "loop"
  /\ UNCHANGED <<loop, shutdown, shutdownDelay, quit, queue, job, peer,
                 provider, error, answered, pc, cur, current>>

(* run() of an asynchronous job ends with invokeLater(_dispatch).          *)
RunAsync ==
  /\ worker = "run"
  /\ running \in AsyncJobs
  /\ Perform(running)
  /\ Post(running)
  /\ running' = NoJob
  /\ worker' = "loop"
  /\ UNCHANGED <<loop, shutdown, shutdownDelay, quit, queue, job, peer,
                 answered, pc, cur, current>>

(* Mutant: run() forgets dispatch(), which sets the event.                 *)
RunBlocking_NoEvent ==
  /\ worker = "run"
  /\ running \in BlockingJobs
  /\ Perform(running)
  /\ running' = NoJob
  /\ worker' = "loop"
  /\ UNCHANGED <<mqVars, queue, job, peer, answered, pc, cur, current>>

(* run() of a blocking job ends with SetEvent(event).                      *)
RunBlocking ==
  /\ worker = "run"
  /\ running \in BlockingJobs
  /\ Perform(running)
  /\ answered' = answered \union {running}
  /\ running' = NoJob
  /\ worker' = "loop"
  /\ UNCHANGED <<mqVars, queue, job, peer, pc, cur, current>>

(* JobFinalize closes the provider and the event, and posts nothing.       *)
RunFinalize ==
  /\ worker = "run"
  /\ running = FinalizeJob
  /\ provider' = "closed"
  /\ job' = "closed"
  /\ running' = NoJob
  /\ worker' = "loop"
  /\ UNCHANGED <<mqVars, queue, peer, error, answered, pc, cur, current>>
-----------------------------------------------------------------------------
(* The dispatch thread.                                                    *)

(* _dispatch() calls done and deletes the job.  The done of JobOpen makes  *)
(* the database current unless the open failed.  The handler goes on as    *)
(* the callback does: it may call the database again.                      *)
DispatchDone ==
  /\ GetMessage
  /\ Head(posted) \in AsyncJobs
  /\ current' = (current \/ (Head(posted) = OpenJob /\ error[OpenJob] = "ok"))
  /\ UNCHANGED <<shutdown, shutdownDelay, quit, queue, job, peer, worker,
                 running, provider, error, answered, pc, cur>>

(* eventReceived("shutdown") with jobs in the queue.                       *)
PutOffShutdown ==
  /\ GetMessage
  /\ Head(posted) = ShutdownMsg
  /\ queue # <<>>
  /\ DelayShutdown(20)
  /\ UNCHANGED <<shutdown, quit, dbVars>>

(* eventReceived("shutdown") with an empty queue: finalize() adds its job, *)
(* once.                                                                   *)
BeginFinalize ==
  /\ GetMessage
  /\ Head(posted) = ShutdownMsg
  /\ queue = <<>>
  /\ IF peer
     THEN /\ pc' = [pc EXCEPT ![Main] = "add"]
          /\ cur' = [cur EXCEPT ![Main] = FinalizeJob]
     ELSE UNCHANGED <<pc, cur>>
  /\ UNCHANGED <<shutdown, shutdownDelay, quit, queue, job, peer, worker,
                 running, provider, error, answered, current>>

(* The other steps of the dispatch thread.                                 *)
MainInput == Input /\ UNCHANGED dbVars

MainInitiatesShutdown ==
  InitiateShutdown /\ pc[Main] = "ready" /\ UNCHANGED dbVars

MainHandlerReturns ==
  HandlerReturns /\ pc[Main] = "ready" /\ UNCHANGED dbVars

MainChecksShutdown == CheckShutdown /\ UNCHANGED dbVars

MainLoopEnds == LoopEnds /\ UNCHANGED dbVars

(* The message loop has ended; nothing more is asked of the system.        *)
Done == loop = "exited" /\ UNCHANGED vars

CallerNext(t) ==
  \/ \E j \in Jobs : Call(t, j)
  \/ AddJob(t)
  \/ SignalWorker(t)
  \/ Return(t)

WorkerNext ==
  \/ Wake
  \/ WorkerExits
  \/ QueueIsEmpty
  \/ RemoveJob
  \/ RunAsync
  \/ RunBlocking
  \/ RunFinalize

MainNext ==
  \/ DispatchDone
  \/ PutOffShutdown
  \/ BeginFinalize
  \/ Joined
  \/ MainInput
  \/ MainInitiatesShutdown
  \/ MainHandlerReturns
  \/ MainChecksShutdown
  \/ MainLoopEnds

Next ==
  \/ \E t \in Callers : CallerNext(t)
  \/ WorkerNext
  \/ MainNext
  \/ Done

(* Threads are scheduled.  GetMessage hands out posted messages in order   *)
(* and before input, and every handler returns: dispatching and returning  *)
(* cannot be put off forever by other steps.                               *)
Fairness ==
  /\ \A t \in Callers : WF_vars(AddJob(t)) /\ WF_vars(SignalWorker(t))
                         /\ WF_vars(Return(t))
  /\ WF_vars(WorkerNext)
  /\ WF_vars(Joined) /\ WF_vars(MainChecksShutdown) /\ WF_vars(MainLoopEnds)
  /\ SF_vars(DispatchDone \/ PutOffShutdown \/ BeginFinalize)
  /\ SF_vars(MainHandlerReturns)

Spec     == Init /\ [][Next]_vars
FairSpec == Spec /\ Fairness
-----------------------------------------------------------------------------
(* Msg is what can be in the message queue: other components that share it *)
(* broadcast messages that the database does not listen to.                *)
DBTypeOK(Msg) ==
  /\ MQTypeOK(Msg)
  /\ queue \in Seq(AllJobs)
  /\ job \in {"clear", "set", "closed"}
  /\ peer \in BOOLEAN
  /\ worker \in {"wait", "loop", "run", "exited"}
  /\ running \in AllJobs \union {NoJob}
  /\ provider \in {"closed", "open"}
  /\ error \in [Jobs -> {"none", "ok", "failed", "misuse"}]
  /\ answered \subseteq BlockingJobs
  /\ pc \in [Callers -> {"ready", "add", "signal", "await", "join"}]
  /\ cur \in [Callers -> AllJobs \union {NoJob}]
  /\ current \in BOOLEAN

TypeOK == DBTypeOK(AsyncJobs \union {ShutdownMsg})

(* No lost wake-up.  addJob() appends and only then sets the event, the    *)
(* event remembers one SetEvent, and the worker looks at head before it    *)
(* waits: it never sleeps on an unset event while a job is queued, unless  *)
(* the caller that queued it is just about to set the event.               *)
NoLostWakeup ==
  (worker = "wait" /\ job = "clear" /\ queue # <<>>)
    => \E t \in Callers : pc[t] = "signal"

(* A job object is in one place: the worker runs and deletes, or posts,    *)
(* what it took out of the list; a done callback deletes what it took out  *)
(* of the message queue.  If one job were in two of these places, or twice *)
(* in one, its second holder would use freed memory.                       *)
OnePlace ==
  /\ Distinct(queue) /\ Distinct(posted)
  /\ Elems(queue) \intersect (Elems(posted) \union answered) = {}
  /\ running \notin Elems(queue) \union Elems(posted) \union answered
  /\ \A t \in Callers : pc[t] = "add" =>
        cur[t] \notin Elems(queue) \union Elems(posted) \union answered
                      \union {running}

(* A caller blocked in addJobAndWait() still has its job: nobody else      *)
(* deleted it, and it waits in the list, is being run, or is answered.     *)
BlockedJobIsHeld ==
  \A t \in Callers : pc[t] = "await" =>
    cur[t] \in Elems(queue) \union {running} \union answered

(* What reaches a done callback or a blocked caller is the result of a     *)
(* run: no answer is delivered before the provider call was made.          *)
AnswersAreResults ==
  \A j \in (Elems(posted) \intersect Jobs) \union answered : error[j] # "none"

(* finalize() returns only after every queued job has been run: no job is  *)
(* left in the list and nothing uses the closed provider any more.  It is  *)
(* what the comment in eventReceived() relies on.                          *)
FinalizedIsDrained ==
  ~peer => /\ queue = <<>>
           /\ running = NoJob
           /\ worker = "exited"
           /\ provider = "closed"

(* The application quits with nothing left behind: every job was run and   *)
(* every done callback dispatched.                                         *)
QuitLeavesNothing ==
  loop = "exited" => queue = <<>> /\ running = NoJob /\ posted = <<>>

(* If the components eventually stop asking for more, the shutdown the     *)
(* closing frame initiates ends the message loop, however often it was put *)
(* off.                                                                    *)
ShutdownEnds ==
  <>[][\A t \in Callers, j \in Jobs : ~Call(t, j)]_vars
    => (shutdown ~> loop = "exited")
-----------------------------------------------------------------------------
(* The job list, the worker and the message queue implement JobService.    *)
Service == INSTANCE JobService
  WITH Async      <- AsyncJobs,
       Blocking   <- BlockingJobs,
       Stop       <- FinalizeJob,
       Notice     <- ShutdownMsg,
       pending    <- IF running = NoJob THEN queue ELSE <<running>> \o queue,
       delivering <- posted,
       answers    <- answered

(* Jobs are run in the order they were added, one at a time, each once, and*)
(* their done callbacks come in that order, each once.                     *)
ServiceOrder == Service!SafeSpec

(* Besides, every job that was added is run and its callback dispatched,   *)
(* a shutdown notwithstanding.                                             *)
ServicePromise == Service!Spec
=============================================================================
