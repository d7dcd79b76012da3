-------------------------- MODULE Database_proofs --------------------------
(***************************************************************************)
(* Theorems about Database, for every set of background threads and of     *)
(* jobs: types, wake-ups, the ownership of jobs, the order of service, and *)
(* (when only the dispatch thread calls the database) a drained shutdown.  *)
(***************************************************************************)
EXTENDS Database, TLAPS

(* What a caller's program counter says about the job it points to.        *)
CallerOK ==
  \A t \in Callers :
    /\ pc[t] = "ready"  => cur[t] = NoJob
    /\ pc[t] = "add"    => cur[t] \in AllJobs
    /\ pc[t] = "signal" => cur[t] \in BlockingJobs \union {FinalizeJob, NoJob}
    /\ pc[t] = "await"  => cur[t] \in BlockingJobs
    /\ pc[t] = "join"   => cur[t] = FinalizeJob
    /\ cur[t] = FinalizeJob => t = Main /\ pc[t] \in {"add", "signal", "join"}

(* The dispatch thread is in a method only while it runs a handler.        *)
MainOK == (loop # "handler" \/ ~peer) => pc[Main] = "ready"

(* No two callers point to the same job.                                   *)
OneHolder ==
  \A t, u \in Callers : cur[t] = cur[u] => t = u \/ cur[t] = NoJob

(* A blocking job that was added has a caller that will take its answer,   *)
(* and that caller's job has not been lost.                                *)
Taken == Elems(queue) \union {running} \union answered

BlockingHeld ==
  /\ \A j \in Taken \intersect BlockingJobs :
        \E t \in Callers : cur[t] = j /\ pc[t] \in {"signal", "await"}
  /\ \A t \in Callers :
        pc[t] \in {"signal", "await"} /\ cur[t] \in BlockingJobs
          => cur[t] \in Taken

WorkerOK == /\ worker = "run" <=> running # NoJob
            /\ worker = "exited" => job = "closed"

(* The one finalize job: not yet added, in the list or being run, or done. *)
FinalizeOnce ==
  /\ FinalizeJob \in Elems(queue) \union {running}
       => cur[Main] = FinalizeJob /\ pc[Main] # "add" /\ job # "closed"
  /\ job = "closed" /\ peer => cur[Main] = FinalizeJob /\ pc[Main] # "add"
  /\ ~peer => job = "closed"

(* "shutdown" is posted by the one initiateShutdown(), and again only when *)
(* it was received and put off.                                            *)
ShutdownOnce ==
  /\ ShutdownMsg \in Elems(posted) => shutdown /\ shutdownDelay = 0
  /\ ~shutdown => shutdownDelay = 0

(* The message queue is shared: besides the database's own messages it may *)
(* hold others, which are none of its jobs.  The steps are proved to keep  *)
(* the invariant whatever these are.                                       *)
DBMessages == AsyncJobs \union {ShutdownMsg}

(* OnePlace for such a queue: the messages of others may be there twice.   *)
Once(s) ==
  \A i, k \in DOMAIN s : s[i] = s[k] /\ s[i] \in DBMessages => i = k

Places ==
  /\ Distinct(queue) /\ Once(posted)
  /\ Elems(queue) \intersect (Elems(posted) \union answered) = {}
  /\ running \notin Elems(queue) \union Elems(posted) \union answered
  /\ \A t \in Callers : pc[t] = "add" =>
        cur[t] \notin Elems(queue) \union Elems(posted) \union answered
                      \union {running}

Inv(Msg) ==
  /\ DBTypeOK(Msg)
  /\ CallerOK
  /\ MainOK
  /\ OneHolder
  /\ BlockingHeld
  /\ WorkerOK
  /\ FinalizeOnce
  /\ ShutdownOnce
  /\ Places
  /\ AnswersAreResults
  /\ NoLostWakeup

MessagesOK(Msg) ==
  /\ DBMessages \subseteq Msg
  /\ Msg \intersect (BlockingJobs \union {FinalizeJob, NoJob}) = {}
-----------------------------------------------------------------------------
(* Facts about lists.                                                      *)
(* Appending puts one member in, and a new one leaves no member twice.     *)
LEMMA AppendFacts ==
  ASSUME NEW S, NEW s \in Seq(S), NEW x \in S
  PROVE  /\ Append(s, x) \in Seq(S)
         /\ Elems(Append(s, x)) = Elems(s) \union {x}
         /\ Append(s, x) # <<>>
         /\ Distinct(s) /\ x \notin Elems(s) => Distinct(Append(s, x))
         /\ Once(s) /\ x \notin Elems(s) => Once(Append(s, x))
<1> DEFINE n == Len(s)
<1>1. /\ Append(s, x) \in Seq(S)
      /\ DOMAIN s = 1..n /\ DOMAIN Append(s, x) = 1..(n + 1) /\ n \in Nat
      /\ \A i \in 1..n : Append(s, x)[i] = s[i]
      /\ Append(s, x)[n + 1] = x
  OBVIOUS
<1>2. Elems(Append(s, x)) = Elems(s) \union {x}
  <2>1. 1..(n + 1) = 1..n \union {n + 1}
    BY <1>1
  <2> HIDE DEF n
  <2> QED BY <1>1, <2>1 DEF Elems
<1>3. Distinct(s) /\ x \notin Elems(s) => Distinct(Append(s, x))
  BY <1>1 DEF Elems, Distinct
<1>4. Once(s) /\ x \notin Elems(s) => Once(Append(s, x))
  BY <1>1 DEF Elems, Once
<1> QED BY <1>1, <1>2, <1>3, <1>4

(* Removing the head takes that member out, for good if no member was      *)
(* there twice.                                                            *)
LEMMA TailFacts ==
  ASSUME NEW S, NEW s \in Seq(S), s # <<>>
  PROVE  /\ Head(s) \in S /\ Tail(s) \in Seq(S)
         /\ Elems(s) = {Head(s)} \union Elems(Tail(s))
         /\ Distinct(s) => Distinct(Tail(s)) /\ Head(s) \notin Elems(Tail(s))
         /\ Once(s) => /\ Once(Tail(s))
                       /\ Head(s) \in DBMessages
                            => Head(s) \notin Elems(Tail(s))
<1> DEFINE n == Len(s)
<1>1. /\ Head(s) \in S /\ Tail(s) \in Seq(S) /\ Head(s) = s[1]
      /\ n \in Nat /\ n > 0
      /\ DOMAIN s = 1..n /\ DOMAIN Tail(s) = 1..(n - 1)
      /\ \A i \in 1..(n - 1) : Tail(s)[i] = s[i + 1]
  OBVIOUS
<1> HIDE DEF n
<1>2. Elems(s) \subseteq {Head(s)} \union Elems(Tail(s))
  <2> SUFFICES ASSUME NEW i \in 1..n, i # 1
               PROVE  s[i] \in Elems(Tail(s))
    BY <1>1 DEF Elems
  <2>1. i - 1 \in 1..(n - 1) /\ Tail(s)[i - 1] = s[i]
    BY <1>1
  <2> QED BY <1>1, <2>1 DEF Elems
<1>3. {Head(s)} \union Elems(Tail(s)) \subseteq Elems(s)
  <2> SUFFICES ASSUME NEW i \in 1..(n - 1)
               PROVE  Tail(s)[i] \in Elems(s)
    BY <1>1 DEF Elems
  <2> QED BY <1>1 DEF Elems
<1>4. ASSUME Distinct(s)
      PROVE  Distinct(Tail(s)) /\ Head(s) \notin Elems(Tail(s))
  <2>1. \A i \in 1..(n - 1) : i + 1 \in 1..n /\ i + 1 # 1
    BY <1>1
  <2>2. Distinct(Tail(s))
    BY <1>1, <1>4, <2>1 DEF Distinct
  <2>3. \A i \in 1..(n - 1) : Tail(s)[i] # Head(s)
    BY <1>1, <1>4, <2>1 DEF Distinct
  <2> QED BY <1>1, <2>2, <2>3 DEF Elems
<1>5. ASSUME Once(s)
      PROVE  /\ Once(Tail(s))
             /\ Head(s) \in DBMessages => Head(s) \notin Elems(Tail(s))
  <2>1. \A i \in 1..(n - 1) : i + 1 \in 1..n /\ i + 1 # 1
    BY <1>1
  <2>2. Once(Tail(s))
    BY <1>1, <1>5, <2>1 DEF Once
  <2>3. Head(s) \in DBMessages => \A i \in 1..(n - 1) : Tail(s)[i] # Head(s)
    BY <1>1, <1>5, <2>1 DEF Once
  <2> QED BY <1>1, <2>2, <2>3 DEF Elems
<1> QED BY <1>1, <1>2, <1>3, <1>4, <1>5

(* Members are of the type of the list.                                    *)
LEMMA ElemsType ==
  ASSUME NEW S, NEW s \in Seq(S)
  PROVE  Elems(s) \subseteq S
BY DEF Elems

(* An empty list has no members.                                           *)
LEMMA EmptyFacts == Elems(<<>>) = {} /\ Distinct(<<>>) /\ Once(<<>>)
BY DEF Elems, Distinct, Once
-----------------------------------------------------------------------------
(* The steps, one lemma for each.                                          *)

(* What the lists hold.                                                    *)
LEMMA MemberTypes ==
  ASSUME NEW Msg, DBTypeOK(Msg)
  PROVE  /\ Elems(queue) \subseteq AllJobs
         /\ Elems(posted) \subseteq Msg
<1>1. queue \in Seq(AllJobs) /\ posted \in Seq(Msg)
  BY DEF DBTypeOK, MQTypeOK
<1> QED BY <1>1, ElemsType

(* Null and the broadcast are not jobs.                                    *)
LEMMA Strangers ==
  ASSUME NEW Msg, MessagesOK(Msg), Inv(Msg)
  PROVE  /\ NoJob \notin Elems(queue) \union Elems(posted) \union answered
         /\ ShutdownMsg \notin Elems(queue) \union answered \union {running}
         /\ \A t \in Callers :
              pc[t] = "add" => cur[t] \notin {NoJob, ShutdownMsg}
         /\ FinalizeJob \notin Elems(posted) \union answered
<1> USE JobsAssumption DEF AllJobs, Jobs, AsyncJobs
<1>1. DBTypeOK(Msg) /\ CallerOK
  BY DEF Inv
<1>2. answered \subseteq BlockingJobs /\ running \in AllJobs \union {NoJob}
  BY <1>1 DEF DBTypeOK
<1>3. \A t \in Callers : pc[t] = "add" => cur[t] \in AllJobs
  BY <1>1 DEF CallerOK
<1>4. NoJob # ShutdownMsg
  OBVIOUS
<1>5. Elems(queue) \subseteq AllJobs /\ Elems(posted) \subseteq Msg
  BY <1>1, MemberTypes
<1> QED BY <1>1, <1>2, <1>3, <1>4, <1>5 DEF MessagesOK

(* A method allocates its job.                                             *)
LEMMA CallStep ==
  ASSUME NEW Msg, MessagesOK(Msg), Inv(Msg),
         NEW t \in Callers, NEW j \in Jobs, Call(t, j)
  PROVE  Inv(Msg)'
<1> USE DEF Inv, Call, Free, MayRun, mqVars, dbVars
<1>1. MainOK' /\ OneHolder' /\ BlockingHeld' /\ WorkerOK'
        /\ ShutdownOnce' /\ NoLostWakeup'
  BY DEF MainOK, OneHolder, BlockingHeld, Taken, WorkerOK, ShutdownOnce,
     NoLostWakeup
<1>2. DBTypeOK(Msg)'
  BY JobsAssumption DEF DBTypeOK, MQTypeOK, Callers, AsyncJobs, Jobs, AllJobs
<1>3. CallerOK'
  BY JobsAssumption DEF CallerOK, DBTypeOK, MQTypeOK, AllJobs
<1>4. FinalizeOnce'
  BY JobsAssumption DEF FinalizeOnce, DBTypeOK, CallerOK, AllJobs
<1>5. Places'
  BY EmptyFacts DEF Places, DBTypeOK, BlockingHeld, Taken
<1>6. AnswersAreResults'
  BY DEF AnswersAreResults, DBTypeOK, BlockingHeld, Taken
<1> QED BY <1>1, <1>2, <1>3, <1>4, <1>5, <1>6

(* addJob() links the job in.                                              *)
LEMMA AddJobStep ==
  ASSUME NEW Msg, MessagesOK(Msg), Inv(Msg), NEW t \in Callers, AddJob(t)
  PROVE  Inv(Msg)'
<1> USE DEF Inv, AddJob, mqVars, dbVars
<1>1. queue \in Seq(AllJobs) /\ cur[t] \in AllJobs
  BY DEF DBTypeOK, CallerOK
<1>2. /\ Append(queue, cur[t]) \in Seq(AllJobs)
      /\ Elems(Append(queue, cur[t])) = Elems(queue) \union {cur[t]}
      /\ Append(queue, cur[t]) # <<>>
      /\ Distinct(queue) /\ cur[t] \notin Elems(queue)
           => Distinct(Append(queue, cur[t]))
  BY <1>1, AppendFacts
<1>3. DBTypeOK(Msg)' /\ MainOK' /\ OneHolder' /\ WorkerOK'
        /\ ShutdownOnce' /\ AnswersAreResults'
  BY <1>2 DEF DBTypeOK, MQTypeOK, MainOK, OneHolder, WorkerOK, ShutdownOnce,
     AnswersAreResults
<1>4. CallerOK'
  BY <1>2, JobsAssumption DEF CallerOK, DBTypeOK, MQTypeOK, Callers, AsyncJobs,
     Jobs, AllJobs
<1>5. BlockingHeld'
  BY <1>2, JobsAssumption, EmptyFacts DEF BlockingHeld, Taken, DBTypeOK,
     AsyncJobs, Jobs, AllJobs
<1>6. FinalizeOnce'
  BY <1>2, JobsAssumption, ThreadsAssumption DEF FinalizeOnce, DBTypeOK,
     CallerOK, MainOK, AsyncJobs, Jobs, AllJobs
<1>7. Places'
  BY <1>2, JobsAssumption DEF Places, DBTypeOK, OneHolder, Jobs
<1>8. NoLostWakeup'
  BY DEF NoLostWakeup, DBTypeOK
<1> QED BY <1>3, <1>4, <1>5, <1>6, <1>7, <1>8

(* addJob() sets the event.                                                *)
LEMMA SignalWorkerStep ==
  ASSUME NEW Msg, MessagesOK(Msg), Inv(Msg), NEW t \in Callers, SignalWorker(t)
  PROVE  Inv(Msg)'
<1> USE DEF Inv, SignalWorker, mqVars, dbVars
<1>1. DBTypeOK(Msg)' /\ OneHolder' /\ WorkerOK' /\ FinalizeOnce'
        /\ ShutdownOnce' /\ Places' /\ AnswersAreResults' /\ NoLostWakeup'
  BY DEF DBTypeOK, MQTypeOK, OneHolder, WorkerOK, FinalizeOnce, ShutdownOnce,
     Places, AnswersAreResults, NoLostWakeup
<1>2. CallerOK'
  BY JobsAssumption, ThreadsAssumption, EmptyFacts DEF CallerOK, Callers,
     AsyncJobs, Jobs, AllJobs
<1>3. MainOK'
  BY DEF MainOK
<1>4. BlockingHeld'
  BY JobsAssumption DEF BlockingHeld, Taken, Jobs, AllJobs
<1> QED BY <1>1, <1>2, <1>3, <1>4

(* A blocking caller takes its answer.                                     *)
LEMMA ReturnStep ==
  ASSUME NEW Msg, MessagesOK(Msg), Inv(Msg), NEW t \in Callers, Return(t)
  PROVE  Inv(Msg)'
<1> USE DEF Inv, Return, mqVars, dbVars
<1>1. DBTypeOK(Msg)' /\ MainOK' /\ OneHolder' /\ WorkerOK'
        /\ Places' /\ NoLostWakeup'
  BY DEF DBTypeOK, MQTypeOK, MainOK, OneHolder, WorkerOK, Places,
     NoLostWakeup
<1>2. CallerOK'
  BY JobsAssumption DEF CallerOK, DBTypeOK, MQTypeOK, Callers, AsyncJobs, Jobs,
     AllJobs
<1>3. BlockingHeld'
  BY JobsAssumption, EmptyFacts DEF BlockingHeld, Taken, DBTypeOK, OneHolder,
     Places, Jobs, AllJobs
<1>4. FinalizeOnce'
  BY JobsAssumption, ThreadsAssumption DEF FinalizeOnce, DBTypeOK, Jobs,
     AllJobs
<1>5. ShutdownOnce'
  BY DEF ShutdownOnce, DBTypeOK
<1>6. AnswersAreResults'
  BY DEF AnswersAreResults
<1> QED BY <1>1, <1>2, <1>3, <1>4, <1>5, <1>6

(* The worker wakes.                                                       *)
LEMMA WakeStep ==
  ASSUME NEW Msg, MessagesOK(Msg), Inv(Msg), Wake
  PROVE  Inv(Msg)'
<1> USE DEF Inv, Wake, mqVars, dbVars
<1>1. DBTypeOK(Msg)' /\ CallerOK' /\ MainOK' /\ OneHolder'
        /\ BlockingHeld' /\ WorkerOK' /\ FinalizeOnce' /\ ShutdownOnce'
        /\ Places' /\ AnswersAreResults' /\ NoLostWakeup'
  BY DEF DBTypeOK, MQTypeOK, CallerOK, MainOK, OneHolder, BlockingHeld, Taken,
     WorkerOK, FinalizeOnce, ShutdownOnce, Places, AnswersAreResults,
     NoLostWakeup
<1> QED BY <1>1

(* The worker ends.                                                        *)
LEMMA WorkerExitsStep ==
  ASSUME NEW Msg, MessagesOK(Msg), Inv(Msg), WorkerExits
  PROVE  Inv(Msg)'
<1> USE DEF Inv, WorkerExits, mqVars, dbVars
<1>1. DBTypeOK(Msg)' /\ CallerOK' /\ MainOK' /\ OneHolder'
        /\ BlockingHeld' /\ WorkerOK' /\ FinalizeOnce' /\ ShutdownOnce'
        /\ Places' /\ AnswersAreResults' /\ NoLostWakeup'
  BY DEF DBTypeOK, MQTypeOK, CallerOK, MainOK, OneHolder, BlockingHeld, Taken,
     WorkerOK, FinalizeOnce, ShutdownOnce, Places, AnswersAreResults,
     NoLostWakeup
<1> QED BY <1>1

(* The worker finds the list empty.                                        *)
LEMMA QueueIsEmptyStep ==
  ASSUME NEW Msg, MessagesOK(Msg), Inv(Msg), QueueIsEmpty
  PROVE  Inv(Msg)'
<1> USE DEF Inv, QueueIsEmpty, mqVars, dbVars
<1>1. DBTypeOK(Msg)' /\ CallerOK' /\ MainOK' /\ OneHolder'
        /\ BlockingHeld' /\ WorkerOK' /\ FinalizeOnce' /\ ShutdownOnce'
        /\ Places' /\ AnswersAreResults' /\ NoLostWakeup'
  BY DEF DBTypeOK, MQTypeOK, CallerOK, MainOK, OneHolder, BlockingHeld, Taken,
     WorkerOK, FinalizeOnce, ShutdownOnce, Places, AnswersAreResults,
     NoLostWakeup
<1> QED BY <1>1

(* The worker takes the first job.                                         *)
LEMMA RemoveJobStep ==
  ASSUME NEW Msg, MessagesOK(Msg), Inv(Msg), RemoveJob
  PROVE  Inv(Msg)'
<1> USE DEF Inv, RemoveJob, mqVars, dbVars
<1>1. queue \in Seq(AllJobs) /\ queue # <<>>
  BY DEF DBTypeOK
<1>2. /\ Head(queue) \in AllJobs
      /\ Tail(queue) \in Seq(AllJobs)
      /\ Elems(queue) = {Head(queue)} \union Elems(Tail(queue))
      /\ Distinct(queue)
           => Distinct(Tail(queue)) /\ Head(queue) \notin Elems(Tail(queue))
  BY <1>1, TailFacts
<1>3. DBTypeOK(Msg)' /\ CallerOK' /\ MainOK' /\ OneHolder'
        /\ FinalizeOnce' /\ ShutdownOnce' /\ Places' /\ AnswersAreResults'
        /\ NoLostWakeup'
  BY <1>2 DEF DBTypeOK, MQTypeOK, CallerOK, MainOK, OneHolder, FinalizeOnce,
     ShutdownOnce, Places, AnswersAreResults, NoLostWakeup
<1>4. BlockingHeld'
  BY <1>2, JobsAssumption, ThreadsAssumption DEF BlockingHeld, Taken, DBTypeOK,
     MQTypeOK, WorkerOK, Callers, AsyncJobs, Jobs, AllJobs
<1>5. WorkerOK'
  BY <1>2, JobsAssumption, ThreadsAssumption, EmptyFacts DEF WorkerOK
<1> QED BY <1>3, <1>4, <1>5

(* An asynchronous job is run and posted.                                  *)
LEMMA RunAsyncStep ==
  ASSUME NEW Msg, MessagesOK(Msg), Inv(Msg), RunAsync
  PROVE  Inv(Msg)'
<1> USE DEF Inv, RunAsync, Post, Perform, mqVars, dbVars
<1>1. /\ posted \in Seq(Msg)
      /\ running \in Msg
  BY DEF DBTypeOK, MQTypeOK, MessagesOK, DBMessages
<1>2. /\ Append(posted, running) \in Seq(Msg)
      /\ Elems(Append(posted, running)) = Elems(posted) \union {running}
      /\ Append(posted, running) # <<>>
      /\ Once(posted) /\ running \notin Elems(posted)
           => Once(Append(posted, running))
  BY <1>1, AppendFacts
<1>3. DBTypeOK(Msg)' /\ CallerOK' /\ MainOK' /\ OneHolder'
        /\ WorkerOK' /\ NoLostWakeup'
  BY <1>2 DEF DBTypeOK, MQTypeOK, CallerOK, MainOK, OneHolder, WorkerOK,
     NoLostWakeup
<1>4. BlockingHeld'
  BY <1>2, JobsAssumption, ThreadsAssumption DEF BlockingHeld, Taken,
     Callers, AsyncJobs, Jobs, AllJobs
<1>5. FinalizeOnce'
  BY <1>2, JobsAssumption, ThreadsAssumption DEF FinalizeOnce, AsyncJobs,
     Jobs, AllJobs
<1>6. ShutdownOnce'
  BY <1>2, JobsAssumption DEF ShutdownOnce, Jobs, AllJobs
<1>7. Places'
  <2>1. NoJob \notin Elems(posted')
    BY <1>2, JobsAssumption, Strangers DEF AllJobs, Jobs
  <2>2. running \notin Elems(queue) \union Elems(posted) \union answered
    BY DEF Places
  <2>3. \A u \in Callers : pc[u] = "add" => cur[u] # NoJob
    BY Strangers
  <2> QED BY <1>2, <2>1, <2>2, <2>3, Strangers DEF Places
<1>8. AnswersAreResults'
  BY <1>2 DEF AnswersAreResults, DBTypeOK, MQTypeOK
<1> QED BY <1>3, <1>4, <1>5, <1>6, <1>7, <1>8

(* A blocking job is run and answered.                                     *)
LEMMA RunBlockingStep ==
  ASSUME NEW Msg, MessagesOK(Msg), Inv(Msg), RunBlocking
  PROVE  Inv(Msg)'
<1> USE DEF Inv, RunBlocking, Perform, mqVars, dbVars
<1>1. DBTypeOK(Msg)' /\ CallerOK' /\ MainOK' /\ OneHolder'
        /\ WorkerOK' /\ ShutdownOnce' /\ NoLostWakeup'
  BY DEF DBTypeOK, MQTypeOK, CallerOK, MainOK, OneHolder, WorkerOK,
     ShutdownOnce, NoLostWakeup
<1>2. BlockingHeld'
  BY JobsAssumption, ThreadsAssumption, EmptyFacts DEF BlockingHeld, Taken,
     Callers, AsyncJobs, Jobs, AllJobs
<1>3. FinalizeOnce'
  BY JobsAssumption, ThreadsAssumption DEF FinalizeOnce, Jobs, AllJobs
<1>4. Places'
  <2>1. NoJob \notin answered'
    BY JobsAssumption, Strangers DEF AllJobs, Jobs
  <2>2. running \notin Elems(queue) \union Elems(posted)
    BY DEF Places
  <2>3. \A u \in Callers : pc[u] = "add" => cur[u] # NoJob
    BY Strangers
  <2> QED BY <2>1, <2>2, <2>3, Strangers DEF Places
<1>5. AnswersAreResults'
  BY DEF AnswersAreResults, DBTypeOK, MQTypeOK, Jobs
<1> QED BY <1>1, <1>2, <1>3, <1>4, <1>5

(* The finalize job is run.                                                *)
LEMMA RunFinalizeStep ==
  ASSUME NEW Msg, MessagesOK(Msg), Inv(Msg), RunFinalize
  PROVE  Inv(Msg)'
<1> USE DEF Inv, RunFinalize, mqVars, dbVars
<1>1. DBTypeOK(Msg)' /\ CallerOK' /\ MainOK' /\ OneHolder'
        /\ WorkerOK' /\ ShutdownOnce' /\ AnswersAreResults' /\ NoLostWakeup'
  BY DEF DBTypeOK, MQTypeOK, CallerOK, MainOK, OneHolder, WorkerOK,
     ShutdownOnce, AnswersAreResults, NoLostWakeup
<1>2. BlockingHeld'
  BY JobsAssumption, ThreadsAssumption, EmptyFacts DEF BlockingHeld, Taken,
     Callers, AsyncJobs, Jobs, AllJobs
<1>3. FinalizeOnce'
  BY JobsAssumption, EmptyFacts DEF FinalizeOnce, Places, Callers,
     AsyncJobs, Jobs, AllJobs
<1>4. Places'
  BY Strangers DEF Places
<1> QED BY <1>1, <1>2, <1>3, <1>4

(* A done callback is dispatched.                                          *)
LEMMA DispatchDoneStep ==
  ASSUME NEW Msg, MessagesOK(Msg), Inv(Msg), DispatchDone
  PROVE  Inv(Msg)'
<1> USE DEF Inv, DispatchDone, GetMessage, mqVars, dbVars
<1>1. posted \in Seq(Msg) /\ posted # <<>>
  BY DEF DBTypeOK, MQTypeOK
<1>2. /\ Head(posted) \in Msg
      /\ Tail(posted) \in Seq(Msg)
      /\ Elems(posted) = {Head(posted)} \union Elems(Tail(posted))
      /\ Once(posted)
           => /\ Once(Tail(posted))
              /\ Head(posted) \in DBMessages
                   => Head(posted) \notin Elems(Tail(posted))
  BY <1>1, TailFacts
<1>3. DBTypeOK(Msg)' /\ CallerOK' /\ MainOK' /\ OneHolder'
        /\ BlockingHeld' /\ WorkerOK' /\ FinalizeOnce' /\ ShutdownOnce'
        /\ Places' /\ AnswersAreResults' /\ NoLostWakeup'
  BY <1>2 DEF DBTypeOK, MQTypeOK, CallerOK, MainOK, OneHolder, BlockingHeld,
     Taken, WorkerOK, FinalizeOnce, ShutdownOnce, Places,
     AnswersAreResults, NoLostWakeup
<1> QED BY <1>3

(* The shutdown is put off.                                                *)
LEMMA PutOffShutdownStep ==
  ASSUME NEW Msg, MessagesOK(Msg), Inv(Msg), PutOffShutdown
  PROVE  Inv(Msg)'
<1> USE DEF Inv, PutOffShutdown, GetMessage, DelayShutdown, Larger, mqVars,
        dbVars
<1>1. posted \in Seq(Msg) /\ posted # <<>>
  BY DEF DBTypeOK, MQTypeOK
<1>2. /\ Head(posted) \in Msg
      /\ Tail(posted) \in Seq(Msg)
      /\ Elems(posted) = {Head(posted)} \union Elems(Tail(posted))
      /\ Once(posted)
           => /\ Once(Tail(posted))
              /\ Head(posted) \in DBMessages
                   => Head(posted) \notin Elems(Tail(posted))
  BY <1>1, TailFacts
<1>3. DBTypeOK(Msg)' /\ CallerOK' /\ MainOK' /\ OneHolder'
        /\ BlockingHeld' /\ WorkerOK' /\ FinalizeOnce' /\ Places'
        /\ AnswersAreResults' /\ NoLostWakeup'
  BY <1>2 DEF DBTypeOK, MQTypeOK, CallerOK, MainOK, OneHolder, BlockingHeld,
     Taken, WorkerOK, FinalizeOnce, Places, AnswersAreResults, NoLostWakeup
<1>4. ShutdownOnce'
  BY <1>2, JobsAssumption, ThreadsAssumption, EmptyFacts, MemberTypes
     DEF ShutdownOnce, DBTypeOK, MQTypeOK, Places, DBMessages, Callers,
     AsyncJobs, Jobs, AllJobs
<1> QED BY <1>3, <1>4

(* finalize() begins.                                                      *)
LEMMA BeginFinalizeStep ==
  ASSUME NEW Msg, MessagesOK(Msg), Inv(Msg), BeginFinalize
  PROVE  Inv(Msg)'
<1> USE DEF Inv, BeginFinalize, GetMessage, mqVars, dbVars
<1>1. posted \in Seq(Msg) /\ posted # <<>>
  BY DEF DBTypeOK, MQTypeOK
<1>2. /\ Head(posted) \in Msg
      /\ Tail(posted) \in Seq(Msg)
      /\ Elems(posted) = {Head(posted)} \union Elems(Tail(posted))
      /\ Once(posted)
           => /\ Once(Tail(posted))
              /\ Head(posted) \in DBMessages
                   => Head(posted) \notin Elems(Tail(posted))
  BY <1>1, TailFacts
<1>3. MainOK' /\ WorkerOK' /\ ShutdownOnce' /\ AnswersAreResults'
        /\ NoLostWakeup'
  BY <1>2 DEF MainOK, WorkerOK, ShutdownOnce, AnswersAreResults, NoLostWakeup
<1>4. DBTypeOK(Msg)'
  BY DEF DBTypeOK, MQTypeOK, Callers, AsyncJobs, Jobs, AllJobs
<1>5. CallerOK'
  BY DEF CallerOK, DBTypeOK, MQTypeOK, AllJobs
<1>6. OneHolder'
  BY DEF OneHolder, DBTypeOK, CallerOK, AllJobs
<1>7. BlockingHeld'
  BY EmptyFacts DEF BlockingHeld, Taken, DBTypeOK, MQTypeOK, MainOK
<1>8. FinalizeOnce'
  BY MemberTypes DEF FinalizeOnce, DBTypeOK, MQTypeOK, CallerOK, MainOK,
     WorkerOK
<1>9. Places'
  BY <1>2, JobsAssumption, Strangers DEF Places, DBTypeOK, CallerOK,
     MainOK, FinalizeOnce, Jobs
<1> QED BY <1>3, <1>4, <1>5, <1>6, <1>7, <1>8, <1>9

(* finalize() has joined the worker.                                       *)
LEMMA JoinedStep ==
  ASSUME NEW Msg, MessagesOK(Msg), Inv(Msg), Joined
  PROVE  Inv(Msg)'
<1> USE DEF Inv, Joined, mqVars, dbVars
<1>1. DBTypeOK(Msg)' /\ OneHolder' /\ WorkerOK' /\ ShutdownOnce'
        /\ AnswersAreResults'
  BY DEF DBTypeOK, MQTypeOK, OneHolder, WorkerOK, ShutdownOnce,
     AnswersAreResults
<1>2. CallerOK'
  BY JobsAssumption DEF CallerOK, DBTypeOK, MQTypeOK, Callers, AsyncJobs, Jobs,
     AllJobs
<1>3. MainOK'
  BY JobsAssumption DEF MainOK, DBTypeOK, Callers, AllJobs
<1>4. BlockingHeld'
  BY DEF BlockingHeld, Taken
<1>5. FinalizeOnce'
  BY DEF FinalizeOnce, DBTypeOK, MQTypeOK, WorkerOK
<1>6. Places'
  BY DEF Places
<1>7. NoLostWakeup'
  BY DEF NoLostWakeup
<1> QED BY <1>1, <1>2, <1>3, <1>4, <1>5, <1>6, <1>7

(* Input is handled.                                                       *)
LEMMA MainInputStep ==
  ASSUME NEW Msg, MessagesOK(Msg), Inv(Msg), MainInput
  PROVE  Inv(Msg)'
<1> USE DEF Inv, MainInput, Input, mqVars, dbVars
<1>1. DBTypeOK(Msg)' /\ CallerOK' /\ MainOK' /\ OneHolder'
        /\ BlockingHeld' /\ WorkerOK' /\ FinalizeOnce' /\ ShutdownOnce'
        /\ Places' /\ AnswersAreResults' /\ NoLostWakeup'
  BY DEF DBTypeOK, MQTypeOK, CallerOK, MainOK, OneHolder, BlockingHeld, Taken,
     WorkerOK, FinalizeOnce, ShutdownOnce, Places, AnswersAreResults,
     NoLostWakeup
<1> QED BY <1>1

(* The frame initiates the shutdown.                                       *)
LEMMA MainInitiatesShutdownStep ==
  ASSUME NEW Msg, MessagesOK(Msg), Inv(Msg), MainInitiatesShutdown
  PROVE  Inv(Msg)'
<1> USE DEF Inv, MainInitiatesShutdown, InitiateShutdown, Post, mqVars,
        dbVars
<1>1. /\ posted \in Seq(Msg)
      /\ ShutdownMsg \in Msg
  BY DEF DBTypeOK, MQTypeOK, MessagesOK, DBMessages
<1>2. /\ Append(posted, ShutdownMsg) \in Seq(Msg)
      /\ Elems(Append(posted, ShutdownMsg)) = Elems(posted) \union {ShutdownMsg}
      /\ Append(posted, ShutdownMsg) # <<>>
      /\ Once(posted) /\ ShutdownMsg \notin Elems(posted)
           => Once(Append(posted, ShutdownMsg))
  BY <1>1, AppendFacts
<1>3. DBTypeOK(Msg)' /\ CallerOK' /\ MainOK' /\ OneHolder'
        /\ BlockingHeld' /\ WorkerOK' /\ FinalizeOnce' /\ NoLostWakeup'
  BY <1>2 DEF DBTypeOK, MQTypeOK, CallerOK, MainOK, OneHolder, BlockingHeld, Taken,
     WorkerOK, FinalizeOnce, NoLostWakeup
<1>4. ShutdownOnce'
  BY <1>2, JobsAssumption, ThreadsAssumption, EmptyFacts, MemberTypes
     DEF ShutdownOnce, DBTypeOK, MQTypeOK, Callers, AsyncJobs, AllJobs
<1>5. Places'
  BY <1>2, Strangers DEF Places, ShutdownOnce
<1>6. AnswersAreResults'
  BY <1>2, JobsAssumption DEF AnswersAreResults, DBTypeOK, MQTypeOK, Jobs,
     AllJobs
<1> QED BY <1>3, <1>4, <1>5, <1>6

(* A handler returns.                                                      *)
LEMMA MainHandlerReturnsStep ==
  ASSUME NEW Msg, MessagesOK(Msg), Inv(Msg), MainHandlerReturns
  PROVE  Inv(Msg)'
<1> USE DEF Inv, MainHandlerReturns, HandlerReturns, mqVars, dbVars
<1>1. DBTypeOK(Msg)' /\ CallerOK' /\ MainOK' /\ OneHolder'
        /\ BlockingHeld' /\ WorkerOK' /\ FinalizeOnce' /\ ShutdownOnce'
        /\ Places' /\ AnswersAreResults' /\ NoLostWakeup'
  BY DEF DBTypeOK, MQTypeOK, CallerOK, MainOK, OneHolder, BlockingHeld, Taken,
     WorkerOK, FinalizeOnce, ShutdownOnce, Places, AnswersAreResults,
     NoLostWakeup
<1> QED BY <1>1

(* The loop looks at the shutdown state.                                   *)
LEMMA MainChecksShutdownStep ==
  ASSUME NEW Msg, MessagesOK(Msg), Inv(Msg), MainChecksShutdown
  PROVE  Inv(Msg)'
<1> USE DEF Inv, MainChecksShutdown, CheckShutdown, Post, mqVars, dbVars
<1>1. /\ posted \in Seq(Msg)
      /\ ShutdownMsg \in Msg
  BY DEF DBTypeOK, MQTypeOK, MessagesOK, DBMessages
<1>2. /\ Append(posted, ShutdownMsg) \in Seq(Msg)
      /\ Elems(Append(posted, ShutdownMsg)) = Elems(posted) \union {ShutdownMsg}
      /\ Append(posted, ShutdownMsg) # <<>>
      /\ Once(posted) /\ ShutdownMsg \notin Elems(posted)
           => Once(Append(posted, ShutdownMsg))
  BY <1>1, AppendFacts
<1>3. CallerOK' /\ MainOK' /\ OneHolder' /\ BlockingHeld'
        /\ WorkerOK' /\ FinalizeOnce' /\ NoLostWakeup'
  BY DEF CallerOK, MainOK, OneHolder, BlockingHeld, Taken, WorkerOK,
     FinalizeOnce, NoLostWakeup
<1>4. DBTypeOK(Msg)'
  BY <1>2 DEF DBTypeOK, MQTypeOK
<1>5. ShutdownOnce'
  BY DEF ShutdownOnce, DBTypeOK, MQTypeOK, Callers, AsyncJobs, Jobs, AllJobs
<1>6. Places'
  <2>1. /\ Once(posted')
        /\ Elems(posted') \subseteq Elems(posted) \union {ShutdownMsg}
    <3>1. CASE shutdown /\ shutdownDelay > 0
      <4>1. posted' = Append(posted, ShutdownMsg)
        BY <3>1
      <4>2. Once(posted) /\ shutdownDelay # 0
        BY <3>1 DEF Places
      <4> QED BY <1>2, <4>1, <4>2 DEF ShutdownOnce
    <3>2. CASE ~(shutdown /\ shutdownDelay > 0)
      BY <3>2 DEF Places
    <3> QED BY <3>1, <3>2
  <2> QED BY <2>1, Strangers DEF Places
<1>7. AnswersAreResults'
  BY <1>2, JobsAssumption DEF AnswersAreResults, DBTypeOK, AsyncJobs, Jobs,
     AllJobs
<1> QED BY <1>3, <1>4, <1>5, <1>6, <1>7

(* The loop ends.                                                          *)
LEMMA MainLoopEndsStep ==
  ASSUME NEW Msg, MessagesOK(Msg), Inv(Msg), MainLoopEnds
  PROVE  Inv(Msg)'
<1> USE DEF Inv, MainLoopEnds, LoopEnds, mqVars, dbVars
<1>1. DBTypeOK(Msg)' /\ CallerOK' /\ MainOK' /\ OneHolder'
        /\ BlockingHeld' /\ WorkerOK' /\ FinalizeOnce' /\ ShutdownOnce'
        /\ Places' /\ AnswersAreResults' /\ NoLostWakeup'
  BY DEF DBTypeOK, MQTypeOK, CallerOK, MainOK, OneHolder, BlockingHeld, Taken,
     WorkerOK, FinalizeOnce, ShutdownOnce, Places, AnswersAreResults,
     NoLostWakeup
<1> QED BY <1>1
-----------------------------------------------------------------------------
(* The invariant.                                                          *)

(* The handler that opens the database starts in an invariant state.       *)
LEMMA InitInv ==
  ASSUME NEW Msg, MessagesOK(Msg), Init
  PROVE  Inv(Msg)
<1> USE JobsAssumption, ThreadsAssumption, EmptyFacts DEF Init, MQInit, Callers
<1>1. DBTypeOK(Msg)
  <2>1. MQTypeOK(Msg) /\ queue \in Seq(AllJobs)
    <3>1. /\ posted = <<>> /\ queue = <<>>
          /\ loop = "handler" /\ shutdown = FALSE /\ quit = FALSE
          /\ shutdownDelay = 0
      OBVIOUS
    <3>2. \A S : <<>> \in Seq(S)
      OBVIOUS
    <3> QED BY ONLY <3>1, <3>2 DEF MQTypeOK
  <2>2. /\ error \in [Jobs -> {"none", "ok", "failed", "misuse"}]
        /\ pc \in [Callers -> {"ready", "add", "signal", "await", "join"}]
        /\ cur \in [Callers -> AllJobs \union {NoJob}]
    BY DEF AllJobs, Jobs, AsyncJobs
  <2> QED BY <2>1, <2>2 DEF DBTypeOK
<1>5. CallerOK
  BY DEF CallerOK, AllJobs, Jobs, AsyncJobs
<1>2. MainOK /\ OneHolder /\ BlockingHeld /\ WorkerOK
  BY DEF MainOK, OneHolder, BlockingHeld, Taken, WorkerOK, AllJobs, Jobs
<1>3. FinalizeOnce /\ ShutdownOnce /\ NoLostWakeup
  BY DEF FinalizeOnce, ShutdownOnce, NoLostWakeup, AllJobs
<1>4. Places /\ AnswersAreResults
  BY DEF Places, AnswersAreResults, AllJobs, Jobs, AsyncJobs
<1> QED BY <1>1, <1>2, <1>3, <1>4, <1>5 DEF Inv

(* The invariant looks at nothing but the variables.                       *)
LEMMA StutterInv ==
  ASSUME NEW Msg, Inv(Msg), UNCHANGED vars
  PROVE  Inv(Msg)'
BY DEF Inv, vars, mqVars, dbVars, DBTypeOK, MQTypeOK, CallerOK, MainOK,
       OneHolder, BlockingHeld, Taken, WorkerOK, FinalizeOnce, ShutdownOnce,
       Places, AnswersAreResults, NoLostWakeup

(* Every step of a caller, the worker or the dispatch thread preserves the *)
(* invariant.                                                              *)
LEMMA NextInv ==
  ASSUME NEW Msg, MessagesOK(Msg), Inv(Msg), [Next]_vars
  PROVE  Inv(Msg)'
<1>1. ASSUME NEW t \in Callers, CallerNext(t) PROVE Inv(Msg)'
  BY <1>1, CallStep, AddJobStep, SignalWorkerStep, ReturnStep DEF CallerNext
<1>2. CASE WorkerNext
  BY <1>2, WakeStep, WorkerExitsStep, QueueIsEmptyStep, RemoveJobStep,
     RunAsyncStep, RunBlockingStep, RunFinalizeStep DEF WorkerNext
<1>3. CASE MainNext
  BY <1>3, DispatchDoneStep, PutOffShutdownStep, BeginFinalizeStep,
     JoinedStep, MainInputStep, MainInitiatesShutdownStep,
     MainHandlerReturnsStep, MainChecksShutdownStep, MainLoopEndsStep
     DEF MainNext
<1>4. CASE Done \/ UNCHANGED vars
  BY <1>4, StutterInv DEF Done
<1> QED BY <1>1, <1>2, <1>3, <1>4 DEF Next

(* The invariant holds in every reachable state.                           *)
LEMMA SpecInv == Spec => []Inv(DBMessages)
<1>1. MessagesOK(DBMessages)
  BY JobsAssumption DEF MessagesOK, DBMessages, AllJobs, Jobs, AsyncJobs
<1>2. Init => Inv(DBMessages)
  BY <1>1, InitInv
<1>3. Inv(DBMessages) /\ [Next]_vars => Inv(DBMessages)'
  BY <1>1, NextInv
<1> QED BY <1>2, <1>3, PTL DEF Spec

(* Every reachable state is well-typed: messages in the queue are posted   *)
(* jobs or "shutdown", a caller waits only where its method can wait.      *)
THEOREM TypeCorrect == Spec => []TypeOK
<1>1. Inv(DBMessages) => TypeOK
  BY DEF Inv, TypeOK, DBMessages
<1> QED BY <1>1, SpecInv, PTL

(* The worker never sleeps through a job: between addJob() and SetEvent(), *)
(* and between the worker's look at head and its wait, nothing is missed,  *)
(* however many threads add jobs.                                          *)
THEOREM NoWakeupIsLost == Spec => []NoLostWakeup
<1>1. Inv(DBMessages) => NoLostWakeup
  BY DEF Inv
<1> QED BY <1>1, SpecInv, PTL

(* A job object has one owner at a time: the list, the worker, the message *)
(* queue or the caller about to add it.                                    *)
THEOREM JobsHaveOneOwner == Spec => []OnePlace
<1>1. Inv(DBMessages) => OnePlace
  <2> SUFFICES ASSUME Inv(DBMessages)
               PROVE  OnePlace
    OBVIOUS
  <2>1. Elems(posted) \subseteq DBMessages
    BY MemberTypes DEF Inv
  <2>2. Distinct(posted)
    BY <2>1 DEF Inv, Places, Once, Distinct, Elems
  <2> QED BY <2>2 DEF Inv, Places, OnePlace
<1> QED BY <1>1, SpecInv, PTL

(* A blocked caller's job is in the list, being run, or answered.          *)
THEOREM BlockedCallersAreServed == Spec => []BlockedJobIsHeld
<1>1. Inv(DBMessages) => BlockedJobIsHeld
  BY DEF Inv, CallerOK, BlockingHeld, Taken, BlockedJobIsHeld
<1> QED BY <1>1, SpecInv, PTL

(* Callbacks and blocked callers get the result of a provider call.        *)
THEOREM AnswersComeFromRuns == Spec => []AnswersAreResults
<1>1. Inv(DBMessages) => AnswersAreResults
  BY DEF Inv
<1> QED BY <1>1, SpecInv, PTL
-----------------------------------------------------------------------------
(* Shutdown.                                                               *)

(* What the list holds at its end after a job is added.                    *)
LEMMA EndFacts ==
  ASSUME NEW S, NEW s \in Seq(S), NEW x \in S
  PROVE  /\ Len(s) \in Nat /\ DOMAIN s = 1..Len(s)
         /\ Len(Append(s, x)) = Len(s) + 1
         /\ DOMAIN Append(s, x) = 1..(Len(s) + 1)
         /\ \A i \in 1..Len(s) : Append(s, x)[i] = s[i]
         /\ Append(s, x)[Len(s) + 1] = x
OBVIOUS

(* What the list holds at its start.                                       *)
LEMMA StartFacts ==
  ASSUME NEW S, NEW s \in Seq(S), s # <<>>
  PROVE  /\ Len(s) \in Nat \ {0} /\ DOMAIN s = 1..Len(s) /\ Head(s) = s[1]
         /\ Len(Tail(s)) = Len(s) - 1 /\ DOMAIN Tail(s) = 1..(Len(s) - 1)
         /\ \A i \in 1..(Len(s) - 1) : Tail(s)[i] = s[i + 1]
         /\ Len(s) = 1 => Tail(s) = <<>>
OBVIOUS

(* Where the shutdown is on its way to the end of the message loop: in the *)
(* message queue, put off, in finalize(), or past it.  The loop is asked to*)
(* quit only behind finalize(), with no message left.                      *)
ShutdownOK ==
  /\ ~peer => worker = "exited"
  /\ shutdown /\ ShutdownMsg \notin Elems(posted) /\ shutdownDelay = 0
       => ~peer \/ cur[Main] = FinalizeJob
  /\ quit => /\ loop \in {"get", "exited"}
             /\ shutdown /\ shutdownDelay = 0 /\ posted = <<>> /\ ~peer
  /\ loop = "exited" => quit

(* A caller changes neither the message queue nor whether it is in         *)
(* finalize().                                                             *)
LEMMA CallerEnds ==
  ASSUME NEW Msg, Inv(Msg), ShutdownOK, NEW t \in Callers, CallerNext(t)
  PROVE  ShutdownOK'
<1>1. UNCHANGED <<mqVars, peer, worker>>
  BY DEF CallerNext, Call, AddJob, SignalWorker, Return
<1>2. cur[Main] = FinalizeJob /\ peer => cur'[Main] = FinalizeJob
  <2> SUFFICES ASSUME cur[Main] = FinalizeJob, peer
               PROVE  cur'[Main] = FinalizeJob
    OBVIOUS
  <2>1. /\ cur \in [Callers -> AllJobs \union {NoJob}] /\ Main \in Callers
        /\ FinalizeJob \notin AsyncJobs \union BlockingJobs \union {NoJob}
    BY JobsAssumption DEF Inv, DBTypeOK, Callers, Jobs, AllJobs
  <2>2. pc[Main] \in {"add", "signal", "join"}
    BY DEF Inv, CallerOK, Callers
  <2> QED BY <2>1, <2>2 DEF CallerNext, Call, AddJob, SignalWorker, Return
<1> QED BY <1>1, <1>2 DEF ShutdownOK, mqVars

(* The worker of a finalized database has ended: it posts nothing more.    *)
LEMMA WorkerEnds ==
  ASSUME NEW Msg, Inv(Msg), ShutdownOK, WorkerNext
  PROVE  ShutdownOK'
<1>1. peer \/ UNCHANGED worker
  BY DEF ShutdownOK, WorkerNext, Wake, WorkerExits, QueueIsEmpty, RemoveJob,
     RunAsync, RunBlocking, RunFinalize
<1>2. UNCHANGED <<peer, cur, loop, shutdown, shutdownDelay, quit>>
  BY DEF WorkerNext, Wake, WorkerExits, QueueIsEmpty, RemoveJob, RunAsync,
     RunBlocking, RunFinalize, mqVars
<1>3. CASE RunAsync
  <2>1. posted \in Seq(Msg) /\ peer
    BY <1>3 DEF Inv, DBTypeOK, MQTypeOK, ShutdownOK, RunAsync
  <2>2. Elems(posted) \subseteq Elems(posted')
    <3>1. posted' = Append(posted, running)
      BY <1>3 DEF RunAsync, Post
    <3>2. \A i \in DOMAIN posted :
            i \in DOMAIN posted' /\ posted'[i] = posted[i]
      BY <2>1, <3>1
    <3> QED BY <3>2 DEF Elems
  <2> QED BY <1>2, <2>1, <2>2 DEF ShutdownOK
<1>4. CASE ~RunAsync
  <2>1. UNCHANGED posted
    BY <1>4 DEF WorkerNext, Wake, WorkerExits, QueueIsEmpty, RemoveJob,
       RunBlocking, RunFinalize, mqVars
  <2> QED BY <1>1, <1>2, <2>1 DEF ShutdownOK
<1> QED BY <1>3, <1>4

(* A message other than "shutdown" leaves the shutdown where it is.        *)
LEMMA MessageEnds ==
  ASSUME NEW Msg, Inv(Msg), ShutdownOK, GetMessage,
         Head(posted) # ShutdownMsg,
         UNCHANGED <<shutdown, shutdownDelay, quit, peer, worker, cur>>
  PROVE  ShutdownOK'
<1>1. posted \in Seq(Msg) /\ posted # <<>>
  BY DEF Inv, DBTypeOK, MQTypeOK, GetMessage
<1>2. Elems(posted) = {Head(posted)} \union Elems(posted')
  BY <1>1, TailFacts DEF GetMessage
<1> QED BY <1>1, <1>2 DEF GetMessage, ShutdownOK

(* "shutdown" is put off, or begins finalize().                            *)
LEMMA ShutdownEnters ==
  ASSUME NEW Msg, Inv(Msg), ShutdownOK, PutOffShutdown \/ BeginFinalize
  PROVE  ShutdownOK'
<1>1. posted # <<>> /\ ~quit /\ shutdownDelay \in Nat /\ loop' = "handler"
  BY DEF Inv, DBTypeOK, MQTypeOK, ShutdownOK, PutOffShutdown, BeginFinalize,
     GetMessage
<1>2. CASE PutOffShutdown
  <2>1. shutdownDelay' # 0
    BY <1>1, <1>2 DEF PutOffShutdown, DelayShutdown, Larger
  <2> QED BY <1>1, <1>2, <2>1 DEF PutOffShutdown, dbVars, ShutdownOK
<1>3. CASE BeginFinalize
  <2>1. ~peer' \/ cur'[Main] = FinalizeJob
    BY <1>3 DEF BeginFinalize, Inv, DBTypeOK, Callers
  <2> QED BY <1>1, <1>3, <2>1 DEF BeginFinalize, ShutdownOK
<1> QED BY <1>2, <1>3

(* The loop quits when it finds the shutdown behind it.                    *)
LEMMA CheckEnds ==
  ASSUME NEW Msg, Inv(Msg), ShutdownOK, MainChecksShutdown
  PROVE  ShutdownOK'
<1>1. posted \in Seq(Msg) /\ shutdownDelay \in Nat /\ ~quit
  BY DEF Inv, DBTypeOK, MQTypeOK, ShutdownOK, MainChecksShutdown,
     CheckShutdown
<1>2. cur[Main] # FinalizeJob
  BY JobsAssumption DEF Inv, MainOK, CallerOK, Callers, MainChecksShutdown,
     CheckShutdown, AllJobs
<1>3. UNCHANGED <<peer, worker, cur, shutdown>> /\ loop' = "get"
  BY DEF MainChecksShutdown, CheckShutdown, dbVars
<1>4. CASE shutdown /\ shutdownDelay > 0
  <2>1. Len(posted') = Len(posted) + 1 /\ posted'[Len(posted')] = ShutdownMsg
        /\ Len(posted') \in DOMAIN posted'
    BY <1>1, <1>4, EndFacts DEF MainChecksShutdown, CheckShutdown, Post
  <2>2. ShutdownMsg \in Elems(posted')
    BY <2>1 DEF Elems
  <2>3. quit' = quit
    BY <1>4 DEF MainChecksShutdown, CheckShutdown
  <2> QED BY <1>1, <1>3, <2>2, <2>3 DEF ShutdownOK
<1>5. CASE ~(shutdown /\ shutdownDelay > 0)
  <2>1. /\ UNCHANGED <<posted, shutdownDelay>>
        /\ quit' = (quit \/ (shutdown /\ posted = <<>>))
    BY <1>5 DEF MainChecksShutdown, CheckShutdown
  <2>2. shutdown => shutdownDelay = 0
    BY <1>1, <1>5
  <2>3. shutdown /\ posted = <<>> => ~peer
    BY <1>1, <1>2, <2>2, EmptyFacts DEF ShutdownOK
  <2>4. quit' => shutdown /\ posted = <<>>
    BY <1>1, <2>1
  <2>5. shutdown /\ ShutdownMsg \notin Elems(posted) /\ shutdownDelay = 0
          => ~peer \/ cur[Main] = FinalizeJob
    BY DEF ShutdownOK
  <2>6. ~peer => worker = "exited"
    BY DEF ShutdownOK
  <2> QED BY <1>3, <2>1, <2>2, <2>3, <2>4, <2>5, <2>6 DEF ShutdownOK
<1> QED BY <1>4, <1>5

(* finalize() has returned.                                                *)
LEMMA JoinedEnds ==
  ASSUME NEW Msg, Inv(Msg), ShutdownOK, Joined
  PROVE  ShutdownOK'
BY DEF Joined, ShutdownOK, mqVars

(* The other steps of the loop.                                            *)
LEMMA OthersEnd ==
  ASSUME NEW Msg, Inv(Msg), ShutdownOK,
         \/ MainInput \/ MainInitiatesShutdown \/ MainHandlerReturns
         \/ MainLoopEnds
  PROVE  ShutdownOK'
<1>1. CASE MainInitiatesShutdown
  <2>1. posted \in Seq(Msg) /\ ~quit
    BY <1>1 DEF Inv, DBTypeOK, MQTypeOK, ShutdownOK, MainInitiatesShutdown,
       InitiateShutdown
  <2>2. Len(posted') = Len(posted) + 1 /\ posted'[Len(posted')] = ShutdownMsg
        /\ Len(posted') \in DOMAIN posted'
    BY <1>1, <2>1, EndFacts
       DEF MainInitiatesShutdown, InitiateShutdown, Post
  <2>3. ShutdownMsg \in Elems(posted')
    BY <2>2 DEF Elems
  <2> QED BY <1>1, <2>1, <2>3 DEF MainInitiatesShutdown, InitiateShutdown,
             dbVars, ShutdownOK
<1>2. CASE MainInput \/ MainHandlerReturns \/ MainLoopEnds
  BY <1>2 DEF MainInput, Input, MainHandlerReturns, HandlerReturns,
     MainLoopEnds, LoopEnds, dbVars, ShutdownOK
<1> QED BY <1>1, <1>2

(* The shutdown is not lost, and the loop does not quit before it.         *)
LEMMA NextEnds ==
  ASSUME NEW Msg, MessagesOK(Msg), Inv(Msg), ShutdownOK, [Next]_vars
  PROVE  ShutdownOK'
<1>1. ASSUME NEW t \in Callers, CallerNext(t) PROVE ShutdownOK'
  BY <1>1, CallerEnds
<1>2. CASE WorkerNext
  BY <1>2, WorkerEnds
<1>3. CASE MainNext
  <2>1. CASE DispatchDone
    <3>1. Head(posted) # ShutdownMsg
      BY <2>1, JobsAssumption DEF DispatchDone, AllJobs, Jobs
    <3> QED BY <2>1, <3>1, MessageEnds DEF DispatchDone
  <2> QED BY <1>3, <2>1, ShutdownEnters, JoinedEnds, OthersEnd, CheckEnds
          DEF MainNext
<1>4. CASE Done \/ UNCHANGED vars
  BY <1>4 DEF Done, vars, mqVars, dbVars, ShutdownOK
<1> QED BY <1>1, <1>2, <1>3, <1>4 DEF Next

(* The shutdown has not begun when the database is opened.                 *)
LEMMA InitEnds == Init => ShutdownOK
BY DEF Init, MQInit, ShutdownOK

(* The invariant of the shutdown.                                          *)
LEMMA SpecEnds == Spec => []ShutdownOK
<1>1. MessagesOK(DBMessages)
  BY JobsAssumption DEF MessagesOK, DBMessages, AllJobs, Jobs, AsyncJobs
<1>2. Inv(DBMessages) /\ ShutdownOK /\ [Next]_vars => ShutdownOK'
  BY <1>1, NextEnds
<1> QED BY <1>2, InitEnds, SpecInv, PTL DEF Spec
-----------------------------------------------------------------------------
(* The finalize job is the last one, unless a background thread adds one.  *)
FinalizeIsLast ==
  /\ \A i \in DOMAIN queue : queue[i] = FinalizeJob => i = Len(queue)
  /\ running = FinalizeJob => queue = <<>>
  /\ job = "closed" => queue = <<>>

(* The dispatch thread adds nothing once the finalize job is in the list:  *)
(* it waits in finalize() until peer is null.                              *)
LEMMA AddJobKeepsLast ==
  ASSUME NEW Msg, Inv(Msg), FinalizeIsLast, AddJob(Main)
  PROVE  FinalizeIsLast'
<1>1. pc[Main] = "add" /\ cur[Main] \in AllJobs /\ Main \in Callers
  BY DEF Callers, AddJob, Inv, CallerOK
<1>2. peer /\ job # "closed" /\ FinalizeJob \notin Elems(queue) \union {running}
  BY <1>1 DEF Inv, MainOK, FinalizeOnce
<1>3. queue \in Seq(AllJobs)
  BY DEF Inv, DBTypeOK
<1>4. \A i \in DOMAIN queue : queue[i] # FinalizeJob
  BY <1>2 DEF Elems
<1>5. \A i \in DOMAIN Append(queue, cur[Main]) :
         Append(queue, cur[Main])[i] = FinalizeJob
           => i = Len(Append(queue, cur[Main]))
  BY <1>1, <1>3, <1>4, EndFacts
<1> QED BY <1>1, <1>2, <1>5 DEF AddJob, FinalizeIsLast

(* The worker takes the finalize job from the end of the list.             *)
LEMMA RemoveJobKeepsLast ==
  ASSUME NEW Msg, Inv(Msg), FinalizeIsLast, RemoveJob
  PROVE  FinalizeIsLast'
<1>1. queue \in Seq(AllJobs) /\ queue # <<>>
  BY DEF Inv, DBTypeOK, RemoveJob
<1>2. \A i \in DOMAIN Tail(queue) :
         Tail(queue)[i] = FinalizeJob => i = Len(Tail(queue))
  BY <1>1, StartFacts DEF FinalizeIsLast
<1>3. Head(queue) = FinalizeJob => Tail(queue) = <<>>
  BY <1>1, StartFacts DEF FinalizeIsLast
<1> QED BY <1>1, <1>2, <1>3 DEF RemoveJob, FinalizeIsLast

(* Running a job leaves the list alone.                                    *)
LEMMA RunKeepsLast ==
  ASSUME NEW Msg, Inv(Msg), FinalizeIsLast,
         RunAsync \/ RunBlocking \/ RunFinalize
  PROVE  FinalizeIsLast'
<1>1. NoJob # FinalizeJob /\ queue' = queue /\ running' = NoJob
  BY JobsAssumption DEF AllJobs, RunAsync, RunBlocking, RunFinalize
<1>2. job' = "closed" => job = "closed" \/ running = FinalizeJob
  BY DEF RunAsync, RunBlocking, RunFinalize, mqVars
<1> QED BY <1>1, <1>2 DEF FinalizeIsLast

(* While no background thread is about to add a job, the finalize job      *)
(* stays the last one.                                                     *)
LEMMA LastStays ==
  ASSUME NEW Msg, Inv(Msg), FinalizeIsLast, [Next]_vars,
         \A t \in Threads : pc[t] # "add"
  PROVE  FinalizeIsLast'
<1>1. ASSUME NEW t \in Callers, CallerNext(t) PROVE FinalizeIsLast'
  <2>1. CASE AddJob(t)
    <3>1. t = Main
      BY <2>1 DEF AddJob, Callers
    <3> QED BY <2>1, <3>1, AddJobKeepsLast
  <2>2. CASE SignalWorker(t)
    BY <2>2 DEF SignalWorker, FinalizeIsLast
  <2>3. CASE Return(t) \/ \E j \in Jobs : Call(t, j)
    BY <2>3 DEF Return, Call, FinalizeIsLast
  <2> QED BY <1>1, <2>1, <2>2, <2>3 DEF CallerNext
<1>2. CASE WorkerNext
  <2>1. CASE Wake \/ WorkerExits \/ QueueIsEmpty
    BY <2>1 DEF Wake, WorkerExits, QueueIsEmpty, FinalizeIsLast
  <2> QED BY <1>2, <2>1, RemoveJobKeepsLast, RunKeepsLast DEF WorkerNext
<1>3. CASE MainNext
  <2>1. UNCHANGED <<queue, job, running>>
    BY <1>3 DEF MainNext, DispatchDone, PutOffShutdown, BeginFinalize, Joined,
       MainInput, MainInitiatesShutdown, MainHandlerReturns,
       MainChecksShutdown, MainLoopEnds, dbVars
  <2> QED BY <2>1 DEF FinalizeIsLast
<1>4. CASE Done \/ UNCHANGED vars
  BY <1>4 DEF Done, vars, dbVars, FinalizeIsLast
<1> QED BY <1>1, <1>2, <1>3, <1>4 DEF Next

(* JobFinalize closes the provider behind the last job.                    *)
ClosedIsIdle == job = "closed" => running = NoJob /\ provider = "closed"

LEMMA ClosedStaysIdle ==
  ASSUME NEW Msg, Inv(Msg), FinalizeIsLast, ClosedIsIdle, [Next]_vars
  PROVE  ClosedIsIdle'
<1>1. ASSUME NEW t \in Callers, CallerNext(t) PROVE ClosedIsIdle'
  BY <1>1 DEF CallerNext, Call, AddJob, SignalWorker, Return, ClosedIsIdle
<1>2. CASE WorkerNext
  <2>1. CASE Wake \/ WorkerExits \/ QueueIsEmpty
    BY <2>1 DEF Wake, WorkerExits, QueueIsEmpty, ClosedIsIdle
  <2>2. CASE RemoveJob
    BY <2>2 DEF RemoveJob, FinalizeIsLast, ClosedIsIdle
  <2>3. CASE RunAsync \/ RunBlocking
    <3>1. job # "closed"
      BY <2>3, JobsAssumption
         DEF RunAsync, RunBlocking, ClosedIsIdle, AllJobs, Jobs
    <3> QED BY <2>3, <3>1 DEF RunAsync, RunBlocking, ClosedIsIdle
  <2>4. CASE RunFinalize
    BY <2>4 DEF RunFinalize, ClosedIsIdle
  <2> QED BY <1>2, <2>1, <2>2, <2>3, <2>4 DEF WorkerNext
<1>3. CASE MainNext
  <2>1. UNCHANGED <<job, running, provider>>
    BY <1>3 DEF MainNext, DispatchDone, PutOffShutdown, BeginFinalize, Joined,
       MainInput, MainInitiatesShutdown, MainHandlerReturns,
       MainChecksShutdown, MainLoopEnds, dbVars
  <2> QED BY <2>1 DEF ClosedIsIdle
<1>4. CASE Done \/ UNCHANGED vars
  BY <1>4 DEF Done, vars, dbVars, ClosedIsIdle
<1> QED BY <1>1, <1>2, <1>3, <1>4 DEF Next

(* finalize() returns to a drained, closed database: every job was run     *)
(* before the provider was closed, so that nothing is left to use it.      *)
(* With background threads that call at the same time this fails.          *)
THEOREM FinalizeDrains ==
  ASSUME Threads = {}
  PROVE  Spec => []FinalizedIsDrained
<1>1. Init => FinalizeIsLast /\ ClosedIsIdle
  BY JobsAssumption DEF Init, FinalizeIsLast, ClosedIsIdle, AllJobs
<1>2. Inv(DBMessages) /\ FinalizeIsLast /\ [Next]_vars => FinalizeIsLast'
  BY LastStays
<1>3. Inv(DBMessages) /\ FinalizeIsLast /\ ClosedIsIdle /\ [Next]_vars
        => ClosedIsIdle'
  BY ClosedStaysIdle
<1>4. Inv(DBMessages) /\ FinalizeIsLast /\ ClosedIsIdle /\ ShutdownOK
        => FinalizedIsDrained
  BY DEF Inv, FinalizeOnce, FinalizeIsLast, ClosedIsIdle, ShutdownOK,
     FinalizedIsDrained
<1> QED BY <1>1, <1>2, <1>3, <1>4, SpecInv, SpecEnds, PTL DEF Spec

(* The message loop ends only behind a finished finalize(): the last job   *)
(* of the dispatch thread was run and its callback dispatched.             *)
THEOREM NothingIsLeft ==
  ASSUME Threads = {}
  PROVE  Spec => []QuitLeavesNothing
<1>1. Inv(DBMessages) /\ ShutdownOK /\ FinalizedIsDrained => QuitLeavesNothing
  BY DEF ShutdownOK, FinalizedIsDrained, QuitLeavesNothing
<1> QED BY <1>1, SpecInv, SpecEnds, FinalizeDrains, PTL
-----------------------------------------------------------------------------
(* Database implements JobService, liveness aside.                         *)

(* The accepted jobs: the one being run and the list.                      *)
Pending == IF running = NoJob THEN queue ELSE <<running>> \o queue

(* Pushing a job in front of a list.                                       *)
LEMMA FrontFacts ==
  ASSUME NEW S, NEW s \in Seq(S), NEW r \in S
  PROVE  /\ <<r>> \o s \in Seq(S) /\ <<r>> \o s # <<>>
         /\ Head(<<r>> \o s) = r /\ Tail(<<r>> \o s) = s
         /\ \A x \in S : Append(<<r>> \o s, x) = <<r>> \o Append(s, x)
         /\ s # <<>> => <<Head(s)>> \o Tail(s) = s
         /\ Service!Members(<<r>> \o s) = {r} \union Elems(s)
<1>1. /\ <<r>> \o s \in Seq(S) /\ <<r>> \o s # <<>>
      /\ Head(<<r>> \o s) = r
  OBVIOUS
<1>2. Tail(<<r>> \o s) = s
  OBVIOUS
<1>3. ASSUME NEW x \in S
      PROVE  Append(<<r>> \o s, x) = <<r>> \o Append(s, x)
  OBVIOUS
<1>4. s # <<>> => <<Head(s)>> \o Tail(s) = s
  OBVIOUS
<1>5. Service!Members(<<r>> \o s) = {r} \union Elems(s)
  <2>1. Elems(<<r>> \o s) = {r} \union Elems(s)
    BY <1>1, <1>2, TailFacts
  <2> QED BY <2>1 DEF Elems, Service!Members
<1> QED BY <1>1, <1>2, <1>3, <1>4, <1>5

(* The mapped state in terms of the lists.                                 *)
LEMMA PendingFacts ==
  ASSUME NEW Msg, Inv(Msg)
  PROVE  /\ Service!Members(Pending) =
              Elems(queue) \union ({running} \ {NoJob})
         /\ Service!Members(posted) = Elems(posted)
         /\ running # NoJob => /\ Pending # <<>>
                               /\ Head(Pending) = running
                               /\ Tail(Pending) = queue
<1>1. queue \in Seq(AllJobs) /\ running \in AllJobs \union {NoJob}
  BY DEF Inv, DBTypeOK
<1>2. CASE running = NoJob
  BY <1>2 DEF Pending, Service!Members, Elems
<1>3. CASE running # NoJob
  <2>1. running \in AllJobs
    BY <1>1, <1>3
  <2>2. Pending = <<running>> \o queue
    BY <1>3 DEF Pending
  <2>3. Service!Members(posted) = Elems(posted)
    BY DEF Service!Members, Elems
  <2>4. /\ <<running>> \o queue # <<>>
        /\ Head(<<running>> \o queue) = running
        /\ Tail(<<running>> \o queue) = queue
        /\ Service!Members(<<running>> \o queue) =
             {running} \union Elems(queue)
    <3> DEFINE S == AllJobs
    <3>1. queue \in Seq(S) /\ running \in S
      BY <1>1, <2>1
    <3> HIDE DEF S
    <3>2. /\ <<running>> \o queue # <<>>
          /\ Head(<<running>> \o queue) = running
      BY <3>1
    <3>3. Tail(<<running>> \o queue) = queue
      BY <3>1
    <3>4. Service!Members(<<running>> \o queue) =
            {running} \union Elems(queue)
      BY <3>1, FrontFacts
    <3> QED BY <3>2, <3>3, <3>4
  <2> QED BY <1>3, <2>2, <2>3, <2>4
<1> QED BY <1>2, <1>3

(* addJob() accepts a job of the executor.                                 *)
LEMMA AddJobServes ==
  ASSUME NEW Msg, Inv(Msg), NEW t \in Callers, AddJob(t)
  PROVE  Service!Next
<1>1. queue \in Seq(AllJobs) /\ running \in AllJobs \union {NoJob}
      /\ cur[t] \in AllJobs
  BY DEF Inv, DBTypeOK, CallerOK, AddJob
<1>2. cur[t] \notin Service!Members(Pending) \union Service!Members(posted)
                    \union answered
  BY PendingFacts DEF Inv, Places, AddJob
<1>3. Pending' = Append(Pending, cur[t])
  BY <1>1, FrontFacts DEF Pending, AddJob
<1>4. Service!Accept(cur[t])
  BY <1>2, <1>3 DEF Service!Accept, Pending, AddJob, mqVars
<1> QED BY <1>1, <1>4 DEF Service!Next, AllJobs, Jobs

(* removeJob() is no step of the executor: the job is still the oldest     *)
(* accepted one.                                                           *)
LEMMA RemoveJobServes ==
  ASSUME NEW Msg, Inv(Msg), RemoveJob
  PROVE  UNCHANGED Service!svars
<1>1. queue \in Seq(AllJobs) /\ queue # <<>> /\ running = NoJob
  BY DEF Inv, DBTypeOK, WorkerOK, RemoveJob
<1>2. Head(queue) \in AllJobs /\ <<Head(queue)>> \o Tail(queue) = queue
  BY <1>1
<1>3. Head(queue) # NoJob
  BY <1>2, JobsAssumption
<1>4. Pending' = Pending
  BY <1>1, <1>2, <1>3 DEF Pending, RemoveJob
<1> QED BY <1>4 DEF Service!svars, Pending, RemoveJob, mqVars

(* run() executes the oldest accepted job.                                 *)
LEMMA RunServes ==
  ASSUME NEW Msg, Inv(Msg), RunAsync \/ RunBlocking \/ RunFinalize
  PROVE  Service!Next
<1>1. running # NoJob
  BY DEF Inv, WorkerOK, RunAsync, RunBlocking, RunFinalize
<1>2. Pending # <<>> /\ Head(Pending) = running /\ Tail(Pending) = queue
  BY <1>1, PendingFacts
<1>3. Pending' = queue
  BY DEF Pending, RunAsync, RunBlocking, RunFinalize
<1>4. RunAsync => Service!ExecuteAsync
  BY <1>2, <1>3 DEF Service!ExecuteAsync, Pending, RunAsync, Post
<1>5. RunBlocking => Service!ExecuteBlocking
  BY <1>2, <1>3 DEF Service!ExecuteBlocking, Pending, RunBlocking, mqVars
<1>6. RunFinalize => Service!ExecuteStop
  BY <1>2, <1>3 DEF Service!ExecuteStop, Pending, RunFinalize, mqVars
<1> QED BY <1>4, <1>5, <1>6 DEF Service!Next, Service!Execute

(* A handler takes the oldest message.                                     *)
LEMMA DispatchServes ==
  ASSUME NEW Msg, Inv(Msg), DispatchDone \/ PutOffShutdown \/ BeginFinalize
  PROVE  Service!Next
<1>1. Service!Deliver
  BY DEF Service!Deliver, Pending, DispatchDone, PutOffShutdown,
         BeginFinalize, GetMessage, dbVars
<1> QED BY <1>1 DEF Service!Next

(* addJobAndWait() takes the answer of its job.                            *)
LEMMA ReturnServes ==
  ASSUME NEW Msg, Inv(Msg), NEW t \in Callers, Return(t)
  PROVE  Service!Next
<1>1. cur[t] \in BlockingJobs
  BY DEF Inv, CallerOK, Return
<1>2. Service!Return(cur[t])
  BY DEF Service!Return, Return, mqVars
<1> QED BY <1>1, <1>2 DEF Service!Next

(* Posting "shutdown" puts a notice behind the messages, if anything.      *)
LEMMA AnnounceServes ==
  ASSUME MainInitiatesShutdown \/ MainChecksShutdown
  PROVE  Service!Next \/ UNCHANGED Service!svars
<1>1. UNCHANGED <<queue, running, answered>>
  BY DEF MainInitiatesShutdown, MainChecksShutdown, dbVars
<1>2. posted' = Append(posted, ShutdownMsg) \/ posted' = posted
  BY DEF MainInitiatesShutdown, MainChecksShutdown, InitiateShutdown,
         CheckShutdown, Post
<1> QED BY <1>1, <1>2 DEF Service!Next, Service!Announce, Service!svars

(* No other step changes what the executor shows.                          *)
LEMMA OthersServe ==
  ASSUME \/ \E t \in Callers, j \in Jobs : Call(t, j)
         \/ \E t \in Callers : SignalWorker(t)
         \/ Wake \/ WorkerExits \/ QueueIsEmpty \/ Joined
         \/ MainInput \/ MainHandlerReturns \/ MainLoopEnds
         \/ Done \/ UNCHANGED vars
  PROVE  UNCHANGED Service!svars
<1>1. UNCHANGED <<queue, running, answered, posted>>
  BY DEF Call, SignalWorker, Wake, WorkerExits, QueueIsEmpty, Joined,
         MainInput, Input, MainHandlerReturns, HandlerReturns, MainLoopEnds,
         LoopEnds, Done, vars, mqVars, dbVars
<1> QED BY <1>1 DEF Service!svars

(* Whatever the number of threads and the order of their calls, Database   *)
(* is a serial executor: jobs are run one at a time, in the order they     *)
(* were added, each once, and their callbacks are dispatched in that order.*)
THEOREM DatabaseIsSerial == Spec => ServiceOrder
<1>1. Init => Service!Init
  BY DEF Init, MQInit, Service!Init
<1>2. Inv(DBMessages) /\ [Next]_vars => [Service!Next]_(Service!svars)
  <2> SUFFICES ASSUME Inv(DBMessages), [Next]_vars
               PROVE  Service!Next \/ UNCHANGED Service!svars
    OBVIOUS
  <2>1. ASSUME NEW t \in Callers, CallerNext(t)
        PROVE  Service!Next \/ UNCHANGED Service!svars
    BY <2>1, AddJobServes, ReturnServes, OthersServe DEF CallerNext
  <2>2. CASE WorkerNext
    BY <2>2, RemoveJobServes, RunServes, OthersServe DEF WorkerNext
  <2>3. CASE MainNext
    BY <2>3, DispatchServes, AnnounceServes, OthersServe DEF MainNext
  <2>4. CASE Done \/ UNCHANGED vars
    BY <2>4, OthersServe
  <2> QED BY <2>1, <2>2, <2>3, <2>4 DEF Next
<1> QED BY <1>1, <1>2, SpecInv, PTL DEF Spec, ServiceOrder, Service!SafeSpec
=============================================================================
