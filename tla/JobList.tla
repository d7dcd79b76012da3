------------------------------ MODULE JobList -------------------------------
(***************************************************************************)
(* The job list inside Database, pointer by pointer: a circular doubly     *)
(* linked list of which head is the first, changed inside a critical       *)
(* section but tested outside of it, by the worker before it removes a job *)
(* and by the dispatch thread before it finalizes.                         *)
(*                                                                         *)
(* Database.tla takes addJob() and removeJob() for single steps on a       *)
(* sequence; here each of their assignments is a step.                     *)
(***************************************************************************)
EXTENDS Naturals, FiniteSets, Sequences

CONSTANTS
  Adders,  \* threads that call addJob()
  Worker,  \* the worker thread
  Jobs,    \* the job objects, as memory: one is used again once it was run
  NoJob

JobListAssumption ==
  /\ Worker \notin Adders
  /\ NoJob \notin Jobs /\ NoJob \notin Adders \cup {Worker}
  /\ IsFiniteSet(Jobs)

VARIABLES
  head, next, prev,  \* the pointers
  lock,              \* the thread inside cs, or NoJob
  pc,                \* the next assignment of each thread
  e                  \* the local e of each thread

jobVars == <<head, next, prev, lock, pc, e>>

Threads == Adders \cup {Worker}

JobsInit ==
  /\ head = NoJob
  /\ next = [j \in Jobs |-> NoJob]
  /\ prev = [j \in Jobs |-> NoJob]
  /\ lock = NoJob
  /\ pc = [t \in Threads |-> "idle"]
  /\ e = [t \in Threads |-> NoJob]

Goto(t, l) == pc' = [pc EXCEPT ![t] = l]

(* The jobs from head on, as the worker will find them; the one that it is *)
(* unlinking is no longer among them.                                      *)
Leaving == IF pc[Worker] \in {"unlink1", "unlink2"} THEN e[Worker] ELSE NoJob
Chain(jobs) ==
  /\ jobs = <<>> <=> head = NoJob
  /\ jobs # <<>> => jobs[1] = head /\ next[jobs[Len(jobs)]] \in {head, Leaving}
  /\ \A i \in 1..(Len(jobs) - 1) :
       /\ next[jobs[i]] = jobs[i + 1]
       /\ jobs[i + 1] \notin {head, Leaving}
Chains == UNION {[1..n -> Jobs] : n \in 0..Cardinality(Jobs)}
List == CHOOSE jobs \in Chains : Chain(jobs)

---------------------------------------------------------------------------
(* addJob(): a new job, then the critical section.                         *)
NewJob(t, j) ==
  /\ pc[t] = "idle"
  /\ \A u \in Threads : e[u] # j
  /\ \A i \in DOMAIN List : List[i] # j
  /\ e' = [e EXCEPT ![t] = j]
  /\ next' = [next EXCEPT ![j] = NoJob]
  /\ prev' = [prev EXCEPT ![j] = NoJob]
  /\ Goto(t, "enter")
  /\ UNCHANGED <<head, lock>>

(* Mutant: the list is tested before the critical section is entered.      *)
EnterAdd_TestFirst(t) ==
  \/ /\ pc[t] = "enter"
     /\ Goto(t, IF head = NoJob THEN "enterempty" ELSE "enternext")
     /\ UNCHANGED <<head, next, prev, lock, e>>
  \/ /\ pc[t] \in {"enterempty", "enternext"}
     /\ lock = NoJob
     /\ lock' = t
     /\ Goto(t, IF pc[t] = "enterempty" THEN "first" ELSE "next")
     /\ UNCHANGED <<head, next, prev, e>>

EnterAdd(t) ==
  /\ pc[t] = "enter"
  /\ lock = NoJob
  /\ lock' = t
  /\ Goto(t, IF head = NoJob THEN "first" ELSE "next")
  /\ UNCHANGED <<head, next, prev, e>>

(* head = e->next = e->prev = e, from the right.                           *)
First(t) ==
  \/ /\ pc[t] = "first"
     /\ prev' = [prev EXCEPT ![e[t]] = e[t]]
     /\ next' = [next EXCEPT ![e[t]] = e[t]]
     /\ Goto(t, "head")
     /\ UNCHANGED <<head, lock, e>>
  \/ /\ pc[t] = "head"
     /\ head' = e[t]
     /\ Goto(t, "leave")
     /\ UNCHANGED <<next, prev, lock, e>>

(* Before the head, which is behind the last.                              *)
Link(t) ==
  \/ /\ pc[t] = "next"
     /\ next' = [next EXCEPT ![e[t]] = head]
     /\ Goto(t, "prev")
     /\ UNCHANGED <<head, prev, lock, e>>
  \/ /\ pc[t] = "prev"
     /\ prev' = [prev EXCEPT ![e[t]] = prev[head]]
     /\ Goto(t, "forth")
     /\ UNCHANGED <<head, next, lock, e>>
  \/ /\ pc[t] = "forth"
     /\ next' = [next EXCEPT ![prev[e[t]]] = e[t]]
     /\ Goto(t, "back")
     /\ UNCHANGED <<head, prev, lock, e>>
  \/ /\ pc[t] = "back"
     /\ prev' = [prev EXCEPT ![next[e[t]]] = e[t]]
     /\ Goto(t, "leave")
     /\ UNCHANGED <<head, next, lock, e>>

LeaveAdd(t) ==
  /\ pc[t] = "leave"
  /\ lock' = NoJob
  /\ e' = [e EXCEPT ![t] = NoJob]
  /\ Goto(t, "idle")
  /\ UNCHANGED <<head, next, prev>>

---------------------------------------------------------------------------
(* The worker's loop and removeJob() test head without the critical        *)
(* section: nobody but the worker makes it null.                           *)
SeeJob ==
  /\ pc[Worker] = "idle"
  /\ head # NoJob
  /\ Goto(Worker, "remove")
  /\ UNCHANGED <<head, next, prev, lock, e>>

EnterRemove ==
  /\ pc[Worker] = "remove"
  /\ lock = NoJob
  /\ lock' = Worker
  /\ Goto(Worker, "take")
  /\ UNCHANGED <<head, next, prev, e>>

Take ==
  /\ pc[Worker] = "take"
  /\ e' = [e EXCEPT ![Worker] = head]
  /\ head' = next[head]
  /\ Goto(Worker, IF next[head] = head THEN "single" ELSE "unlink1")
  /\ UNCHANGED <<next, prev, lock>>

TakeLast ==
  /\ pc[Worker] = "single"
  /\ head' = NoJob
  /\ Goto(Worker, "unlink1")
  /\ UNCHANGED <<next, prev, lock, e>>

Unlink ==
  \/ /\ pc[Worker] = "unlink1"
     /\ next' = [next EXCEPT ![prev[e[Worker]]] = next[e[Worker]]]
     /\ Goto(Worker, "unlink2")
     /\ UNCHANGED <<head, prev, lock, e>>
  \/ /\ pc[Worker] = "unlink2"
     /\ prev' = [prev EXCEPT ![next[e[Worker]]] = prev[e[Worker]]]
     /\ Goto(Worker, "unlock")
     /\ UNCHANGED <<head, next, lock, e>>

LeaveRemove ==
  /\ pc[Worker] = "unlock"
  /\ lock' = NoJob
  /\ Goto(Worker, "run")
  /\ UNCHANGED <<head, next, prev, e>>

(* run() has posted or deleted the job.                                    *)
Run ==
  /\ pc[Worker] = "run"
  /\ e' = [e EXCEPT ![Worker] = NoJob]
  /\ Goto(Worker, "idle")
  /\ UNCHANGED <<head, next, prev, lock>>

AdderNext(t) ==
  \/ \E j \in Jobs : NewJob(t, j)
  \/ EnterAdd(t) \/ First(t) \/ Link(t) \/ LeaveAdd(t)

WorkerNext == SeeJob \/ EnterRemove \/ Take \/ TakeLast \/ Unlink \/ LeaveRemove \/ Run

JobsNext == WorkerNext \/ \E t \in Adders : AdderNext(t)

JobsSpec == JobsInit /\ [][JobsNext]_jobVars

---------------------------------------------------------------------------
(* Outside the critical section the list is circular both ways, and the    *)
(* jobs on the way back from head are those on the way forth.              *)
Circular ==
  lock = NoJob =>
    \A i \in DOMAIN List :
      /\ prev[next[List[i]]] = List[i]
      /\ next[prev[List[i]]] = List[i]

(* removeJob() returns a job whenever the worker calls it, which does not  *)
(* look for null.                                                          *)
RemoverFindsJob == pc[Worker] \in {"remove", "take"} => head # NoJob

(* Assignment by assignment the list is a queue: every addJob() and every  *)
(* removeJob() takes effect at one moment, in order, and no job is lost.   *)
Queue == INSTANCE JobQueue WITH queue <- List
IsQueue == Queue!Spec
=============================================================================
