------------------------------ MODULE JobQueue ------------------------------
(* What the job list of a Database is to its users: a queue.  The worker   *)
(* takes a job only when there is one.                                     *)
EXTENDS Sequences

CONSTANT Jobs

VARIABLE queue

Init == queue = <<>>

Add(j) ==
  /\ \A i \in DOMAIN queue : queue[i] # j
  /\ queue' = Append(queue, j)

Remove == queue # <<>> /\ queue' = Tail(queue)

Next == Remove \/ \E j \in Jobs : Add(j)

Spec == Init /\ [][Next]_queue
=============================================================================
