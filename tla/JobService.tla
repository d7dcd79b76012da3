----------------------------- MODULE JobService -----------------------------
(***************************************************************************)
(* What Database promises its clients: a serial executor.  Accepted jobs   *)
(* are executed one at a time in the order they were accepted.  Executing  *)
(* an asynchronous job queues its callback, and callbacks are delivered in *)
(* that same order, once each; executing a blocking job answers its caller *)
(* once.  A stop job is executed without an answer.  Notices are the other *)
(* messages that share the queue of callbacks.                             *)
(***************************************************************************)
EXTENDS Naturals, Sequences

CONSTANTS Async, Blocking, Stop, Notice

VARIABLES
  pending,     \* accepted jobs not yet executed, oldest first
  delivering,  \* callbacks and notices not yet delivered, oldest first
  answers      \* blocking jobs executed whose caller has not returned

svars == <<pending, delivering, answers>>

Members(s) == {s[i] : i \in DOMAIN s}

Init == pending = <<>> /\ delivering = <<>> /\ answers = {}

(* A job is accepted again only after its previous answer was taken.       *)
Accept(j) ==
  /\ j \notin Members(pending) \union Members(delivering) \union answers
  /\ pending' = Append(pending, j)
  /\ UNCHANGED <<delivering, answers>>

ExecuteAsync ==
  /\ pending # <<>>
  /\ Head(pending) \in Async
  /\ pending' = Tail(pending)
  /\ delivering' = Append(delivering, Head(pending))
  /\ UNCHANGED answers

ExecuteBlocking ==
  /\ pending # <<>>
  /\ Head(pending) \in Blocking
  /\ pending' = Tail(pending)
  /\ answers' = answers \union {Head(pending)}
  /\ UNCHANGED delivering

ExecuteStop ==
  /\ pending # <<>>
  /\ Head(pending) = Stop
  /\ pending' = Tail(pending)
  /\ UNCHANGED <<delivering, answers>>

Execute == ExecuteAsync \/ ExecuteBlocking \/ ExecuteStop

Deliver ==
  /\ delivering # <<>>
  /\ delivering' = Tail(delivering)
  /\ UNCHANGED <<pending, answers>>

Return(j) ==
  /\ j \in answers
  /\ answers' = answers \ {j}
  /\ UNCHANGED <<pending, delivering>>

Announce ==
  /\ delivering' = Append(delivering, Notice)
  /\ UNCHANGED <<pending, answers>>

Next ==
  \/ \E j \in Async \union Blocking \union {Stop} : Accept(j)
  \/ Execute
  \/ Deliver
  \/ \E j \in Blocking : Return(j)
  \/ Announce

(* Order and exactly-once.                                                 *)
SafeSpec == Init /\ [][Next]_svars

(* Every accepted job is also executed and every answer taken.             *)
Spec ==
  /\ SafeSpec
  /\ WF_svars(Execute)
  /\ WF_svars(Deliver)
  /\ \A j \in Blocking : WF_svars(Return(j))
=============================================================================
