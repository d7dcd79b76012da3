----------------------------- MODULE AtomicFile -----------------------------
(***************************************************************************)
(* What the pager promises of a database file that several processes use:  *)
(* "atomic commit and rollback", and never "two processes [...] writing    *)
(* the same database file simultaneously, or one process [...] reading     *)
(* the database while another is writing" (pager.c, its first comment).    *)
(*                                                                         *)
(* Every transaction writes every page, so that the file is described by   *)
(* the number of transactions committed to it.                             *)
(***************************************************************************)
EXTENDS Naturals

CONSTANTS Procs, Pages, None

VARIABLES
  committed,  \* number of transactions committed
  view        \* of each process: for each page the version it has read

avars == <<committed, view>>

Unread == [pg \in Pages |-> None]
Whole(v) == [pg \in Pages |-> v]

Init ==
  /\ committed = 0
  /\ view = [p \in Procs |-> Unread]

\* A page is read, always in the version last committed.
Read(p, pg) ==
  /\ view[p][pg] = None
  /\ view' = [view EXCEPT ![p][pg] = committed]
  /\ UNCHANGED committed

\* A transaction based on what is committed now: nobody else is reading.
Commit(p) ==
  /\ view[p] = Whole(committed)
  /\ \A q \in Procs \ {p} : view[q] = Unread
  /\ committed' = committed + 1
  /\ view' = [view EXCEPT ![p] = Whole(committed')]

Forget(p) ==
  /\ view' = [view EXCEPT ![p] = Unread]
  /\ UNCHANGED committed

Next ==
  \E p \in Procs :
    \/ \E pg \in Pages : Read(p, pg)
    \/ Commit(p)
    \/ Forget(p)

Spec == Init /\ [][Next]_avars
=============================================================================
