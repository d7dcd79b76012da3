---------------------------- MODULE Transactions ----------------------------
(***************************************************************************)
(* What the pager promises the B-tree above it: pages that are changed by  *)
(* transactions, "atomic commit and rollback" (pager.c, its first          *)
(* comment), and statements inside of a transaction that can be rolled     *)
(* back alone.  A page of the freelist has no content: None.               *)
(***************************************************************************)
CONSTANTS Data, Values, None

VARIABLES
  committed,  \* content of the pages after the last transaction
  current,    \* content as the B-tree sees it
  mark        \* content when the statement began, or None

vars == <<committed, current, mark>>

Contents == [Data -> Values \union {None}]

Init ==
  /\ committed \in Contents
  /\ current = committed
  /\ mark = None

Write(pg, v) ==
  /\ current' = [current EXCEPT ![pg] = v]
  /\ UNCHANGED <<committed, mark>>

BeginStmt ==
  /\ mark' = current
  /\ UNCHANGED <<committed, current>>

RollbackStmt ==
  /\ mark # None
  /\ current' = mark /\ mark' = None
  /\ UNCHANGED committed

CommitStmt ==
  /\ mark' = None
  /\ UNCHANGED <<committed, current>>

Commit ==
  /\ committed' = current
  /\ mark' = None
  /\ UNCHANGED current

\* Also what a crash and the recovery come to.
Rollback ==
  /\ current' = committed /\ mark' = None
  /\ UNCHANGED committed

Next ==
  \/ \E pg \in Data, v \in Values \union {None} : Write(pg, v)
  \/ BeginStmt \/ RollbackStmt \/ CommitStmt
  \/ Commit \/ Rollback

Spec == Init /\ [][Next]_vars
=============================================================================
