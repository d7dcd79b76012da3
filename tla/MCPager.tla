------------------------------- MODULE MCPager ------------------------------
(* The pager with two pages besides the first, under three circumstances.  *)
EXTENDS Pager

CONSTANTS a, b

MCData == {2, 3}
MCValues == {a, b}

(* Pages are spilled, freed and allocated again while a rollback happens   *)
(* or the process is killed; the same while the power fails; and a cursor  *)
(* keeps the cache in use over two rollbacks.                              *)
Killed == [leaves |-> {3}, spilled |-> {2, 3}, cursors |-> FALSE,
           statements |-> TRUE, faults |-> {"kill", "rollback"},
           maxFaults |-> 1, maxChanges |-> 4]
Power  == [Killed EXCEPT !.faults = {"power"}, !.maxChanges = 3]
Kept   == [leaves |-> {}, spilled |-> {}, cursors |-> TRUE,
           statements |-> TRUE, faults |-> {"rollback"},
           maxFaults |-> 2, maxChanges |-> 5]
MCWorlds == {Killed, Power, Kept}
=============================================================================
