---------------------------- MODULE MCContainers ----------------------------
(* The containers of tiny.h, the job list of Database.cpp and the tree of  *)
(* drop targets of DnD.cpp in one run.  They share nothing: a behaviour    *)
(* uses one of them, chosen at the start, and leaves the others as they    *)
(* are constructed.                                                        *)
EXTENDS HashMap, JobList, ArrayList

CONSTANTS
  o1, o2,                          \* objects
  e1, e2, e3,                      \* memory for the entries of a LinkedList
  j1, j2, j3, t1, t2               \* jobs, threads that add them

VARIABLES
  part,                                                   \* what is used
  listHead, listNext, listPrev, listData, listCount, listModified,
  listIter, listStopped,
  tree, refs

listVars == <<listHead, listNext, listPrev, listData, listCount, listModified,
              listIter, listStopped>>
treeVars == <<tree, refs>>
allVars == <<part, mapVars, arrayVars, listVars, jobVars, treeVars>>

MCObjects == {o1, o2}
MCJobs == {j1, j2, j3}
MCAdders == {t1, t2}

(* Growing: five keys, of which some share a chain in tables of 5, 7 or    *)
(* 10; nine modifications make the table grow twice and shrink.  Walking:  *)
(* three keys, two of them in one chain, with two values.  Untidy: loops   *)
(* that do what no loop of the program should.                             *)
MCKeys == {0, 5, 1, 7, 12}
MCHash == [k \in MCKeys |-> k]
Growing == [keys |-> MCKeys, vals |-> {o1}, habits |-> {}, limit |-> 9]
Walking == [keys |-> {0, 5, 1}, vals |-> MCObjects, habits |-> {}, limit |-> 6]
Untidy  == [keys |-> {0, 5, 1}, vals |-> {o1},
            habits |-> {"putSame", "leaveEarly"}, limit |-> 5]
MCUses == {Growing, Walking, Untidy}

EntryList == INSTANCE LinkedList
  WITH Entries <- {e1, e2, e3}, MaxModified <- 5,
       head <- listHead, next <- listNext, prev <- listPrev, data <- listData,
       count <- listCount, modified <- listModified, iter <- listIter,
       stopped <- listStopped

Targets == INSTANCE DropTargets WITH Windows <- 1..5

ASSUME /\ ArrayListAssumption /\ JobListAssumption
       /\ EntryList!LinkedListAssumption /\ Targets!DropTargetsAssumption

Init ==
  /\ part \in {"map", "array", "list", "jobs", "targets"}
  /\ MapInit /\ ArrayInit /\ EntryList!Init /\ JobsInit /\ Targets!TreeInit
  /\ part # "map" => use = Growing

Next ==
  \/ /\ part = "map" /\ MapNext
     /\ UNCHANGED <<part, arrayVars, listVars, jobVars, treeVars>>
  \/ /\ part = "array" /\ ArrayNext
     /\ UNCHANGED <<part, mapVars, listVars, jobVars, treeVars>>
  \/ /\ part = "list" /\ EntryList!Next
     /\ UNCHANGED <<part, mapVars, arrayVars, jobVars, treeVars>>
  \/ /\ part = "jobs" /\ JobsNext
     /\ UNCHANGED <<part, mapVars, arrayVars, listVars, treeVars>>
  \/ /\ part = "targets" /\ Targets!TreeNext
     /\ UNCHANGED <<part, mapVars, arrayVars, listVars, jobVars>>

Spec == Init /\ [][Next]_allVars

-----------------------------------------------------------------------------
(* What the containers are inside: the array with room for one more and    *)
(* zero behind its length, the lists closed in both directions and what an *)
(* iterator or the worker stands on in the list still, each node of the    *)
(* tree of drop targets where the search for it comes.                     *)
WellFormed ==
  /\ RoomToAdd /\ RestIsZero
  /\ EntryList!Ring /\ EntryList!IteratorFollows
  /\ Circular /\ RemoverFindsJob
  /\ Targets!TreeTypeOK /\ Targets!RefsAreFound

(* The containers are well formed.  A walk over a HashMap returns all it   *)
(* holds; ArrayList and LinkedList are sequences; and the tree of drop     *)
(* targets, grown and torn apart, is a map.                                *)
ContainersRefine ==
  /\ []WellFormed
  /\ WalkReturnsAll /\ IsSequence
  /\ EntryList!IsSequence /\ Targets!IsMap
=============================================================================
