----------------------------- MODULE DropTargets -----------------------------
(***************************************************************************)
(* The drop targets of DnD.cpp: a binary tree, ordered by window and never *)
(* balanced.  A removed target leaves its place to its left subtree; the   *)
(* right one is inserted anew, as a whole, under its own root.             *)
(***************************************************************************)
EXTENDS Integers, FiniteSets, Functions

CONSTANTS
  Windows,  \* window handles: positive numbers, compared by insert and find
  Objects,  \* IDropTarget objects
  Null

DropTargetsAssumption ==
  /\ Windows \subseteq Nat \ {0}
  /\ Null \notin Windows \cup Objects

VARIABLES
  tree,  \* targets: the root, and the nodes by their windows
  refs   \* references the nodes hold on each object

treeVars == <<tree, refs>>

Node == [prev : Windows \cup {Null}, next : Windows \cup {Null}, dt : Objects]
Registered == DOMAIN tree.node

TreeInit ==
  /\ tree = [root |-> Null, node |-> [w \in {} |-> w]]
  /\ refs = [o \in Objects |-> 0]

(* The node at which the search for w in t ends: its own, or the one that  *)
(* would be its parent.                                                    *)
SearchEnd(t, w) ==
  LET Toward(n) == IF w < n THEN t.node[n].prev ELSE t.node[n].next
      End[n \in DOMAIN t.node] ==
        IF n = w \/ Toward(n) = Null THEN n ELSE End[Toward(n)]
  IN  End[t.root]

(* findDropTarget()                                                        *)
Finds(t, w) == t.root # Null /\ SearchEnd(t, w) = w

(* The node of w, with all that is below it, gets the place the search for *)
(* w ends at.                                                              *)
InsertDropTarget(t, w) ==
  IF t.root = Null THEN [t EXCEPT !.root = w]
  ELSE LET p == SearchEnd(t, w)
       IN  IF w < p THEN [t EXCEPT !.node[p].prev = w]
           ELSE [t EXCEPT !.node[p].next = w]

(* Whatever pointed to the node of w points to v.                          *)
Redirect(t, w, v) ==
  [root |-> IF t.root = w THEN v ELSE t.root,
   node |-> [n \in DOMAIN t.node |->
               [t.node[n] EXCEPT !.prev = IF @ = w THEN v ELSE @,
                                 !.next = IF @ = w THEN v ELSE @]]]

ExtractDropTarget(t, w) ==
  LET n == t.node[w]
      r == Redirect(t, w, n.prev)
      s == IF n.next # Null THEN InsertDropTarget(r, n.next) ELSE r
  IN  [s EXCEPT !.node = Restrict(s.node, DOMAIN s.node \ {w})]

(* registerDragDrop(): an object may be registered for several windows.    *)
RegisterDragDrop(w, o) ==
  /\ ~Finds(tree, w)
  /\ LET new == [prev |-> Null, next |-> Null, dt |-> o]
         t == [tree EXCEPT !.node = [n \in Registered \cup {w} |->
                                       IF n = w THEN new ELSE tree.node[n]]]
     IN  tree' = InsertDropTarget(t, w)
  /\ refs' = [refs EXCEPT ![o] = @ + 1]

RevokeDragDrop(w) ==
  /\ Finds(tree, w)
  /\ tree' = ExtractDropTarget(tree, w)
  /\ refs' = [refs EXCEPT ![tree.node[w].dt] = @ - 1]

TreeNext ==
  \/ \E w \in Windows, o \in Objects : RegisterDragDrop(w, o)
  \/ \E w \in Windows : RevokeDragDrop(w)

TreeSpec == TreeInit /\ [][TreeNext]_treeVars

---------------------------------------------------------------------------
TreeTypeOK ==
  /\ tree.root \in Windows \cup {Null}
  /\ Registered \subseteq Windows
  /\ tree.node \in [Registered -> Node]
  /\ refs \in [Objects -> Nat]

(* Every reference the tree holds belongs to a node that can still be      *)
(* found, and so can be revoked.                                           *)
RefsAreFound ==
  \A o \in Objects :
    refs[o] = Cardinality({w \in Windows :
                             Finds(tree, w) /\ tree.node[w].dt = o})

(* However the tree was grown and torn apart, to findDropTarget() it is a  *)
(* map in which one registration changes one window.                       *)
Map == INSTANCE AssocMap WITH
         Keys <- Windows, Vals <- Objects,
         map <- [w \in {v \in Windows : Finds(tree, v)} |-> tree.node[w].dt]

IsMap == Map!Spec
===============================================================================
