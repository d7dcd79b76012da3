----------------------------- MODULE DragTracker -----------------------------
(***************************************************************************)
(* DnD::doDragDrop: a message loop of its own, run by some handler of the  *)
(* dispatch thread, that tracks the mouse over the registered targets, and *)
(* DnD::fini.  What a target may rely on is the contract of IDropTarget:   *)
(* DragEnter, any number of DragOver, then one DragLeave or Drop.          *)
(***************************************************************************)
EXTENDS DropTargets

CONSTANTS
  Parent,    \* GetParent(): of a window, or Null
  MaxDrags,  \* bound: calls of doDragDrop()
  MaxTurns,  \* bound: calls of registerDragDrop()
  Habits     \* "revoke": targets are revoked during a drag, too;
             \* "fail": QueryContinueDrag() may fail; "keep": the
             \* application may end without revoking its targets;
             \* "quit": the application quits during a drag

DragTrackerAssumption ==
  /\ Parent \in [Windows -> Windows \cup {Null}]
  /\ MaxDrags \in Nat /\ MaxTurns \in Nat
  /\ Habits \subseteq {"revoke", "fail", "keep", "quit"}

VARIABLES
  at,          \* "loop" of the application, "drag", "fini" or "ended"
  dragTarget,  \* of the tracker: the object, or Null
  hwndTarget,  \* of the tracker: the window under the mouse, or Null
  esc, done,   \* of the tracker
  inside,      \* objects that were entered and not left
  misused,     \* history: calls against the contract
  quit,        \* "no", "posted", "seen" by the message loop or "lost"
  drags, turns

dragVars == <<dragTarget, hwndTarget, esc, done, inside, misused>>
vars == <<treeVars, at, dragVars, quit, drags, turns>>

Init ==
  /\ TreeInit
  /\ at = "loop"
  /\ dragTarget = Null /\ hwndTarget = Null /\ esc = FALSE /\ done = FALSE
  /\ inside = {} /\ misused = {}
  /\ quit = "no"
  /\ drags = 0 /\ turns = 0

---------------------------------------------------------------------------
(* What other code does, in handlers of either message loop.               *)

DragLoops == at = "drag" /\ ~done

Register(w, o) ==
  /\ at = "loop" \/ DragLoops
  /\ turns < MaxTurns
  /\ turns' = turns + 1
  /\ RegisterDragDrop(w, o)
  /\ UNCHANGED <<at, dragVars, quit, drags>>

Revoke(w) ==
  /\ at = "loop" \/ (DragLoops /\ "revoke" \in Habits)
  /\ RevokeDragDrop(w)
  /\ UNCHANGED <<at, dragVars, quit, drags, turns>>

PostQuit ==
  /\ at = "loop" \/ (DragLoops /\ "quit" \in Habits)
  /\ quit = "no"
  /\ quit' = "posted"
  /\ UNCHANGED <<treeVars, at, dragVars, drags, turns>>

StartDrag ==
  /\ at = "loop" /\ quit = "no"
  /\ drags < MaxDrags
  /\ drags' = drags + 1
  /\ at' = "drag"
  /\ dragTarget' = Null /\ hwndTarget' = Null
  /\ esc' = FALSE /\ done' = FALSE
  /\ UNCHANGED <<treeVars, inside, misused, quit, turns>>

---------------------------------------------------------------------------
(* A target's registration is all that keeps it alive: the tracker takes   *)
(* no reference of its own.                                                *)
Used(o, wasInside) ==
  IF refs[o] = 0 \/ (o \in inside) # wasInside THEN {o} ELSE {}

(* The nearest window at or above w with a target: its object, or Null.    *)
TargetAt(w) ==
  LET Up[v \in Windows \cup {Null}] ==
        IF v = Null THEN Null
        ELSE IF Finds(tree, v) THEN tree.node[v].dt ELSE Up[Parent[v]]
  IN  Up[w]

(* Mutant: the target that is left is not told.                            *)
TrackMouseMove_NoLeave(w) ==
  LET new == IF w = Null THEN Null ELSE TargetAt(w) IN
  IF dragTarget # Null /\ hwndTarget = w
  THEN /\ misused' = misused \cup Used(dragTarget, TRUE)
       /\ UNCHANGED <<dragTarget, hwndTarget, inside>>
  ELSE /\ dragTarget' = new /\ hwndTarget' = w
       /\ inside' = inside \cup ({new} \ {Null})
       /\ UNCHANGED misused

(* trackMouseMove(), the mouse being over w: DragOver while the window is  *)
(* the same, else DragLeave and DragEnter.                                 *)
TrackMouseMove(w) ==
  LET new == IF w = Null THEN Null ELSE TargetAt(w) IN
  IF dragTarget # Null /\ hwndTarget = w
  THEN /\ misused' = misused \cup Used(dragTarget, TRUE)
       /\ UNCHANGED <<dragTarget, hwndTarget, inside>>
  ELSE /\ dragTarget' = new /\ hwndTarget' = w
       /\ inside' = (inside \ {dragTarget}) \cup ({new} \ {Null})
       /\ misused' = misused \cup
            (IF dragTarget = Null THEN {} ELSE Used(dragTarget, TRUE))

(* trackStateChange(), hr being what the source answers: Drop, DragLeave,  *)
(* or nothing at all if the source fails.                                  *)
TrackStateChange(hr) ==
  /\ done' = (hr # "S_OK")
  /\ IF hr \in {"DROP", "CANCEL"} /\ dragTarget # Null
     THEN /\ misused' = misused \cup Used(dragTarget, TRUE)
          /\ inside' = inside \ {dragTarget}
     ELSE UNCHANGED <<misused, inside>>
  /\ UNCHANGED <<dragTarget, hwndTarget>>

(* A source's QueryContinueDrag(): Escape cancels.                         *)
Answers(escaped) ==
  (IF escaped THEN {"CANCEL"} ELSE {"S_OK", "DROP"})
    \cup (IF "fail" \in Habits THEN {"E_FAIL"} ELSE {})

MouseMove ==
  /\ DragLoops
  /\ \E w \in Windows \cup {Null} : TrackMouseMove(w)
  /\ UNCHANGED <<treeVars, at, esc, done, quit, drags, turns>>

MouseButton ==
  /\ DragLoops
  /\ \E hr \in Answers(esc) : TrackStateChange(hr)
  /\ UNCHANGED <<treeVars, at, esc, quit, drags, turns>>

KeyPress ==
  /\ DragLoops
  /\ \E escape \in BOOLEAN :
       /\ esc' = (esc \/ escape)
       /\ \E hr \in Answers(esc') : TrackStateChange(hr)
  /\ UNCHANGED <<treeVars, at, quit, drags, turns>>

(* GetMessage() returns 0 for WM_QUIT: the drag ends where it is.          *)
DragGetsQuit ==
  /\ DragLoops
  /\ quit = "posted"
  /\ quit' = "lost"
  /\ done' = TRUE
  /\ UNCHANGED <<treeVars, at, dragTarget, hwndTarget, esc, inside, misused,
                 drags, turns>>

(* doDragDrop() returns; what it knew goes with its stack.                 *)
EndDrag ==
  /\ at = "drag" /\ done
  /\ at' = "loop"
  /\ dragTarget' = Null /\ hwndTarget' = Null
  /\ UNCHANGED <<treeVars, esc, done, inside, misused, quit, drags, turns>>

---------------------------------------------------------------------------
(* The message loop of the application gets WM_QUIT; its windows have      *)
(* revoked their targets, if they do that at all.                          *)
LoopGetsQuit ==
  /\ at = "loop"
  /\ quit = "posted"
  /\ Registered = {} \/ "keep" \in Habits
  /\ quit' = "seen"
  /\ at' = "fini"
  /\ UNCHANGED <<treeVars, dragVars, drags, turns>>

(* fini() calls RevokeDragDrop, a function of OLE32 that knows nothing of  *)
(* the tree, as long as the tree is not empty.                             *)
Fini ==
  /\ at = "fini"
  /\ tree.root = Null
  /\ at' = "ended"
  /\ UNCHANGED <<treeVars, dragVars, quit, drags, turns>>

Other == \/ \E w \in Windows, o \in Objects : Register(w, o)
         \/ \E w \in Windows : Revoke(w)
         \/ PostQuit \/ StartDrag
Drag == MouseMove \/ MouseButton \/ KeyPress \/ DragGetsQuit \/ EndDrag

Next == Other \/ Drag \/ LoopGetsQuit \/ Fini

(* The dispatch thread runs; neither input nor drags need come.            *)
Spec == Init /\ [][Next]_vars /\ WF_vars(LoopGetsQuit \/ Fini)

---------------------------------------------------------------------------
DragTypeOK ==
  /\ at \in {"loop", "drag", "fini", "ended"}
  /\ dragTarget \in Objects \cup {Null}
  /\ hwndTarget \in Windows \cup {Null}
  /\ esc \in BOOLEAN /\ done \in BOOLEAN
  /\ inside \subseteq Objects /\ misused \subseteq Objects
  /\ quit \in {"no", "posted", "seen", "lost"}

(* The contract of IDropTarget: the objects that think the drag is over    *)
(* them are the one the tracker thinks it is over, so that after the drag  *)
(* there is none; and none is called that its window has revoked.          *)
ContractIsKept ==
  /\ misused = {}
  /\ inside = IF DragLoops THEN {dragTarget} \ {Null} ELSE {}

(* What "an equivalent that does not swallow messages" promises of the     *)
(* last message: WM_QUIT gets to the message loop of the application.      *)
QuitIsKept == quit # "lost"

(* fini() lets the application end, with the targets DnD's own registry    *)
(* still holds.                                                            *)
FiniEnds == [](at = "fini" => <>(at = "ended"))
===============================================================================
