------------------------------ MODULE MCDesktop -----------------------------
(* What runs on the dispatch thread, in one run: broadcasts with modal     *)
(* loops inside them, the state of the commands, the chain of window       *)
(* procedures, the main window with its dialogs, and drag and drop.  Each  *)
(* is modelled with the part of the others that it depends on, so a        *)
(* behaviour is of one of them, chosen at the start, and the others rest.  *)
EXTENDS Broadcast, FrameWindow, WindowHook

CONSTANTS toolBar, button, views, s1, s2, o1, o2

VARIABLES
  part,
  updates, about, canPack, menu, enabledButtons, failed, inputs,  \* CommandState
  tree, refs, at, dragTarget, hwndTarget, esc, done, inside, \* DragTracker
  misused, dragQuit, drags, turns

commandVars == <<updates, about, canPack, menu, enabledButtons, failed, inputs>>
dragVars == <<tree, refs, at, dragTarget, hwndTarget, esc, done, inside, misused,
              dragQuit, drags, turns>>
allVars == <<part, castVars, commandVars, hookVars, frameVars, dragVars>>
-----------------------------------------------------------------------------
(* The tool bar with one button, and the views.  Modal loops inside one    *)
(* another; and one loop, with fewer messages, for what happens in the end.*)
MCChildren == <<toolBar, button, views>>
Casts == INSTANCE Broadcast
  WITH Commands <- Commands \ {"new"}, MaxPosts <- 2, MaxLoops <- 1

Menus == INSTANCE CommandState
  WITH MaxInputs <- 3, Buttons <- {"import", "ok"},
       posted <- updates, button <- enabledButtons

(* Two subclassers, with all the plans with which nothing is lost.         *)
MCPlans == {f \in [{s1, s2} -> Plans \cup {None}] : OneOrder(f)}

(* Two dialogs, one after the other; sizes of the frame that are large     *)
(* enough for its panels, too small, and nothing, as when it is minimised. *)
MCDialogs == <<"about1", "about2">>
MCSizes == {[x |-> 0, y |-> 0], [x |-> 3, y |-> 2], [x |-> 2, y |-> 5], [x |-> 3, y |-> 4]}

(* A frame (2) with two children (1, 3), of which any may be a target: a   *)
(* well-behaved application, and one that does all it is not asked to do.  *)
Parent == [w \in {1, 2, 3} |-> IF w = 2 THEN None ELSE 2]
Drag == INSTANCE DragTracker
  WITH Windows <- {1, 2, 3}, Objects <- {o1, o2}, Null <- None, MaxDrags <- 2,
       MaxTurns <- 4, Habits <- {}, quit <- dragQuit
WildDrag == INSTANCE DragTracker
  WITH Windows <- {1, 2, 3}, Objects <- {o1, o2}, Null <- None, MaxDrags <- 1,
       MaxTurns <- 3, Habits <- {"revoke", "fail", "quit", "keep"}, quit <- dragQuit

ASSUME /\ Menus!CommandAssumption
       /\ Drag!DragTrackerAssumption /\ WildDrag!DragTrackerAssumption
-----------------------------------------------------------------------------
Init ==
  /\ part \in {"nested", "casts", "commands", "hook", "frame", "drag", "wild"}
  /\ CastInit /\ Menus!Init /\ HookInit /\ FrameInit /\ Drag!Init
  /\ part # "commands" => canPack
  /\ part # "hook" => plan = [s \in {s1, s2} |-> None]
  /\ part # "frame" => size = [x |-> 0, y |-> 0]

In(name, A) == part = name /\ A /\ UNCHANGED part
Casting(A) == A /\ UNCHANGED <<commandVars, hookVars, frameVars, dragVars>>
Updating(A) == A /\ UNCHANGED <<castVars, hookVars, frameVars, dragVars>>
Hooking(A) == A /\ UNCHANGED <<castVars, commandVars, frameVars, dragVars>>
Framing(A) == A /\ UNCHANGED <<castVars, commandVars, hookVars, dragVars>>
Dragging(A) == A /\ UNCHANGED <<castVars, commandVars, hookVars, frameVars>>

Next ==
  \/ Casting(In("nested", CastNext) \/ In("casts", Casts!CastNext))
  \/ Updating(In("commands", Menus!Next))
  \/ Hooking(In("hook", HookNext))
  \/ Framing(In("frame", FrameNext))
  \/ Dragging(In("drag", Drag!Next) \/ In("wild", WildDrag!Next))

(* That of the modules: the dispatch thread runs, and when there is        *)
(* neither a message nor input the timer's turn comes.                     *)
Fairness ==
  /\ WF_allVars(Casting(In("casts", Casts!Dispatch)))
  /\ WF_allVars(Updating(In("commands", Menus!Dispatch)))
  /\ WF_allVars(Updating(In("commands", Menus!Timer)))
  /\ WF_allVars(Framing(In("frame", FrameDispatch)))

Spec == Init /\ [][Next]_allVars /\ Fairness
-----------------------------------------------------------------------------
(* Targets are called as IDropTarget says while they stay registered       *)
(* during a drag, and a reference of the registry is never lost, even if   *)
(* they do not.                                                            *)
CallsAreOrderly ==
  /\ Menus!CommandTypeOK /\ Drag!DragTypeOK
  /\ part = "drag" => Drag!ContractIsKept
  /\ Drag!RefsAreFound

(* When the user stops choosing commands the menu shows what can be done,  *)
(* and updates do not breed; a button whose window is gone is deleted and  *)
(* a dialog whose button was pressed is closed.                            *)
DesktopSettles ==
  /\ part = "commands" => Menus!MenuCatchesUp /\ Menus!UpdatesEnd
  /\ part = "casts" => Casts!ZombiesDie
  /\ part = "frame" => DialogEnds /\ ButtonsEnd
=============================================================================
