------------------------------ MODULE Broadcast ------------------------------
(***************************************************************************)
(* Broadcasts: the listeners of MessageQueue, the windows that register    *)
(* and delete themselves, and the modal loops that dispatch messages while *)
(* a broadcast is still under way.                                         *)
(*                                                                         *)
(* notifyAll() walks a copy of the listeners.  A handler may open a file   *)
(* dialog, whose own loop removes messages from the same queue: the        *)
(* GetMessage hook dispatches them there and then, inside the handler.  So *)
(* the dispatch thread has a stack of handlers and modal loops.            *)
(*                                                                         *)
(* A pane leaves the listeners and is deleted when the frame is destroyed. *)
(* A button leaves them with its window and is deleted later by a job that *)
(* it posts (suicide): until then it is a zombie.                          *)
(***************************************************************************)
EXTENDS MessageQueue, FiniteSets, SequencesExt

CONSTANTS
  Children,       \* what createChildren() makes, in the order it registers
  Panes,          \* those that Frame::destroy() deletes; the others are buttons
  DialogButtons,  \* objects for the OK buttons of successive About dialogs
  Readers,        \* objects for the listeners of successive databases
  None,           \* no dialog, no database
  Commands,       \* what menu, timer and other threads broadcast
  MaxPosts,       \* bound: how many commands they broadcast
  MaxLoops        \* bound: how many modal loops run inside one another

VARIABLES
  listeners,  \* MessageQueue::listeners
  alive,      \* the listeners that are allocated
  stack,      \* handlers and modal loops under way, the innermost first
  dlgAbout,   \* the OK button of the About dialog, or None
  reader,     \* the listener of the current database, or None
  opening,    \* databases being opened in the background
  frame,      \* the main window: "open" or "destroyed"
  deadCalls,  \* history: was a broadcast that called a deleted listener
              \* interrupted by a modal loop?
  posts       \* how many commands were broadcast

bVars == <<listeners, alive, stack, dlgAbout, reader, opening, frame,
           deadCalls, posts>>
castVars == <<mqVars, bVars>>

(* Those that createFrame() and main() made.                               *)
Elders == {"skin", "help", "frame"}
ToolButtons == ToSet(Children) \ Panes
Buttons == ToolButtons \cup DialogButtons
Registered == ToSet(listeners)
Zombies == (alive \ Registered) \cap Buttons

Cast(id) == [kind |-> "broadcast", id |-> id]
Suicide(o) == [kind |-> "suicide", of |-> o]
Job(id) == [kind |-> "job", id |-> id]
ToWindow(id) == [kind |-> "window", id |-> id]

CommandIds == {"open", "new", "exit", "about", "ok", "other"}
Messages == {Cast(id) : id \in CommandIds \cup {"databaseChanged"}}
              \cup {Suicide(o) : o \in Buttons}
              \cup {Job(id) : id \in {"createChildren", "setDatabase"}}
              \cup {ToWindow(id) : id \in {"close", "dialogCommand", "dialogClose"}}

(* Names are of one object each, and "shutdown" is a message of its own.   *)
ASSUME BroadcastAssumption ==
  /\ None \notin Elders \cup ToSet(Children) \cup DialogButtons \cup Readers
  /\ Children \in Seq(ToSet(Children)) /\ IsInjective(Children)
  /\ Panes \subseteq ToSet(Children)
  /\ Elders \cap (ToSet(Children) \cup DialogButtons \cup Readers) = {}
  /\ ToSet(Children) \cap (DialogButtons \cup Readers) = {}
  /\ DialogButtons \cap Readers = {}
  /\ Commands \subseteq CommandIds
  /\ ShutdownMsg \notin Messages
  /\ MaxPosts \in Nat /\ MaxLoops \in Nat

(* A message that is being handled.  A broadcast takes a copy of the       *)
(* listeners; heard is whom it has called, nested whether a handler of its *)
(* own ran a modal loop.                                                   *)
Activation(id) == [kind |-> "broadcast", id |-> id, clone |-> listeners,
                   heard |-> <<>>, nested |-> FALSE]
Handling(m) == IF m = ShutdownMsg THEN Activation("shutdown")
               ELSE IF m.kind = "broadcast" THEN Activation(m.id) ELSE m

ModalLoop == [kind |-> "modal"]
Loops == Cardinality({i \in DOMAIN stack : stack[i].kind = "modal"})
Running(kind) == loop = "handler" /\ stack # <<>> /\ Head(stack).kind = kind

(* What is left of s without the members of S, in the order of s: At(k) is *)
(* where the k-th of it was.                                               *)
Without(s, S) ==
  LET kept == {i \in DOMAIN s : s[i] \notin S}
      At(k) == CHOOSE i \in kept : Cardinality({j \in kept : j <= i}) = k
  IN  [k \in 1..Cardinality(kept) |-> s[At(k)]]

(* createFrame() is running: the frame exists, its children are created by *)
(* a job and the sample database is being opened.                          *)
CastInit ==
  /\ posted = <<Job("createChildren")>>
  /\ loop = "handler"
  /\ shutdown = FALSE /\ shutdownDelay = 0 /\ quit = FALSE
  /\ listeners = <<"skin", "help", "frame">>
  /\ alive = ToSet(listeners)
  /\ stack = <<>>
  /\ dlgAbout = None
  /\ reader = None
  /\ opening = 1
  /\ frame = "open"
  /\ deadCalls = {}
  /\ posts = 0

---------------------------------------------------------------------------
(* Other threads, and the windows' input, post to the queue.               *)

PostCommand ==
  /\ posts < MaxPosts
  /\ frame = "open"
  /\ posts' = posts + 1
  /\ \E id \in Commands : Post(Cast(id))
  /\ UNCHANGED <<loop, shutdown, shutdownDelay, quit, listeners, alive,
                 stack, dlgAbout, reader, opening, frame, deadCalls>>

(* The worker of a new Database has opened its file: the job is posted.    *)
Opened ==
  /\ opening > 0
  /\ loop # "exited"
  /\ opening' = opening - 1
  /\ Post(Job("setDatabase"))
  /\ UNCHANGED <<loop, shutdown, shutdownDelay, quit, listeners, alive,
                 stack, dlgAbout, reader, frame, deadCalls, posts>>

---------------------------------------------------------------------------
(* The loop of the application, and the loop of a modal dialog.            *)

Get ==
  /\ GetMessage
  /\ stack' = <<Handling(Head(posted))>>
  /\ UNCHANGED <<shutdown, shutdownDelay, quit, listeners, alive, dlgAbout,
                 reader, opening, frame, deadCalls, posts>>

(* Mutant: without the GetMessage hook the dialog's loop hands the message *)
(* to DispatchMessage(), which has no window for it.                       *)
ModalGet_NoHook ==
  /\ Running("modal")
  /\ posted # <<>>
  /\ posted' = Tail(posted)
  /\ stack' = IF Head(posted) # ShutdownMsg /\ Head(posted).kind = "window"
              THEN <<Handling(Head(posted))>> \o stack ELSE stack
  /\ UNCHANGED <<loop, shutdown, shutdownDelay, quit, listeners, alive,
                 dlgAbout, reader, opening, frame, deadCalls, posts>>

ModalGet ==
  /\ Running("modal")
  /\ posted # <<>>
  /\ posted' = Tail(posted)
  /\ stack' = <<Handling(Head(posted))>> \o stack
  /\ UNCHANGED <<loop, shutdown, shutdownDelay, quit, listeners, alive,
                 dlgAbout, reader, opening, frame, deadCalls, posts>>

(* The dialog ends, because the user ends it or because its owner was      *)
(* destroyed.  commandFileNew() opens the file the user has chosen.        *)
ModalEnds ==
  /\ Running("modal")
  /\ stack' = Tail(stack)
  /\ opening' \in IF stack[2].id = "new" THEN {opening, opening + 1}
                  ELSE {opening}
  /\ UNCHANGED <<mqVars, listeners, alive, dlgAbout, reader, frame,
                 deadCalls, posts>>

Returns ==
  /\ stack = <<>>
  /\ HandlerReturns
  /\ UNCHANGED bVars

Loop ==
  /\ CheckShutdown \/ LoopEnds
  /\ UNCHANGED bVars

---------------------------------------------------------------------------
(* Jobs.                                                                   *)

(* createChildren(): the constructor of a Panel registers it.              *)
CreateChildren ==
  /\ Running("job")
  /\ Head(stack).id = "createChildren"
  /\ stack' = Tail(stack)
  /\ listeners' = listeners \o Children
  /\ alive' = alive \cup ToSet(Children)
  /\ UNCHANGED <<mqVars, dlgAbout, reader, opening, frame, deadCalls, posts>>

(* Application::setDatabase() deletes the reader and the database that     *)
(* were open, whose destructors leave the listeners, and broadcasts        *)
(* "databaseChanged".                                                      *)
SetDatabase ==
  /\ Running("job")
  /\ Head(stack).id = "setDatabase"
  /\ stack' = Tail(stack)
  /\ \E r \in Readers \ (alive \ {reader}) :
       /\ reader' = r
       /\ listeners' = Append(Without(listeners, {reader}), r)
       /\ alive' = (alive \ {reader}) \cup {r}
  /\ Post(Cast("databaseChanged"))
  /\ UNCHANGED <<loop, shutdown, shutdownDelay, quit, dlgAbout, opening,
                 frame, deadCalls, posts>>

RunSuicide ==
  /\ Running("suicide")
  /\ stack' = Tail(stack)
  /\ alive' = alive \ {Head(stack).of}
  /\ UNCHANGED <<mqVars, listeners, dlgAbout, reader, opening, frame,
                 deadCalls, posts>>

---------------------------------------------------------------------------
(* Windows.                                                                *)

(* The About dialog goes with its OK button; it goes with its owner too.   *)
DialogButton == {dlgAbout} \ {None}
LastWords(S) == SetToSeq({Suicide(o) : o \in S})

(* DestroyWindow(): Frame::destroy() starts the shutdown and deletes the   *)
(* panes; then the windows of the buttons go, and the buttons post their   *)
(* suicide.                                                                *)
DestroyFrame ==
  /\ frame' = "destroyed"
  /\ shutdown' = TRUE
  /\ listeners' = Without(listeners, {"frame"} \cup Panes \cup Buttons)
  /\ alive' = alive \ Panes
  /\ dlgAbout' = None
  /\ posted' = posted \o <<ShutdownMsg>>
                 \o LastWords(DialogButton \cup (ToolButtons \cap alive))
  /\ UNCHANGED <<loop, shutdownDelay, quit, reader, opening, deadCalls, posts>>

(* WM_CLOSE of the frame; a message to a window that is gone is dropped.   *)
CloseFrame ==
  /\ Running("window")
  /\ Head(stack).id = "close"
  /\ stack' = Tail(stack)
  /\ IF frame = "open" THEN DestroyFrame
     ELSE UNCHANGED <<mqVars, listeners, alive, dlgAbout, reader, opening,
                      frame, deadCalls, posts>>

(* commonDlgProc(): WM_COMMAND posts WM_CLOSE, which destroys the dialog.  *)
DialogCommand ==
  /\ Running("window")
  /\ Head(stack).id = "dialogCommand"
  /\ stack' = Tail(stack)
  /\ IF dlgAbout # None THEN Post(ToWindow("dialogClose"))
     ELSE UNCHANGED posted
  /\ UNCHANGED <<loop, shutdown, shutdownDelay, quit, listeners, alive,
                 dlgAbout, reader, opening, frame, deadCalls, posts>>

DialogClose ==
  /\ Running("window")
  /\ Head(stack).id = "dialogClose"
  /\ stack' = Tail(stack)
  /\ dlgAbout' = None
  /\ listeners' = Without(listeners, DialogButton)
  /\ posted' = posted \o LastWords(DialogButton)
  /\ UNCHANGED <<loop, shutdown, shutdownDelay, quit, alive, reader, opening,
                 frame, deadCalls, posts>>

---------------------------------------------------------------------------
(* Broadcasts.                                                             *)

(* Mutant: notifyAll() walks the listeners themselves.                     *)
Audience_Live(b) == listeners

(* notifyAll() walks the copy it made.                                     *)
Audience(b) == b.clone

(* The next listener is called: its eventReceived() is one of the handlers *)
(* below.  What a deleted listener would do is undefined; it does nothing  *)
(* here, and the call is recorded.                                         *)
Callee(b) == Audience(b)[Len(b.heard) + 1]
Called(b) == [b EXCEPT !.heard = Append(@, Callee(b))]

Calls(o, ids) ==
  /\ Running("broadcast")
  /\ LET b == Head(stack) IN
       /\ Len(b.heard) < Len(Audience(b))
       /\ Callee(b) = o
       /\ b.id \in ids
       /\ deadCalls' = IF o \in alive THEN deadCalls
                       ELSE deadCalls \cup {b.nested}

HandlerDone == stack' = <<Called(Head(stack))>> \o Tail(stack)

(* Frame: commandFileOpen() and commandFileNew() run a modal dialog.       *)
FrameOpens ==
  /\ Calls("frame", {"open", "new"})
  /\ IF Loops < MaxLoops
     THEN stack' = <<ModalLoop, [Called(Head(stack)) EXCEPT !.nested = TRUE]>>
                   \o Tail(stack)
     ELSE HandlerDone
  /\ UNCHANGED <<mqVars, listeners, alive, dlgAbout, reader, opening, frame,
                 posts>>

(* Mutant: the frame is destroyed there and then.                          *)
FrameExits_AtOnce ==
  /\ Calls("frame", {"exit"})
  /\ HandlerDone
  /\ IF frame = "open"
     THEN /\ frame' = "destroyed"
          /\ shutdown' = TRUE
          /\ listeners' = Without(listeners, {"frame"} \cup Panes \cup Buttons)
          /\ alive' = alive \ Panes
          /\ dlgAbout' = None
          /\ posted' = posted \o <<ShutdownMsg>>
                         \o LastWords(DialogButton \cup (ToolButtons \cap alive))
     ELSE UNCHANGED <<posted, shutdown, listeners, alive, dlgAbout, frame>>
  /\ UNCHANGED <<loop, shutdownDelay, quit, reader, opening, posts>>

(* Frame: "commandFileExit" posts WM_CLOSE.                                *)
FrameExits ==
  /\ Calls("frame", {"exit"})
  /\ HandlerDone
  /\ Post(ToWindow("close"))
  /\ UNCHANGED <<loop, shutdown, shutdownDelay, quit, listeners, alive,
                 dlgAbout, reader, opening, frame, posts>>

(* Help: one About dialog at a time; skinDialog() makes its OK button.     *)
HelpAbout ==
  /\ Calls("help", {"about"})
  /\ HandlerDone
  /\ IF dlgAbout # None THEN UNCHANGED <<dlgAbout, listeners, alive>>
     ELSE \E o \in DialogButtons \ alive :
            /\ dlgAbout' = o
            /\ listeners' = Append(listeners, o)
            /\ alive' = alive \cup {o}
  /\ UNCHANGED <<mqVars, reader, opening, frame, posts>>

HelpOK ==
  /\ Calls("help", {"ok"})
  /\ HandlerDone
  /\ IF dlgAbout # None THEN Post(ToWindow("dialogCommand"))
     ELSE UNCHANGED posted
  /\ UNCHANGED <<loop, shutdown, shutdownDelay, quit, listeners, alive,
                 dlgAbout, reader, opening, frame, posts>>

(* Every other listener, and these for every other message.                *)
Quiet ==
  /\ \E o \in alive \cup ToSet(Children) \cup DialogButtons \cup Readers :
       /\ CASE o = "frame" -> Calls(o, {"about", "ok", "other", "shutdown",
                                        "databaseChanged"})
            [] o = "help"  -> Calls(o, {"open", "new", "exit", "other",
                                        "shutdown", "databaseChanged"})
            [] OTHER -> Calls(o, {"open", "new", "exit", "about", "ok", "other",
                                  "shutdown", "databaseChanged"})
  /\ HandlerDone
  /\ UNCHANGED <<mqVars, listeners, alive, dlgAbout, reader, opening, frame,
                 posts>>

(* Everyone was called: the copy and the message are deleted.              *)
Finish ==
  /\ Running("broadcast")
  /\ Len(Head(stack).heard) >= Len(Audience(Head(stack)))
  /\ stack' = Tail(stack)
  /\ UNCHANGED <<mqVars, listeners, alive, dlgAbout, reader, opening, frame,
                 deadCalls, posts>>

---------------------------------------------------------------------------
(* The dispatch thread.                                                    *)
Dispatch ==
  \/ Get \/ ModalGet \/ Returns \/ Loop
  \/ CreateChildren \/ SetDatabase \/ RunSuicide
  \/ CloseFrame \/ DialogCommand \/ DialogClose
  \/ FrameOpens \/ FrameExits \/ HelpAbout \/ HelpOK \/ Quiet \/ Finish

CastNext == Dispatch \/ ModalEnds \/ PostCommand \/ Opened

CastSpec == CastInit /\ [][CastNext]_castVars

(* The dispatch thread is scheduled; nobody has to end a modal dialog.     *)
FairCastSpec == CastSpec /\ WF_castVars(Dispatch)

---------------------------------------------------------------------------
(* Types; and nobody is registered twice, for removeBroadcastListener()    *)
(* removes one registration.                                               *)
BroadcastTypeOK ==
  /\ posted \in Seq(Messages \cup {ShutdownMsg})
  /\ listeners \in Seq(Elders \cup ToSet(Children) \cup DialogButtons \cup Readers)
  /\ IsInjective(listeners)
  /\ dlgAbout \in DialogButtons \cup {None}
  /\ reader \in Readers \cup {None}
  /\ Loops <= MaxLoops
  /\ deadCalls \subseteq BOOLEAN

(* A listener that is registered is not deleted: every broadcast that      *)
(* starts now starts with objects that exist.  The handles that Help and   *)
(* Application keep are registered.                                        *)
RegisteredIsAlive ==
  /\ Registered \subseteq alive
  /\ {dlgAbout, reader} \ {None} \subseteq Registered

(* A broadcast calls a listener that was deleted only if one of its own    *)
(* handlers ran a modal loop: deletion by posted jobs and posted WM_CLOSE  *)
(* protects a broadcast from its handlers, but not from nested loops.      *)
DeadCallsAreNested == FALSE \notin deadCalls

(* When a broadcast ends, every listener that was registered when it began *)
(* and still is has been called exactly once, whatever was registered and  *)
(* removed meanwhile.                                                      *)
HeardOnce(b) ==
  \A o \in ToSet(b.clone) \cap Registered :
    Cardinality({i \in DOMAIN b.heard : b.heard[i] = o}) = 1
EveryoneHears ==
  [][(Running("broadcast") /\ stack' = Tail(stack)) => HeardOnce(Head(stack))]_castVars

(* A button whose window was destroyed is deleted in the end, even if the  *)
(* rest of the time is spent in a modal dialog: its loop runs the jobs.    *)
ZombiesDie == \A o \in ToolButtons : o \in Zombies ~> o \notin Zombies

(* The application does not end before the buttons and the panes are       *)
(* deleted and every message was dispatched.                               *)
QuitLeavesNoZombie ==
  loop = "exited" =>
    posted = <<>> /\ Zombies = {} /\ Panes \cap alive = {}

(* At WM_QUIT every window was destroyed (assert(hooked.size() == 0)).     *)
NoWindowAtQuit == loop = "exited" => dlgAbout = None

(* Whoever is registered or known to Help and Application exists; a        *)
(* broadcast calls a deleted listener only after a modal loop of its own   *)
(* handlers; and nothing is left when the application ends.                *)
ListenersLive ==
  /\ BroadcastTypeOK /\ RegisteredIsAlive /\ DeadCallsAreNested
  /\ QuitLeavesNoZombie
=============================================================================
