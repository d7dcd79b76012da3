----------------------------- MODULE FrameWindow ----------------------------
(***************************************************************************)
(* The main window (Frame) with its panels, and the About dialog (Help,    *)
(* Controls): windows, the panel objects behind them, and the messages     *)
(* that create and destroy both.                                           *)
(*                                                                         *)
(* An object is bound while its window has the property "this", and        *)
(* receives broadcasts while it is a listener.  The panels of the frame    *)
(* are deleted when it is destroyed; a ButtonPanel, the one of the tool    *)
(* bar and that of each dialog, deletes itself by a job that it posts.  A  *)
(* dialog and its button have the same name.                               *)
(***************************************************************************)
EXTENDS BorderLayout, Sequences, FiniteSets, SequencesExt

CONSTANTS
  NoDialog,  \* null
  Dialogs,   \* the About dialogs, in the order in which they are opened
  Sizes,     \* of the client area of the frame
  MaxQueue   \* bound: messages in the queue when another one is posted

\* Every window has a name of its own.
ASSUME FrameWindowAssumption ==
  /\ MaxQueue \in Nat /\ Dialogs \in Seq(Range(Dialogs))
  /\ \A s \in Sizes : s.x \in Nat /\ s.y \in Nat
  /\ IsInjective(Dialogs)
  /\ Range(Dialogs) \intersect {NoDialog, "frame", "button", "toolbar", "statusbar", "views"} = {}

VARIABLES
  mainWindow,  \* the window: "none", "open" or "gone"
  enabled,     \* whether it takes input
  queue,       \* posted messages, jobs and broadcasts
  helpDialog,  \* dlgAbout, of Help
  opened,      \* how many dialogs have been opened
  dialogs,     \* those of them whose windows exist
  objects,     \* panels: constructed and not deleted
  bound,       \* those that the property "this" of a window refers to
  panelListeners,  \* those that are broadcast listeners
  size,        \* of the client area of the frame
  rects       \* where its children are, by their property "layout"

frameVars == <<mainWindow, enabled, queue, helpDialog, opened, dialogs, objects, bound,
               panelListeners, size, rects>>
windowVars == <<mainWindow, enabled, helpDialog, opened, dialogs, size, rects>>
objectVars == <<objects, bound, panelListeners>>

Panels == {"toolbar", "statusbar", "views"}
ButtonPanels == {"button"} \union Range(Dialogs)
FrameCommands == {"commandFileExit", "commandHelpAbout", "commandButtonOK"}

\* "preferred" of the children, in units in which the status bar is 1 high;
\* the width that they prefer, MAX_VALUE, is not looked at.
Preferred == [north |-> [x |-> 9, y |-> 2], south |-> [x |-> 9, y |-> 1],
              center |-> [x |-> 0, y |-> 0]]

Thread(msg) == [to |-> "thread", msg |-> msg]
To(window, msg) == [to |-> window, msg |-> msg]
Suicides(buttons) == [i \in DOMAIN buttons |-> To(buttons[i], "suicide")]
WindowMessages == {"WM_CLOSE", "IDOK"}

Exists(window) == IF window = "frame" THEN mainWindow = "open" ELSE window \in dialogs

FrameInit ==
  /\ mainWindow = "none" /\ enabled = TRUE
  /\ queue = <<Thread("createFrame")>>
  /\ helpDialog = NoDialog /\ opened = 0 /\ dialogs = {}
  /\ objects = {} /\ bound = {} /\ panelListeners = {}
  /\ size \in Sizes /\ rects = [s \in {} |-> 0]

-----------------------------------------------------------------------------
(* What others do: the user, and the test server, which posts any command. *)

PostToFrame(m) == queue' = Append(queue, m) /\ UNCHANGED <<windowVars, objectVars>>

Command(cmd) ==
  /\ mainWindow # "none" /\ Len(queue) < MaxQueue
  /\ PostToFrame(Thread(cmd))

\* The cross of the frame, or Esc in the dialog.
Cross(window) ==
  /\ Exists(window) /\ (window = "frame" => enabled)
  /\ Len(queue) < MaxQueue
  /\ PostToFrame(To(window, "WM_CLOSE"))

Resize(s) ==
  /\ mainWindow = "open" /\ s # size
  /\ size' = s
  /\ rects' = IF DOMAIN rects = {} THEN rects ELSE Layout(s, Preferred)
  /\ UNCHANGED <<mainWindow, enabled, queue, helpDialog, opened, dialogs, objectVars>>

-----------------------------------------------------------------------------
(* The dispatch of the message at the head of the queue.                   *)

IsNext(m) == queue # <<>> /\ Head(queue) = m

New(panels) ==
  /\ objects' = objects \union panels
  /\ bound' = bound \union panels
  /\ panelListeners' = panelListeners \union panels

CreateFrame ==
  /\ IsNext(Thread("createFrame"))
  /\ mainWindow' = "open"
  /\ New({"frame"})
  /\ queue' = Append(Tail(queue), Thread("createChildren"))
  /\ UNCHANGED <<enabled, helpDialog, opened, dialogs, size, rects>>

\* They come before any message that could close the frame.
CreatePanels ==
  /\ IsNext(Thread("createChildren")) /\ mainWindow = "open"
  /\ New(Panels \union {"button"})
  /\ rects' = Layout(size, Preferred)
  /\ queue' = Tail(queue)
  /\ UNCHANGED <<mainWindow, enabled, helpDialog, opened, dialogs, size>>

BroadcastExit ==
  /\ IsNext(Thread("commandFileExit"))
  /\ queue' = Tail(queue) \o IF "frame" \in panelListeners
                             THEN <<To("frame", "WM_CLOSE")>> ELSE <<>>
  /\ UNCHANGED <<windowVars, objectVars>>

\* createDialog() disables the frame, if there is one.
BroadcastAbout ==
  /\ IsNext(Thread("commandHelpAbout")) /\ helpDialog = NoDialog
  /\ opened < Len(Dialogs)
  /\ LET d == Dialogs[opened + 1] IN
       helpDialog' = d /\ dialogs' = dialogs \union {d} /\ New({d})
  /\ opened' = opened + 1
  /\ enabled' = (enabled /\ mainWindow # "open")
  /\ queue' = Tail(queue)
  /\ UNCHANGED <<mainWindow, size, rects>>

\* The dialog is open, or the bound is reached.
BroadcastAboutIgnored ==
  /\ IsNext(Thread("commandHelpAbout"))
  /\ helpDialog # NoDialog \/ opened = Len(Dialogs)
  /\ queue' = Tail(queue)
  /\ UNCHANGED <<windowVars, objectVars>>

BroadcastOK ==
  /\ IsNext(Thread("commandButtonOK"))
  /\ queue' = Tail(queue) \o IF helpDialog = NoDialog THEN <<>>
                             ELSE <<To(helpDialog, "IDOK")>>
  /\ UNCHANGED <<windowVars, objectVars>>

IdOk(d) ==
  /\ IsNext(To(d, "IDOK")) /\ Exists(d)
  /\ queue' = Append(Tail(queue), To(d, "WM_CLOSE"))
  /\ UNCHANGED <<windowVars, objectVars>>

\* A button whose window is destroyed.
Destroyed(buttons) == bound' = bound \ buttons /\ panelListeners' = panelListeners \ buttons

CloseDialog(d) ==
  /\ IsNext(To(d, "WM_CLOSE")) /\ Exists(d)
  /\ dialogs' = dialogs \ {d} /\ helpDialog' = NoDialog /\ enabled' = TRUE
  /\ Destroyed({d})
  /\ queue' = Tail(queue) \o Suicides(<<d>>)
  /\ UNCHANGED <<mainWindow, opened, objects, size, rects>>

\* Mutant: Panel::destroy() leaves the views among the listeners.
CloseMainWindow_Listening ==
  /\ IsNext(To("frame", "WM_CLOSE")) /\ Exists("frame")
  /\ mainWindow' = "gone" /\ enabled' = TRUE
  /\ dialogs' = {} /\ helpDialog' = NoDialog
  /\ objects' = objects \ Panels
  /\ bound' = bound \ ({"frame"} \union Panels \union ButtonPanels)
  /\ panelListeners' = panelListeners \ ({"frame", "toolbar", "statusbar"} \union ButtonPanels)
  /\ queue' = Tail(queue) \o Suicides(SetToSeq(bound \intersect ButtonPanels))
  /\ UNCHANGED <<opened, size, rects>>

\* DestroyWindow() destroys the dialog, which the frame owns; in WM_DESTROY
\* Frame::destroy() deletes the panels; then the windows of the children go,
\* and with that of the tool bar its button.  The Frame itself is not deleted.
CloseMainWindow ==
  /\ IsNext(To("frame", "WM_CLOSE")) /\ Exists("frame")
  /\ mainWindow' = "gone" /\ enabled' = TRUE
  /\ dialogs' = {} /\ helpDialog' = NoDialog
  /\ objects' = objects \ Panels
  /\ Destroyed({"frame"} \union Panels \union ButtonPanels)
  /\ queue' = Tail(queue) \o Suicides(SetToSeq(bound \intersect ButtonPanels))
  /\ UNCHANGED <<opened, size, rects>>

DeleteButton(b) ==
  /\ IsNext(To(b, "suicide"))
  /\ objects' = objects \ {b}
  /\ queue' = Tail(queue)
  /\ UNCHANGED <<windowVars, bound, panelListeners>>

\* A message to a window that is gone.
Drop ==
  /\ queue # <<>> /\ Head(queue).msg \in WindowMessages /\ ~Exists(Head(queue).to)
  /\ queue' = Tail(queue)
  /\ UNCHANGED <<windowVars, objectVars>>

FrameDispatch ==
  \/ CreateFrame \/ CreatePanels
  \/ BroadcastExit \/ BroadcastAbout \/ BroadcastAboutIgnored \/ BroadcastOK
  \/ \E d \in Range(Dialogs) : IdOk(d) \/ CloseDialog(d)
  \/ CloseMainWindow
  \/ \E b \in ButtonPanels : DeleteButton(b)
  \/ Drop

FrameNext ==
  \/ FrameDispatch
  \/ \E cmd \in FrameCommands : Command(cmd)
  \/ \E w \in {"frame"} \union Range(Dialogs) : Cross(w)
  \/ \E s \in Sizes : Resize(s)

FrameSpec == FrameInit /\ [][FrameNext]_frameVars /\ WF_frameVars(FrameDispatch)

-----------------------------------------------------------------------------
\* No broadcast and no message of a window reaches an object that is deleted,
\* in whatever order the frame, its panels and the dialogs are closed.
OnlyLiveObjects == bound \union panelListeners \subseteq objects

\* The frame takes input exactly while no dialog is open, and there is one at
\* most, the one that Help knows of, whoever sends how many commands: helpDlgProc
\* enables the frame that createDialog disabled.
ModalAbout ==
  /\ dialogs = IF helpDialog = NoDialog THEN {} ELSE {helpDialog}
  /\ mainWindow = "open" => (enabled <=> dialogs = {})

\* Whatever the sequence of sizes was, the panels of the frame cover its client
\* area without overlapping if it is high enough for the two bars.
Tiles ==
  mainWindow = "open" /\ DOMAIN rects # {} /\ Fits(size, Preferred) =>
    IsTiled(size, rects)

\* What holds of the frame in every state.
FrameIsInOrder == OnlyLiveObjects /\ ModalAbout /\ Tiles

\* The dialog closes in the end when the command of its button arrives, and a
\* button whose window is gone is deleted.
DialogEnds ==
  \A d \in Range(Dialogs) :
    (helpDialog = d /\ Thread("commandButtonOK") \in Range(queue)) ~> (d \notin dialogs)
ButtonsEnd ==
  \A b \in ButtonPanels : (b \in objects /\ b \notin bound) ~> (b \notin objects)
=============================================================================
