SPECIFICATION Spec
CONSTANTS
  ShutdownMsg = ShutdownMsg
  toolBar = toolBar
  button = button
  views = views
  Children <- MCChildren
  Panes = {toolBar, views}
  DialogButtons = {ok1, ok2}
  Readers = {r1, r2}
  Commands = {"open", "new", "exit", "about", "ok"}
  MaxPosts = 3
  MaxLoops = 2
  s1 = s1
  s2 = s2
  o1 = o1
  o2 = o2
  None = None
  NoDialog = None
  Dialogs <- MCDialogs
  Sizes <- MCSizes
  MaxQueue = 3
  Listeners = {l1, l2}
  Subclassers = {s1, s2}
  PlanOf <- MCPlans
  NoProc = None
  MaxSent = 1
  MaxCalls = 2
INVARIANTS ListenersLive FrameIsInOrder HookIsOrderly CallsAreOrderly
PROPERTIES EveryoneHears DesktopSettles
\* The application ends; a dialog may stay open for ever.
CHECK_DEADLOCK FALSE
