---------------------------- MODULE MessageQueue ----------------------------
(***************************************************************************)
(* The dispatch thread of kolobok: the thread message queue, the message   *)
(* loop and the shutdown protocol of MessageQueue (inc/tiny.h).            *)
(*                                                                         *)
(* A message is either a job whose run() called invokeLater(_dispatch), or *)
(* a broadcast.  Window messages carry nothing the properties look at and  *)
(* appear only as the step Input: some handler runs.                       *)
(*                                                                         *)
(* The module declares the state and the steps of the loop.  What the      *)
(* handler of a message does belongs to the components that listen, which  *)
(* conjoin their own updates to GetMessage.                                *)
(***************************************************************************)
EXTENDS Naturals, Sequences

CONSTANT ShutdownMsg  \* the "shutdown" broadcast

VARIABLES
  posted,         \* the thread message queue, oldest message first
  loop,           \* where the dispatch thread is in messageLoop()
  shutdown,       \* MessageQueue::shutdown
  shutdownDelay,  \* MessageQueue::shutdownDelay, milliseconds
  quit            \* PostQuitMessage() was called

mqVars == <<posted, loop, shutdown, shutdownDelay, quit>>

Larger(a, b) == IF a > b THEN a ELSE b

(* The loop is running the handler that starts the components.             *)
MQInit ==
  /\ posted = <<>>
  /\ loop = "handler"
  /\ shutdown = FALSE
  /\ shutdownDelay = 0
  /\ quit = FALSE

(* PostThreadMessage(): invokeLater and post both append to the queue.     *)
Post(m) == posted' = Append(posted, m)

(* GetMessage() removes the oldest posted message; the GetMessage hook     *)
(* dispatches it before DispatchMessage() is reached.                      *)
GetMessage ==
  /\ loop = "get"
  /\ posted # <<>>
  /\ posted' = Tail(posted)
  /\ loop' = "handler"

(* A window message arrives: its window procedure runs.  Destroying the    *)
(* main frame is the last input the application gets.                      *)
Input ==
  /\ loop = "get"
  /\ ~shutdown
  /\ loop' = "handler"
  /\ UNCHANGED <<posted, shutdown, shutdownDelay, quit>>

(* Frame::destroy() runs inside the handler of WM_DESTROY.                 *)
InitiateShutdown ==
  /\ loop = "handler"
  /\ ~shutdown
  /\ shutdown' = TRUE
  /\ Post(ShutdownMsg)
  /\ UNCHANGED <<loop, shutdownDelay, quit>>

DelayShutdown(quantum) ==
  shutdownDelay' = Larger(shutdownDelay, Larger(quantum, 1))

(* The handler returns to messageLoop().                                   *)
HandlerReturns ==
  /\ loop = "handler"
  /\ loop' = "check"
  /\ UNCHANGED <<posted, shutdown, shutdownDelay, quit>>

(* Mutant: the delay is not cleared before "shutdown" is posted again.     *)
CheckShutdown_KeepsDelay ==
  /\ loop = "check"
  /\ loop' = "get"
  /\ IF shutdown /\ shutdownDelay > 0
     THEN Post(ShutdownMsg) /\ UNCHANGED quit
     ELSE quit' = (quit \/ (shutdown /\ posted = <<>>)) /\ UNCHANGED posted
  /\ UNCHANGED <<shutdown, shutdownDelay>>

(* "Make sure any pending messages get dispatched": the part of the loop   *)
(* after DispatchMessage().                                                *)
CheckShutdown ==
  /\ loop = "check"
  /\ loop' = "get"
  /\ IF shutdown /\ shutdownDelay > 0
     THEN /\ shutdownDelay' = 0
          /\ Post(ShutdownMsg)
          /\ UNCHANGED quit
     ELSE /\ quit' = (quit \/ (shutdown /\ posted = <<>>))
          /\ UNCHANGED <<posted, shutdownDelay>>
  /\ UNCHANGED shutdown

(* Mutant: the loop ends with messages in the queue.                       *)
LoopEnds_Early ==
  /\ loop = "get"
  /\ shutdown /\ shutdownDelay = 0
  /\ loop' = "exited"
  /\ UNCHANGED <<posted, shutdown, shutdownDelay, quit>>

(* WM_QUIT is delivered only when no posted message is left.               *)
LoopEnds ==
  /\ loop = "get"
  /\ quit
  /\ posted = <<>>
  /\ loop' = "exited"
  /\ UNCHANGED <<posted, shutdown, shutdownDelay, quit>>

MQTypeOK(Msg) ==
  /\ posted \in Seq(Msg)
  /\ loop \in {"get", "handler", "check", "exited"}
  /\ shutdown \in BOOLEAN
  /\ shutdownDelay \in Nat
  /\ quit \in BOOLEAN
=============================================================================
