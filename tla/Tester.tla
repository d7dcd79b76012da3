-------------------------------- MODULE Tester --------------------------------
(***************************************************************************)
(* The automated tester: a test process and the application it started,    *)
(* and the named pipe between them (test_app.cpp, ApplicationTester.cpp,   *)
(* ObjectPipe.cpp).                                                        *)
(*                                                                         *)
(* Each process has a thread that reads the pipe.  The test's main thread  *)
(* writes a command and its parameter; the application's reader posts it   *)
(* as a broadcast; ApplicationTester, the first of the listeners, executes *)
(* it and writes the broadcast back, with its result; the test's reader    *)
(* adds that to a history in which the main thread waits for its answer.   *)
(* A writer flushes: it continues only when the other side has read.       *)
(***************************************************************************)
EXTENDS Naturals, Sequences, FiniteSets, FiniteSetsExt

CONSTANTS
  Scripts,     \* what the test may do, and how long nothing may happen
  MaxHistory,  \* MAX_HISTORY
  MaxNoise     \* bound: broadcasts of the application itself

(* A message is a command; n tells those with the same command apart, and  *)
(* nothing that is done with a message depends on it.                      *)
Msg(c, i) == [cmd |-> c, n |-> i]
Posts(m) == [op |-> "post", msg |-> m]
Waits(m) == [op |-> "wait", msg |-> m]
Commands == {"connect", "about", "close", "key", "exit"}
Steps == [op : {"post", "wait"}, msg : [cmd : Commands, n : Nat]]

\* steps: a sequence of Posts(m) and Waits(m); minutes: a bound of the
\* minutes in which nothing at all happens.
ASSUME TesterAssumption ==
  /\ \A s \in Scripts : s.steps \in Seq(Steps) /\ s.minutes \in Nat
  /\ MaxHistory \in Nat \ {0} /\ MaxNoise \in Nat

VARIABLES
  script,    \* what the test does in this behaviour
  pipe,      \* "connected", or "disconnected" by the test
  down, up,  \* what is in the pipe to the application, and to the test
  step,      \* the test's main thread: its place in Script,
  testMain,  \* and in the step
  testRead,  \* the test's reader: where, and what it has of a message
  history,   \* history[0 .. history_len - 1]
  event,     \* history_event
  answers,   \* history variable: what waitForBroadcast() returned, by step
  appRead,   \* the application's reader: where, and what it has
  posted,    \* the queue of the dispatch thread
  handling,  \* the broadcast being dispatched, or NoMsg
  stage,     \* of the dispatch thread, in that broadcast or in the loop
  dialog,    \* "none", "open", or "closing": WM_CLOSE is posted to it
  keys,      \* key strokes sent, not yet retrieved
  frame,     \* main window: "open", "closing" (WM_CLOSE is posted), "destroyed"
  app,       \* the application: "running", "fini", "exited" or "error"
  noise, minutes

testVars == <<step, testMain, testRead, history, event, answers>>
uiVars == <<dialog, keys, frame>>
dispatchVars == <<posted, handling, stage, uiVars, noise>>
testerVars == <<script, pipe, down, up, testVars, appRead, dispatchVars, app, minutes>>

Script == script.steps
NoMsg == Msg("none", 0)
Thread(at, got) == [at |-> at, got |-> got]
NewMessage == Thread("call", <<>>)

TestRuns == testMain # "failed"
AppRuns == app \in {"running", "fini"}
(* A handle whose other end was closed.                                    *)
Broken == ~TestRuns \/ ~AppRuns

TestInit ==
  /\ script \in Scripts
  /\ pipe = "connected" /\ down = <<>> /\ up = <<>>
  /\ step = 1 /\ testMain = "next" /\ testRead = NewMessage
  /\ history = <<>> /\ event = FALSE /\ answers = <<>>
  /\ appRead = NewMessage
  /\ posted = <<>> /\ handling = NoMsg /\ stage = "get"
  /\ dialog = "none" /\ keys = 0 /\ frame = "open"
  /\ app = "running" /\ noise = 0 /\ minutes = 0

---------------------------------------------------------------------------
(* ObjectPipe.  A message is a sequence of strings, each a pair of the     *)
(* message and the place of the string in it.                              *)

(* readBuffer(): ReadFile() has an overlapped read to wait for, if there   *)
(* is nothing to read.  Only an end that comes while it waits is an end of *)
(* file: any other error ends the process.                                 *)
NothingYet(t, q) == t.at = "call" /\ q = <<>> /\ pipe = "connected" /\ ~Broken
MayRead(t, q) == t.at \in {"call", "pending"} /\ q # <<>>
SeesEnd(t, q) ==
  t.at = "pending" /\ q = <<>> /\ pipe = "disconnected"
ReadFails(t, q) ==
  \/ t.at = "call" /\ q = <<>> /\ (pipe = "disconnected" \/ Broken)
  \/ t.at = "pending" /\ q = <<>> /\ Broken /\ pipe = "connected"

(* writeStr() has put a string in the pipe, or failed to; then it flushes. *)
Writable == pipe = "connected" /\ ~Broken
Flushed(q) == Writable /\ q = <<>>

---------------------------------------------------------------------------
(* The test process.                                                       *)

Current == Script[step]

(* post(): the command, then the object.                                   *)
TestWrites ==
  /\ step \in DOMAIN Script /\ Current.op = "post"
  /\ testMain \in {"next", "object"}
  /\ Writable
  /\ down' = <<[msg |-> Current.msg, part |-> IF testMain = "next" THEN 1 ELSE 2]>>
  /\ testMain' = IF testMain = "next" THEN "flush1" ELSE "flush2"
  /\ UNCHANGED <<pipe, up, step, testRead, history, event, answers, appRead,
                 dispatchVars, app, minutes>>

TestFlushes ==
  /\ testMain \in {"flush1", "flush2"}
  /\ Flushed(down)
  /\ IF testMain = "flush1" THEN testMain' = "object" /\ UNCHANGED step
     ELSE testMain' = "next" /\ step' = step + 1
  /\ UNCHANGED <<pipe, down, up, testRead, history, event, answers, appRead,
                 dispatchVars, app, minutes>>

(* waitForBroadcast(): the event is set, ...                               *)
TestWakes ==
  /\ step \in DOMAIN Script /\ Current.op = "wait"
  /\ testMain = "next"
  /\ event
  /\ testMain' = "take"
  /\ UNCHANGED <<pipe, down, up, step, testRead, history, event, answers,
                 appRead, dispatchVars, app, minutes>>

(* Where the history has its first broadcast of that command, or 0.        *)
FirstOf(cmd) ==
  LET found == {i \in 1..Len(history) : history[i].cmd = cmd}
  IN  IF found = {} THEN 0 ELSE Min(found)
Remaining(at) ==
  IF at = 0 THEN <<>> ELSE SubSeq(history, at + 1, Len(history))
Answered(m) == [i \in DOMAIN answers \union {step} |-> IF i = step THEN m ELSE answers[i]]

(* Mutant: the broadcast that was found stays in the history.              *)
TestTakes_Keeps ==
  /\ testMain = "take"
  /\ testMain' = "next"
  /\ LET at == FirstOf(Current.msg.cmd)
     IN  IF at = 0
         THEN history' = <<>> /\ event' = FALSE /\ UNCHANGED <<answers, step>>
         ELSE /\ history' = SubSeq(history, at, Len(history))
              /\ answers' = Answered(history[at])
              /\ step' = step + 1
              /\ UNCHANGED event
  /\ UNCHANGED <<pipe, down, up, testRead, appRead, dispatchVars, app, minutes>>

(* ... and with the mutex everything up to the broadcast that is awaited   *)
(* leaves the history; an empty history resets the event.  Without a match *)
(* the wait begins again.                                                  *)
TestTakes ==
  /\ testMain = "take"
  /\ LET at == FirstOf(Current.msg.cmd)
     IN  /\ history' = Remaining(at)
         /\ IF at = 0 THEN UNCHANGED <<answers, step>>
            ELSE answers' = Answered(history[at]) /\ step' = step + 1
  /\ event' = (event /\ history' # <<>>)
  /\ testMain' = "next"
  /\ UNCHANGED <<pipe, down, up, testRead, appRead, dispatchVars, app, minutes>>

(* DisconnectNamedPipe() throws away what the pipe holds.                  *)
TestDisconnects ==
  /\ step = Len(Script) + 1 /\ testMain = "next"
  /\ pipe' = "disconnected"
  /\ down' = <<>> /\ up' = <<>>
  /\ testMain' = "join"
  /\ UNCHANGED <<step, testRead, history, event, answers, appRead,
                 dispatchVars, app, minutes>>

TestJoins ==
  /\ testMain = "join" /\ testRead.at = "ended"
  /\ testMain' = "joined"
  /\ UNCHANGED <<pipe, down, up, step, testRead, history, event, answers,
                 appRead, dispatchVars, app, minutes>>

(* pipe_reader_func(): a message has three strings.                        *)
TestReaderWaits ==
  /\ TestRuns
  /\ NothingYet(testRead, up)
  /\ testRead' = [testRead EXCEPT !.at = "pending"]
  /\ UNCHANGED <<pipe, down, up, step, testMain, history, event, answers,
                 appRead, dispatchVars, app, minutes>>

TestReaderReads ==
  /\ TestRuns
  /\ MayRead(testRead, up)
  /\ up' = <<>>
  /\ LET got == testRead.got \o up
     IN  testRead' = Thread(IF Len(got) = 3 THEN "append" ELSE "call", got)
  /\ UNCHANGED <<pipe, down, step, testMain, history, event, answers, appRead,
                 dispatchVars, app, minutes>>

(* The end of the file in a message makes null of what is missing; before  *)
(* one it ends the thread.                                                 *)
TestReaderEnds ==
  /\ TestRuns
  /\ SeesEnd(testRead, up)
  /\ testRead' = IF testRead.got = <<>> THEN Thread("ended", <<>>)
                 ELSE [testRead EXCEPT !.at = "append"]
  /\ UNCHANGED <<pipe, down, up, step, testMain, history, event, answers,
                 appRead, dispatchVars, app, minutes>>

(* With the mutex: a full history loses its oldest message.                *)
TestReaderAppends ==
  /\ TestRuns
  /\ testRead.at = "append"
  /\ history' = Append(IF Len(history) >= MaxHistory THEN Tail(history)
                       ELSE history, testRead.got[1].msg)
  /\ event' = TRUE
  /\ testRead' = IF Len(testRead.got) = 3 THEN NewMessage
                 ELSE Thread("ended", <<>>)
  /\ UNCHANGED <<pipe, down, up, step, testMain, answers, appRead,
                 dispatchVars, app, minutes>>

(* ObjectPipe::error() in any of its threads ends the process.             *)
TestFails ==
  /\ TestRuns /\ testMain # "joined"
  /\ \/ ReadFails(testRead, up)
     \/ ~Writable /\ testMain \in {"object", "flush1", "flush2"}
     \/ ~Writable /\ testMain = "next" /\ step \in DOMAIN Script
        /\ Current.op = "post"
  /\ testMain' = "failed"
  /\ UNCHANGED <<pipe, down, up, step, testRead, history, event, answers,
                 appRead, dispatchVars, app, minutes>>

---------------------------------------------------------------------------
(* The application's reader thread: a message has two strings.             *)

AppReaderWaits ==
  /\ AppRuns
  /\ NothingYet(appRead, down)
  /\ appRead' = [appRead EXCEPT !.at = "pending"]
  /\ UNCHANGED <<pipe, down, up, testVars, dispatchVars, app, minutes>>

AppReaderReads ==
  /\ AppRuns
  /\ MayRead(appRead, down)
  /\ down' = <<>>
  /\ LET got == appRead.got \o down
     IN  appRead' = Thread(IF Len(got) = 2 THEN "post" ELSE "call", got)
  /\ UNCHANGED <<pipe, up, testVars, dispatchVars, app, minutes>>

AppReaderEnds ==
  /\ AppRuns
  /\ SeesEnd(appRead, down)
  /\ appRead' = IF appRead.got = <<>> THEN Thread("ended", <<>>)
                ELSE [appRead EXCEPT !.at = "post"]
  /\ UNCHANGED <<pipe, down, up, testVars, dispatchVars, app, minutes>>

AppReaderPosts ==
  /\ AppRuns
  /\ appRead.at = "post"
  /\ posted' = Append(posted, appRead.got[1].msg)
  /\ appRead' = IF Len(appRead.got) = 2 THEN NewMessage
                ELSE Thread("ended", <<>>)
  /\ UNCHANGED <<pipe, down, up, testVars, handling, stage, uiVars, noise, app,
                 minutes>>

---------------------------------------------------------------------------
(* The application's dispatch thread.                                      *)

Looping == app = "running" /\ stage = "get"

(* A broadcast of the application itself: databaseChanged, imageAdded, ... *)
Noise ==
  /\ Looping
  /\ noise < MaxNoise
  /\ noise' = noise + 1
  /\ posted' = Append(posted, Msg("noise", noise'))
  /\ UNCHANGED <<pipe, down, up, testVars, appRead, handling, stage, uiVars,
                 app, minutes>>

DispatchPosted ==
  /\ Looping
  /\ posted # <<>>
  /\ handling' = Head(posted)
  /\ posted' = Tail(posted)
  /\ stage' = "execute"
  /\ UNCHANGED <<pipe, down, up, testVars, appRead, uiVars, noise, app, minutes>>

(* ApplicationTester::eventReceived() executes the command.  testerSendWM  *)
(* sends WM_CLOSE to the active window: the dialog, when there is one, and *)
(* otherwise the frame, whose destroy() begins the shutdown.  testerSendVK *)
(* only puts the key into the input queue.                                 *)
Execute ==
  /\ app = "running" /\ stage = "execute"
  /\ CASE handling.cmd = "close" /\ dialog # "none" ->
            dialog' = "none" /\ UNCHANGED <<posted, keys, frame>>
       [] handling.cmd = "close" /\ dialog = "none" /\ frame # "destroyed" ->
            /\ frame' = "destroyed"
            /\ posted' = Append(posted, Msg("shutdown", 0))
            /\ UNCHANGED <<dialog, keys>>
       [] handling.cmd = "key" ->
            keys' = keys + 1 /\ UNCHANGED <<posted, dialog, frame>>
       [] OTHER -> UNCHANGED <<posted, uiVars>>
  /\ stage' = "write1"
  /\ UNCHANGED <<pipe, down, up, testVars, appRead, handling, noise, app, minutes>>

(* It writes the command, the parameter and the result.                    *)
Places == {"write1", "flush1", "write2", "flush2", "write3", "flush3"}
NextPlace(s) ==
  CASE s = "write1" -> "flush1" [] s = "flush1" -> "write2"
    [] s = "write2" -> "flush2" [] s = "flush2" -> "write3"
    [] s = "write3" -> "flush3" [] s = "flush3" -> "others"
Part(s) ==
  CASE s = "write1" -> 1 [] s = "write2" -> 2 [] s = "write3" -> 3
    [] OTHER -> 0

AppWrites ==
  /\ app = "running" /\ Part(stage) > 0
  /\ Writable
  /\ up' = <<[msg |-> handling, part |-> Part(stage)]>>
  /\ stage' = NextPlace(stage)
  /\ UNCHANGED <<pipe, down, testVars, appRead, posted, handling, uiVars,
                 noise, app, minutes>>

AppFlushes ==
  /\ app = "running" /\ stage \in {"flush1", "flush2", "flush3"}
  /\ Flushed(up)
  /\ stage' = NextPlace(stage)
  /\ UNCHANGED <<pipe, down, up, testVars, appRead, posted, handling, uiVars,
                 noise, app, minutes>>

(* The listeners behind the tester: Help opens its dialog, Frame posts     *)
(* WM_CLOSE to itself.                                                     *)
Others ==
  /\ app = "running" /\ stage = "others"
  /\ dialog' = IF handling.cmd = "about" /\ dialog = "none" THEN "open"
               ELSE dialog
  /\ frame' = IF handling.cmd = "exit" /\ frame = "open" THEN "closing"
              ELSE frame
  /\ handling' = NoMsg
  /\ stage' = "get"
  /\ UNCHANGED <<pipe, down, up, testVars, appRead, posted, keys, noise, app,
                 minutes>>

(* A key closes the dialog, if one is open (Return and Escape both do).    *)
GetKey ==
  /\ Looping
  /\ keys > 0
  /\ keys' = keys - 1
  /\ dialog' = IF dialog = "open" THEN "closing" ELSE dialog
  /\ UNCHANGED <<pipe, down, up, testVars, appRead, posted, handling, stage,
                 frame, noise, app, minutes>>

GetDialogClose ==
  /\ Looping
  /\ dialog = "closing"
  /\ dialog' = "none"
  /\ UNCHANGED <<pipe, down, up, testVars, appRead, posted, handling, stage,
                 keys, frame, noise, app, minutes>>

(* WM_CLOSE of the frame: a dialog is destroyed with its owner.            *)
GetFrameClose ==
  /\ Looping
  /\ frame = "closing"
  /\ frame' = "destroyed" /\ dialog' = "none"
  /\ posted' = Append(posted, Msg("shutdown", 0))
  /\ UNCHANGED <<pipe, down, up, testVars, appRead, handling, stage, keys,
                 noise, app, minutes>>

(* The message loop ends when nothing is left to dispatch, and fini() is   *)
(* called.                                                                 *)
LoopEnds ==
  /\ Looping
  /\ frame = "destroyed" /\ posted = <<>> /\ keys = 0
  /\ app' = "fini"
  /\ UNCHANGED <<pipe, down, up, testVars, appRead, dispatchVars, minutes>>

(* fini(): the tester is no listener any more; the reader is joined, the   *)
(* pipe closed.                                                            *)
Fini ==
  /\ app = "fini"
  /\ appRead.at = "ended"
  /\ app' = "exited"
  /\ UNCHANGED <<pipe, down, up, testVars, appRead, dispatchVars, minutes>>

AppFails ==
  /\ AppRuns
  /\ \/ ReadFails(appRead, down)
     \/ ~Writable /\ Part(stage) > 0
     \/ ~Writable /\ stage \in {"flush1", "flush2", "flush3"}
  /\ app' = "error"
  /\ UNCHANGED <<pipe, down, up, testVars, appRead, dispatchVars, minutes>>

---------------------------------------------------------------------------
(* A minute goes by without a string: a reader that waits gives up, and    *)
(* error() ends its process.  waitForBroadcast() would wait five.          *)
Minute ==
  /\ minutes < script.minutes
  /\ minutes' = minutes + 1
  /\ pipe = "connected" /\ ~Broken
  /\ up = <<>> /\ down = <<>>
  /\ \/ testRead.at = "pending" /\ testMain' = "failed" /\ UNCHANGED app
     \/ appRead.at = "pending" /\ app' = "error" /\ UNCHANGED testMain
  /\ UNCHANGED <<pipe, down, up, step, testRead, history, event, answers,
                 appRead, dispatchVars>>

TestMain == \/ TestWrites \/ TestFlushes \/ TestWakes \/ TestTakes
            \/ TestDisconnects \/ TestJoins
TestReader == \/ TestReaderWaits \/ TestReaderReads \/ TestReaderEnds
              \/ TestReaderAppends
AppReader == \/ AppReaderWaits \/ AppReaderReads \/ AppReaderEnds
             \/ AppReaderPosts
AppDispatch == \/ DispatchPosted \/ Execute \/ AppWrites \/ AppFlushes \/ Others
               \/ GetKey \/ GetDialogClose \/ GetFrameClose \/ LoopEnds \/ Fini

TestNext == /\ \/ TestMain \/ TestReader \/ TestFails
               \/ AppReader \/ AppDispatch \/ AppFails
               \/ Noise \/ Minute
            /\ UNCHANGED script

TestSpec == TestInit /\ [][TestNext]_testerVars

---------------------------------------------------------------------------
Messages ==
  {Script[i].msg : i \in 1..Len(Script)}
    \union {Msg("noise", i) : i \in 1..MaxNoise} \union {Msg("shutdown", 0)}
ReaderOK(t) ==
  /\ t.at \in {"call", "pending", "append", "post", "ended"}
  /\ t.got \in Seq([msg : Messages, part : 1..3])

TesterTypeOK ==
  /\ script \in Scripts
  /\ pipe \in {"connected", "disconnected"}
  /\ down \in Seq([msg : Messages, part : 1..3]) /\ Len(down) <= 1
  /\ up \in Seq([msg : Messages, part : 1..3]) /\ Len(up) <= 1
  /\ step \in 1..(Len(Script) + 1)
  /\ testMain \in {"next", "object", "flush1", "flush2", "take", "join",
                   "joined", "failed"}
  /\ ReaderOK(testRead) /\ ReaderOK(appRead)
  /\ history \in Seq(Messages) /\ Len(history) <= MaxHistory
  /\ event \in BOOLEAN
  /\ posted \in Seq(Messages)
  /\ handling \in Messages \union {NoMsg}
  /\ stage \in Places \union {"get", "execute", "others"}
  /\ dialog \in {"none", "open", "closing"} /\ keys \in Nat
  /\ frame \in {"open", "closing", "destroyed"}
  /\ app \in {"running", "fini", "exited", "error"}
  /\ noise \in 0..MaxNoise /\ minutes \in Nat

(* assert(history_len > 0) of waitForBroadcast(): the event that woke the  *)
(* main thread is not left over from a history that was emptied since.     *)
TakeFindsHistory == testMain = "take" => history # <<>>

Step(op) == {i \in 1..Len(Script) : Script[i].op = op}
Awaits(w, p) == p < w /\ Script[w].msg = Script[p].msg

(* A script that waits once for each of its posts, in their order.         *)
Paired ==
  /\ \A p \in Step("post") : \E w \in Step("wait") : Awaits(w, p)
  /\ \A w \in Step("wait") : \E p \in Step("post") : Awaits(w, p)
  /\ \A p, q \in Step("post"), v, w \in Step("wait") :
       Awaits(v, p) /\ Awaits(w, q) => (p < q <=> v < w)

(* What is posted and not yet awaited at a step; with all that the         *)
(* application may broadcast of its own it has room in the history.        *)
Outstanding(k) ==
  {p \in Step("post") : p <= k /\ \E w \in Step("wait") : k <= w /\ Awaits(w, p)}
Room ==
  \A k \in 1..Len(Script) : Cardinality(Outstanding(k)) + MaxNoise + 1 <= MaxHistory

(* What test_connection() asserts of the answers: through two processes,   *)
(* three queues and the dialog, each wait gets the answer to its own post. *)
OwnAnswers == \A i \in DOMAIN answers : answers[i] = Script[i].msg

(* Each WM_CLOSE that a script sends is for a dialog it has opened, which  *)
(* no key has closed.                                                      *)
DialogFirst ==
  \A c \in Step("post") : Script[c].msg.cmd = "close" =>
    /\ \A p \in Step("post") : p < c => Script[p].msg.cmd # "key"
    /\ \E a \in Step("post") :
         /\ a < c /\ Script[a].msg.cmd = "about"
         /\ \A p \in Step("post") : a < p /\ p < c => Script[p].msg.cmd = "connect"

(* The WM_CLOSE that test_xyz() sends to the active window finds the       *)
(* dialog of the command before it: the frame is closed only by the last   *)
(* command of the script.                                                  *)
CloseReachesDialog ==
  frame # "open" => \E i \in 1..Len(Script) : i <= step /\ Script[i].msg.cmd = "exit"

(* While the pipe is connected, no error ends either process: the writers  *)
(* and readers of the two agree, and fini() leaves the pipe open.          *)
NoErrorBeforeDisconnect ==
  pipe = "connected" => app # "error" /\ TestRuns

(* Each wait gets the answer to its own post, the event that wakes it is   *)
(* not left over, commands reach the window they are meant for, and while  *)
(* the pipe is connected and not silent nothing ends in an error.          *)
AnswersInOrder ==
  /\ TesterTypeOK /\ TakeFindsHistory
  /\ Paired /\ Room => OwnAnswers
  /\ Paired /\ DialogFirst => CloseReachesDialog
  /\ minutes = 0 => NoErrorBeforeDisconnect

(* The two processes, each waiting for the other to read, never wait for   *)
(* ever: the script comes to its end.                                      *)
ScriptEnds == <>(step = Len(Script) + 1)

(* However one of the processes ends, by silence, by an error or in order, *)
(* the other does not stay behind.                                         *)
BothEnd == <>[](testMain \in {"joined", "failed"} /\ ~AppRuns)

(* What the comment in WinMain takes for granted of the debug build the    *)
(* test starts: the application it told to exit gets to the end of fini(). *)
OrderlyExit == app # "error"

(* What waitForBroadcast() provides for and reports: the test waits five   *)
(* minutes for an answer before it gives up.                               *)
FullWait ==
  ~TestRuns /\ step \in DOMAIN Script /\ Current.op = "wait" => minutes >= 5
===============================================================================
