# kolobok: a verification project in TLA+

kolobok is a Windows picture viewer (C++, one process). A user interface
thread runs a message loop; a database of images lives behind a worker thread;
a second background thread reads the metadata of every image that is added.
This directory holds models of those parts, the TLC runs that check them on
small instances, and proofs about them for TLAPS.

Paths below are relative to the repository.

## 1. Inventory

| Component | State | Operations | Interacts with |
|---|---|---|---|
| **Message queue** `inc/tiny.h` (`MessageQueue`, `Message`), `inc/impl/MessageQueue.cpp` | the thread's message queue, list of listeners, `shutdown`, `shutdownDelay` | `post`, `invokeLater`, `messageLoop`, `notifyAll`, `initiateShutdown`, `delayShutdown`, add and remove a listener | everything: jobs come back through `invokeLater`, components talk by broadcast |
| **Database** `src/kolobok/Database.cpp:578-1208` | a circular list of jobs under a critical section, the event `job`, `peer`, the worker thread | 13 public methods (11 asynchronous with a callback, 2 blocking), `addJob`, `removeJob`, `worker`, `eventReceived`, `finalize` | its callers on any thread, the provider (worker only), the message queue |
| **SQLiteProvider** `Database.cpp:36-576` | the file, one connection, 14 prepared statements, a transaction | `open`, `close`, `add`, `get`, `getFilename`, `remove`, `updateThumbnail`, `updateMetadata`, `count`, `getIds`, push, pop, count, remove and bump of stack items | SQLite 3.2.8 |
| **MetadataReader** `src/kolobok/MetadataReader.cpp` | a thread, an event, `shutdown` | `ping`, `worker`, `processMedia`, `eventReceived` | Database (blocking and asynchronous), broadcasts |
| **Application, Frame** `Application.cpp`, `Frame.cpp` | current database, reader, frame | `setDatabase`, `createFrame`, `destroy`, File/Open and New | creates and deletes Database and MetadataReader, starts the shutdown |
| **Containers** `tiny.h:787-1775` | LinkedList, ByteArray, ArrayList, HashMap, HashSet | add, remove, put, get, iterate | used everywhere, also as message parameters |
| **XML codec** `tiny.h:2057-2530` | none | `encode`, `decode` | the provider, Skin, ObjectPipe |
| **Skin** `Skin.cpp` | skin.xml, skin.png or a folder of images, caches, command state | `load`, `pack`, `unpack`, `updateCommandsState` | broadcasts, the file system |
| **Controls, ToolTips, Panel, Help, BorderLayout** | windows, layout | listeners, painting, layout | broadcasts, Skin |
| **FolderIterator** | a queue of folders, a find handle | `hasNext`, `next` | the file system |
| **ExifReader** | a parsed file | `read` | MetadataReader |
| **Drag and drop** `inc/impl/DnD.cpp` | a binary tree of drop targets, a tracker | register, revoke, drag, init, fini | Windows |
| **Window** `inc/impl/Window.cpp` | listeners and properties of a window | add, remove, notify | Windows |
| **Tester** `ObjectPipe.cpp`, `ApplicationTester.cpp`, `tests/test_app.cpp` | a pipe, a bounded history of broadcasts | send a command, wait for a broadcast | a second process |
| **Images, strings, start-up** | none that matters | codecs, drawing, tracing | - |
| `externals/` | vendored libraries | - | - |

What makes these parts correct, and what is hard about them:

* *Message queue*: a shutdown that is put off again and again still ends; no
  message is left when the loop ends; a listener removed by a handler is not
  called again; handlers nest when a modal loop runs inside one.
* *Database*: no job is lost, run twice, run out of order or used after it was
  deleted; the worker never sleeps through a job; a blocked caller gets its
  answer; after `finalize()` nothing is left. Callers on several threads race
  with each other, with the worker and with the shutdown.
* *SQLiteProvider*: an operation happens as a whole or not at all, and what it
  reports is true, whichever statement fails, finds the file locked, or is cut
  off; nothing stays behind that breaks the next operation.
* *MetadataReader*: every image gets processed although pings are sent before
  the rows they announce; no image without a file; the thread is gone from the
  database before the database is deleted.
* *Listeners and windows*: a broadcast reaches everybody who is there, and
  nobody who is not, although handlers run modal loops that dispatch further
  messages; windows and the objects behind them end in any order.
* *Containers*: each implements the sequence, set or function it stands for;
  an iterator notices a modification; the job list is read without its lock.
* *Skin*: no edit of a designer is lost between the folder and the packed
  picture; the menu shows what can be done.
* *XML codec, ExifReader, FolderIterator*: what is read is what was written;
  parsing ends whatever the file says; files come once while others move them.
* *Drag and drop*: a tree that finds what was put into it; a target is left as
  often as it is entered.
* *Tester*: two processes that both read and write one pipe neither block each
  other nor take one answer for another.
* *setDatabase*: three threads use two objects that are being replaced.
* *SQLite's pager* (vendored, but every promise of the store rests on it): one
  atomic file for several processes, through kills and power failures.

## 2. Plan

Order of work, the behaviour that matters most first.

Done:

1. `MessageQueue`, `JobService` (abstract), `Database`: the executor and its
   shutdown; refinement to the abstract executor; **proved** (`Database_proofs`).
2. `MetadataReader`: Database composed with its most demanding client;
   **proved** on top of Database (`MetadataReader_proofs`).
3. `MediaStore` (abstract), `SQLiteProvider`: operations statement by statement,
   refining an atomic store; **proved** (`SQLiteProvider_proofs`).
4. `Broadcast`, `WindowHook`, `FrameWindow` with `BorderLayout`, `CommandState`:
   the dispatch thread's listeners, windows, dialogs and commands. All but
   CommandState are **proved** (`Desktop_proofs`).
5. `JobList` refining `JobQueue`; `HashMap` and `DropTargets` refining
   `AssocMap`; `ArrayList` and `LinkedList` refining `ObjectList`. HashMap,
   JobList and ArrayList are **proved** (`Containers_proofs`).
6. `Tester`, `DatabaseSwitch`: two processes; databases that replace another;
   both **proved** (`Processes_proofs`).
7. `PagerLocks` refining `AtomicFile`, **proved** (`Processes_proofs`); `Pager`
   refining `Transactions`, **proved** (`Pager_proofs`).
8. `SkinFiles`, `PackLayout`, `FolderIterator`, **proved** (`Files_proofs`);
   `DragTracker`, `XMLCodec`, `ExifReader`.

What stays with TLC: `LinkedList`, `DropTargets` and `DragTracker` above it,
`XMLCodec` and `ExifReader` (what recursive definitions compute); `CommandState`,
whose properties are about liveness; and all liveness.

## 3. Modules

### MessageQueue

The dispatch thread. `posted` is the thread's message queue, `loop` the place
in `messageLoop()`: waiting in `GetMessage`, inside a handler, at the shutdown
test behind `DispatchMessage`, or ended. A message is a job that was passed to
`invokeLater`, or a broadcast; window messages are one action, `Input`, since
their content decides nothing here. `GetMessage` hands out posted messages in
order and only then `WM_QUIT`; that is Windows' rule. The module is open: what a
handler does is conjoined by the component that listens.

Assumed of Windows: posted messages are neither lost nor reordered (the code
`check`s every `PostThreadMessage`), and no input arrives once the main window is
destroyed, which is where the shutdown starts.

### JobService

What Database promises: accepted jobs are executed one at a time, in order,
each once; asynchronous ones are called back in that order, each once; blocking
ones are answered. `SafeSpec` is the safety part; `Spec` adds that everything
accepted is executed and delivered.

### Database

| Model | Code |
|---|---|
| `queue` | the circular list from `head`; its pointers are the subject of `JobList` |
| `job` | the auto-reset event, and whether JobFinalize closed it |
| `peer`, `worker`, `running` | `peer`, the place in `worker()`, the job between `removeJob()` and the end of `run()` |
| `error`, `answered` | the jobs' `error` fields; blocking jobs whose event is set |
| `pc`, `cur` | where each thread is in a method, and the job its stack still points to |
| `Call`, `AddJob`, `SignalWorker`, `Return`, `Joined` | a public method up to its `addJob`; the critical section; `SetEvent`; the two waits |
| `Wake`, `WorkerExits`, `QueueIsEmpty`, `RemoveJob`, `RunAsync`, `RunBlocking`, `RunFinalize` | `worker()` and the jobs' `run()` |
| `DispatchDone`, `PutOffShutdown`, `BeginFinalize` | `_dispatch()`, `eventReceived("shutdown")` |

The test of `peer` and the allocation are one step, the critical section a
second, `SetEvent` a third: other threads may act between them, which is what
the races of the shutdown need. The unlocked test of `head` in `removeJob` is one
step with its critical section: the worker is the only thread that removes.
A job is a model value that can be allocated again when nobody points to it.
`MayFail` names the jobs whose provider call may return an error; a call on a
closed provider is misuse.

### MetadataReader

Database with `Threads` = the reader's thread, the METADATA stack, the ping
event, and the three kinds of broadcast the two components exchange. The
dispatch thread's handlers are split where they block (`after` says what is left
to do when `addJob` or `finalize` returns). Reading a file has three outcomes,
given by `Unreadable` and `Thumbless`. A dereferenced null pointer is the state
`crashed`, in which nothing moves.

### MediaStore and SQLiteProvider

`MediaStore` is the table of images, their metadata and thumbnails, and one
stack, changed by one `Effect` per operation, at once or not at all. Operations
in `Truthful` report success only if they took effect.

`SQLiteProvider` runs the operations statement by statement. `Program` is the
list of statements of an operation as long as nothing fails; `Start` is `BEGIN`,
`Query`, `Write`, `WriteAdd` and `WriteBump` use one statement (reset, bind,
step), `Commit`, `Abort` and `Return` end the operation. `disk` is the committed
file, `work` what the connection sees. The state of each statement outlives the
call: a reset reports the error of the last run, a statement stopped by a lock
stays active and keeps `COMMIT` and `ROLLBACK` from working. These rules are read
off SQLite 3.2.8 in `externals/` (`sqlite3VdbeReset`, `sqlite3VdbeHalt`,
`OP_AutoCommit`, `OP_Transaction`). `bumpStackItems` is modelled as written: it
steps the statement ADD (line 522).

A behaviour keeps to one `world`: the operations that are used, the statements
that may find the file locked, and whether the process may die; `Worlds` says
which ones there are.

Simplifications: one stack (METADATA) instead of two, since every statement is
keyed by the stack (a row of it is its id and the guid); lists of one or two
items; a file name has no identity of its own; `count` and `getIds`, which
neither use nor leave state, are left out; a lock may be met by a connection that
has not yet written (`work = disk`), and may be gone at the next statement, which
allows more than a real second connection would do.

### Broadcast

The listeners of `MessageQueue` and who they are: `skin`, `help`, `frame`, the
panels, the buttons of the tool bar and of the About dialog, the readers. `stack`
holds the calls of `notifyAll` that have not returned: each its message, its
clone of the list (`tiny.h:2720`) and whom it has called. A handler that opens a
file dialog puts a modal loop on the stack, and that loop gets and dispatches
messages (`ModalGet`) until the user ends it. Panes are deleted by
`Frame::destroy`, buttons by a job they post (`RunSuicide`). What a broadcast
does when it calls a deleted listener is undefined; the model notes it in
`deadCalls`, with whether the broadcast had been nested, and goes on.

### WindowHook

One window: `windowHook` (`MessageQueue.cpp:97-215`), others that
subclass it (in the run two), the property map, and the listeners of `Window.cpp`. `wndproc`
is what Windows has, `chain` the property `hookedChain`, `calling` the procedures
being run, each with the chain it read (`next`). A subclasser restores what it found
at WM_DESTROY, at WM_NCDESTROY or never (`Plans`), before or after it passes the
message on. `OneOrder` is what the hook needs of them: where one restores before it
passes WM_DESTROY on and another after, the hook takes itself out below the second,
who brings it back without its chain, and WM_NCDESTROY never reaches the window's
procedure. The run has all plans with `OneOrder`, those of the code's comment
among them (the first hook of "Edit" restores, the second never does).

### CommandState, FrameWindow, BorderLayout

`CommandState` is the round trip of `updateCommandsState`: timer, broadcast,
contributions, the destructor that sets the menu and posts a second message.
The timer comes only when nothing else is queued. `FrameWindow` has the windows
of the frame, its panels and two About dialogs, the objects behind them
(`objects`), which are bound to a window or listen, and a queue. The rectangles
come from `BorderLayout!Layout`, a function of the size: SetWindowPos makes
negative sizes zero. The main window, the help's dialog and the panels that listen
are `mainWindow`, `helpDialog` and `panelListeners`. Broadcast and FrameWindow look at the same code from two
sides: who is called in the middle of a broadcast, and what is created, disabled
and destroyed with what.

### JobList, HashMap, ArrayList, LinkedList, DropTargets

Abstract: `JobQueue`, `AssocMap`, `ObjectList`. `JobList` takes `addJob` and
`removeJob` one assignment at a time, `cs` as a lock, the test of `head` outside
of it; jobs are memory that is used again. The list it stands for is the one
sequence that the pointers allow (`Chain`). `HashMap` has the table with its
growth at 3/4 and its shrinking, and an `EntryIterator`; a chain is a set, since
only the iterator sees its order, and may find any. `use` says what a behaviour
does with the map: its keys and values, the `habits` of its loops (to put a value
that is there, to be left early), a bound on the modifications (`limit`). A clone, a HashSet and
`equals` add nothing to this state. `ArrayList` has the array with its capacity;
ByteArray is the same code. `LinkedList` has the entries with both pointers.
`DropTargets` is the tree of `DnD.cpp`: `ExtractDropTarget` gives the place of a
node to its left subtree and inserts the right one anew.

### DragTracker

`doDragDrop`'s own message loop over `DropTargets`: mouse, buttons, keys,
WM_QUIT, and `fini`. `Habits` says what else the application does: revoke
targets in the middle of a drag, fail in the source, quit, keep targets.

### Tester

Test and application over one pipe: the test's main and reading threads, the
application's reading thread and its dispatch thread, with the dialog and the
main window as far as the script depends on them. A write is followed by a flush,
which waits until the other side has read. `history` is the array of broadcasts
with its limit, `event` its event. A read that waits for a minute ends its process.
What the test does, and how many minutes of silence there may be, is chosen at the
start from `Scripts` and is `script` from then on. A script is any sequence of posts
and waits; what is promised of the answers is promised to those that are `Paired`
(each post is awaited once, in the order of the posts) and leave `Room` in the
history for what is not yet awaited and for the application's own broadcasts; that
WM_CLOSE finds its dialog, to those that open one before (`DialogFirst`). The script
of `test_app()` is all three.

### DatabaseSwitch

`setDatabase` with a database that is already open: the worker, the reader and
the callbacks of each of three databases. `object` and `mr` say what has been
deleted, `main` is the database for whose sake the dispatch thread waits in
`~Database`, `messages` its queue; a use of a deleted object is recorded and ends
the behaviour. `Patient`: another database is opened only while the reader has
nothing to do.

### PagerLocks and AtomicFile

The locks of `os_win.c` (PENDING, RESERVED, SHARED) and the pager's steps between
them, one per call of the operating system, for several processes. Locks are those of
Windows NT; on Windows 95 a reader locks one byte at random. A transaction
writes every page with the next version, so that a page that is read shows from
which transaction it is; `AtomicFile` says that all pages a process reads in a
transaction are of the last one committed. `world` has the processes of a
behaviour, those that leave a cursor open or are impatient, and how many kills and
failing writes there may be. It is `Orderly` without kills and cursors and `Alone`
with one process.

### Pager and Transactions

One process with the page cache, the journal, the statement journal, the flags of
`PgHdr`, spilling, the freelist with `dont_write` and `dont_rollback`. `disk` is
what of the file survives a power failure: for each page one of several values
until `SyncFile`. `Transactions` has a committed and a current content and a mark
for the statement. Assumed: the deletion of the journal is durable, and a page is
written as a whole. `world` has the circumstances of a behaviour, chosen in Init:
the pages that may be freed, those that may be spilled, whether a cursor keeps the
cache over a rollback, whether there are statements, which faults there are and how
many, and how many changes. `Orderly` excludes the worlds of findings 15-17: a
cursor together with pages freed or spilled, and a second fault where the power may
fail. The refinement mapping: `committed` is what a recovery would make of the file
now, `current` what the B-tree sees (while something is rolled back, what that will
come to), a free page has no content.

### SkinFiles, PackLayout

`SkinFiles`: `load`, `pack` and `unpack` file by file, and the designer who edits.
`design` has the circumstances of a behaviour: whether the program is of the version
of its skin, where it may die (`crashIn`), and the bounds. `PackLayout`: the bubble
sort by area and the placement in rows of `MaxWidth`, for every list of up to
`MaxPictures` pictures.

### FolderIterator, XMLCodec, ExifReader

`FolderIterator`: the queue of paths, the open search, and other programs that
create, move and delete. A path is the sequence of names that `add` joins;
`Under` is the set of entries below a folder, the least set closed under "is in".
`moved` has the entries whose path has changed; the property is about the others.
`XMLCodec`: `Encode` as an operator; `decodeObject` as a
machine whose `stack` is the recursion of the code. `ExifReader`: a segment a
step, then an entry a step; a directory is what the pointers of the file say,
the directory being read included.

## 4. Runs

The runs of Database are of the module itself; `MCMetadataReader`, `MCStore` and
`MCPager` EXTEND one module and give it values. `MCContainers` EXTENDS `HashMap`,
`JobList` and `ArrayList`, `MCDesktop` `Broadcast`, `FrameWindow` and `WindowHook`,
`MCProcesses` `PagerLocks` and `DatabaseSwitch`, `MCFiles` `SkinFiles`, `PackLayout`
and `FolderIterator`, so that the properties they check are the ones the theorems
are about. The other modules are instantiated there: the variable `part`, chosen in
Init, says which of them a behaviour is about, and the variables of the others stay
at their initial values. The parts share no state in the models, as in the code they
share none directly, so one run asks of each what a run of its own would ask, with
the bounds written at its INSTANCE or among its worlds. Where a property holds in
one part only, it says so (`part = ... =>`).

| Run | Shows | Distinct states |
|---|---|---|
| `database_main` | With the dispatch thread as only client: `finalize()` drains, quitting leaves nothing, every accepted job is served, a shutdown ends | 17 000 |
| `database_threads` | Two background threads with a blocking call each and a shared asynchronous request, shutdown at any moment: no lost wake-up, one owner per job, serial order | 966 000 |
| `reader_import` | Two images, frame open: every readable image is stored | 170 000 |
| `reader_shutdown` | Two images, frame closed at any moment, failing open and pop: the reader is out of the database at exit | 540 000 |
| `reader_pending` | *violation*: dispatch thread and reader wait for each other at shutdown | - |
| `store` | SQLiteProvider in four worlds: all operations but bump without locks: atomic, truthful, metadata with its image; with locks on four statements and commit, crashes anywhere: atomic; with bump: nothing left open; with bump, locks, crashes: `add` never lies | 4 960 000 |
| `store_bump_front` | *violation*: bump leaves the stack as it was and reports success | - |
| `containers` | HashMap with five keys and nine modifications (466 000), with an iterator, with loops that put what is there or are left early; ArrayList (1 000), LinkedList, JobList with two threads, DropTargets with five windows (3 000) | 585 000 |
| `desktop` | Broadcasts with two nested loops (256 000) and to their end (10 000), commands (500), WindowHook (70 000), FrameWindow (8 000), drags, orderly and not | 373 000 |
| `processes` | The test script, silence, three databases in turn (130 000), PagerLocks with three processes (30 000), one that is killed three times, two of which one is killed (25 000), two that never give up (700) | 232 000 |
| `files` | XMLCodec on 246 objects, ExifReader on 1353 images, FolderIterator (233 000), SkinFiles with edits and with crashes, PackLayout (14 000) | 263 000 |
| `pager` | Pager with kills and rollbacks and four changes of pages, with a power failure and three changes, with a cursor and five | 1 720 000 |

Each property of a passing run has a mutant of the code that breaks it (a
definition named `X_Something` before `X`): a dropped `SetEvent`, `if` for
`while`, a missing join, a missing rollback. Where a property is a conjunction
over several modules, the mutant is of one of them.

**What the properties of the larger runs are about.** `ListenersLive`: what is
registered is alive, a deleted listener is called only by a broadcast inside which a
modal loop ran, and no button is left at the end. `EveryoneHears`: once each, among
those registered from the beginning to the end of a broadcast. `FrameIsInOrder`:
what a window, a list of listeners or the queue can reach is alive (`OnlyLiveObjects`),
at most one dialog is open and the frame is disabled just then (`ModalAbout`), its
panels cover it (`Tiles`). `HookIsOrderly`: a message sent to a window reaches its
own procedure once (`NothingLost`), the hook has its chain as long as it needs it,
and neither it nor its maps outlive the window (`NothingKept`). `CallsAreOrderly`: a
target sees enter, over, leave or drop, as IDropTarget has it, and no reference of
the registry is lost. `IsQueue`: the linked list is a queue although `head` is read
outside of the critical section. `ContainersRefine`: the other containers are well
formed (`WellFormed`) and are sequences and maps. `AnswersInOrder`: each wait of the test
gets the answer to its own post. `WriterHoldsLocks`: a process that writes has
the locks and the journal it needs; no two write, nobody reads what is half
written. `CacheAgrees`, `TransactionsAreAtomic`: with the pager's flags, what is in
the cache between transactions is in the file; a step changes what is seen and what
a recovery would find only as a file with atomic transactions does, and the second
of them only by a commit. `SkinIsKept`, `OnlyPackLoses`: an edit is in the folder or in the
picture; a crash outside `pack` loses none. `NothingIsMixedUp`, `ReadsBack`: no
part of a text is read as something else, no directory of an image is read for
ever, no picture is drawn over another, all of it is read, and reading ends.
`StableFilesOnce`: a file that stays where it is is returned once, whatever else
moves.

**Bounds.** Jobs are reused after their answer, so a handful of them gives
behaviours of any length: nothing counts calls, and the state space is finite
by itself. Two background threads and the dispatch thread are enough for every
pair of steps to interleave with the worker, and two requests for order to be
visible. Two images make ids collide (`MaxId` = 2: the second image reuses the
id of a removed one) and stacks of two rows tell front from back (`MaxStack`).
`Values` = 2 makes an update that stops after the first value visible. No bound
hides a full queue: the program has no limit on jobs.

Of the other modules: nine modifications take a table from 5 cells to 10 and back
(`limit`, and `MaxModified` of the list); three entries give a list a first, a middle and a last; a
broadcast and two loops inside it (`MaxLoops`) with three posts (`MaxPosts`) let
the inner loop delete what the outer one has still to call; five windows are the
fewest with which a removed node has subtrees of two on both sides; a history of four
(`MaxHistory`) is as small as the script allows, so that it does forget; two
pages and two versions (`MaxVersion`) show a mixture of transactions, three
processes a reader beside a writer beside one that waits; one fault per
behaviour of the pager (`maxFaults`), two with a cursor, since a power failure after
a rollback or during the recovery meets finding 15; two data pages, one of which may be
freed, and three to five changes (`maxChanges`) suffice to spill a page, free it and use
it again. Without `maxChanges` the configurations with kills and with a power failure were run to
their end once, with 8.6 and 6.3 million states and no error.

No run uses symmetry. Deadlock is not checked in the reader's runs that close the
frame, where the code really can stop (`reader_pending` is the reason), nor in
`desktop`, `processes`, `files` and `pager`, where the application, the test, an
iteration or a bounded number of transactions comes to an end.

**Fairness.** Threads get scheduled (weak fairness of each caller's and the
worker's steps, which no other thread disables for good). The dispatch thread
alternates between handlers; Windows hands out posted messages in order and
before input, and handlers return: strong fairness of dispatching and of
returning, since input steps in between disable them for a while. Nothing is
assumed of the user: `Call`, `Input`, `InitiateShutdown` and an import have no
fairness. `ShutdownEnds` is conditional: the components eventually stop
calling, otherwise `head != null` may put the shutdown off for ever.
`DesktopSettles` has weak fairness of the dispatch thread, whose steps only it
disables, and of the timer, which in CommandState is offered when the queue is
empty and stays so until something is posted, a bounded number of times; a file
dialog need not be closed. `EverybodyFinishes`: the threads of both processes
of the test, of the databases, and the processes that wait for the file in
PagerLocks run; a process need not start a transaction, but one that reads ends
reading. `ReadsBack`: the codec, the reader and a caller that goes on asking the
iterator.

## 5. Findings

Two are violation runs:

1. `reader_pending`: `eventReceived` says that finalizing ensures the last job's
   notification is dispatched (`Database.cpp:685`), and the loop promises to
   dispatch what is pending (`tiny.h:2700`). `updateMetadata`, `popStackItem` and
   `getFilename` test `peer != null` on the reader's thread; the dispatch thread
   finalizes, since Database hears of the shutdown before the reader is stopped;
   only then the job is added, and nobody runs it. With a blocking job the reader
   waits for its answer and the dispatch thread for the reader
   (`MetadataReader.cpp:32`). With an asynchronous one (`LastJobIsRun`) the
   callback is lost.
2. `store_bump_front`: `bumpStackItems` steps `sql[SQL_STACK_ADD]` instead of
   `sql_stack[SQL_STACK_ADD]` (`Database.cpp:522`), fails, rolls back, and returns
   the result of the rollback. `Database.h:37` promises "move items to the queue
   front".

The others were met while modelling; the property named is in the module, and
TLC finds its counterexample with the change of constants given.

3. `Broadcast.NoWindowAtQuit` (Commands = {"exit", "about"}): `helpAbout()`
   opens the dialog without looking at the shutdown (`Help.cpp:11`). A
   `commandHelpAbout` posted by another thread after the frame's WM_CLOSE is
   dispatched when the frame is gone; the dialog has no owner then and is
   never closed, against `assert(hooked.size() == 0)` at WM_QUIT
   (`MessageQueue.cpp:48`).
4. `CommandState.ButtonsFollow` (any): The second branch of
   `ButtonPanel::eventReceived` tests for "updateCommandsState" again
   (`Controls.cpp:53`), which the first branch has taken: no button is ever
   disabled, against the comment "This message comes after everybody has
   contributed" (`Controls.cpp:54`).
5. `CommandState.PackIsOffered` (MaxInputs = 2): Ctrl+P twice in a row reaches
   `pack()` when its folder is gone, since the menu is updated by a timer
   behind all input (`Skin.cpp:51`); `pack()` says `assert(canPack())`
   (`Skin.cpp:547`).
6. `WindowHook.ExcessIsReported` (MaxCalls = 3): `removeListener()` keeps the
   map when the last listener goes; one call too many looks up the set, gets
   null and uses it (`Window.cpp:25`), instead of the warning at line 32.
7. `HashMap.FailFast` without its `NoPutSame` (habits = {"putSame"}): `put()` of the object that is
   there already may grow the table and does not count that as a modification
   (`tiny.h:1417`): an iterator passes its check and reads a deleted entry,
   against "failfast" (`tiny.h:1365`). No loop of the application does this.
8. `HashMap.FailFast` without its `NoLeaving` (habits = {"leaveEarly"}): `~EntryIterator()`
   deletes the entry it stands on, which the map still holds, when a loop is
   left early (`tiny.h:1377`), as `HashMap::equals` (1508) and
   `updateMetadata()` (`Database.cpp:378`) do.
9. `Tester.OrderlyExit` (the script of `test_app()`): The test disconnects the pipe when it
   has the answer to commandFileExit (`test_app.cpp:389-391`); the application
   still reports "shutdown", fails and calls ExitProcess(1)
   (`ApplicationTester.cpp:80`), against what WinMain says of the debug build
   (`tiny.cpp:164`).
10. `Tester.FullWait` (a script with minutes = 1): `waitForBroadcast()` waits 300 seconds
    (`test_app.cpp:54-59`), but the thread that reads the pipe ends the
    process after 60 (`ObjectPipe.cpp:27,40-42`).
11. `DragTracker.QuitIsKept` (Habits = {"quit"}): The loop of `doDragDrop()`
    drops the WM_QUIT it gets (`DnD.cpp:243`), though it is there because it
    does not swallow messages (`tiny.h:2809-2811`).
12. `DragTracker.FiniEnds` (Habits = {"keep"}): `fini()` calls RevokeDragDrop
    of OLE32 for the windows in DnD's own tree (`DnD.cpp:270`), which never
    becomes empty by that.
13. `DatabaseSwitch.NothingUsesDeleted` (Patient = FALSE): `~MetadataReader`
    neither stops nor joins its thread (`MetadataReader.cpp:12`), which goes
    on using the deleted reader and database, where `setDatabase` says "for
    now we just close old DB" (`Application.cpp:52`).
14. `PagerLocks.HotIsPlayedBack` (two processes, crashes = 1):
    `sqlite3OsCheckReservedLock()` locks the byte for a moment
    (`os_win.c:745`): of two processes that open the file after a third was
    killed, one takes the lock of the other for that of a writer and reads the
    half written file, which "needs to be played back or deleted"
    (`pager.c:2334`).
15. `Pager.TransactionsAreAtomic` without `Orderly` (pages spilled, faults =
    {"rollback", "power"}, maxFaults = 2):
    `pager_playback()` writes the original pages back and deletes the journal
    without a sync of the file in between (`pager.c:1365`). When the power
    then fails, a page spilled before may be on the disk and what the playback
    wrote not. "Atomic commit and rollback" (`pager.c:14-16`). The recovery of
    a hot journal does the same.
16. `Pager.CacheAgrees` without `Orderly` (cursors = TRUE, leaves = {3}):
    `pager_reload_cache()` skips pages that are not dirty (`pager.c:1173`); one
    that was changed and then freed is clean and keeps the change, against
    `pager.c:3123`. It matters where the cache outlives the rollback, with
    another SELECT of the connection open.
17. `Pager.CacheAgrees` without `Orderly` (cursors = TRUE, spilled = {2, 3}):
    the loop of `pager_playback()` is left by goto only (`pager.c:1361`), so
    the call of `pager_reload_cache()` behind it, for pages journalled and
    never synced (`pager.c:1356-1358`), is never made.
18. `PagerLocks.WritesAlone` (cursors = impatient = {p1}):
    `sqlite3OsLock(EXCLUSIVE)` gives up the read lock and does not take it
    back when it fails (`os_win.c:702`): a connection with a cursor left open
    reads on without a lock, against `pager.c:87-89`.
19. `PagerLocks.ReadLockRegained` (two processes): "We should always be able
    to reacquire the read lock" (`os_win.c:777-778`); another process can take
    the range alone in between, and a commit that was done reports
    SQLITE_IOERR.
20. `XMLCodec.RoundTrip` (Objects with the text `</string>`, or a ByteArray):
    entities are decoded before the text is compared with the end tag
    (`tiny.h:2143`); a ByteArray, a type `formatValue` accepts
    (`Database.cpp:193`), is written as null (`tiny.h:2457`).
21. `ExifReader.InlineValues` (Images in Motorola order): a single SHORT is
    taken from the wrong half of the value field, and short texts in reverse
    order (`ExifReader.cpp:294,304`).
22. `ExifReader.MissingIsNoError` (Images without a thumbnail): `read()`
    answers false without a thumbnail (`ExifReader.cpp:178`), so the metadata
    of such an image is dropped, where `parseJpeg` says that missing APP1 is
    not an error (line 210).

## 6. Proofs

### `Database_proofs`

For all sets of threads, requests, blocking jobs and
all `MayFail`:

| Theorem | Statement |
|---|---|
| `TypeCorrect` | `Spec => []TypeOK` |
| `NoWakeupIsLost` | `Spec => []NoLostWakeup` |
| `JobsHaveOneOwner` | `Spec => []OnePlace` |
| `BlockedCallersAreServed` | `Spec => []BlockedJobIsHeld` |
| `AnswersComeFromRuns` | `Spec => []AnswersAreResults` |
| `FinalizeDrains` | `Threads = {}` implies `Spec => []FinalizedIsDrained` |
| `NothingIsLeft` | `Threads = {}` implies `Spec => []QuitLeavesNothing` |
| `DatabaseIsSerial` | `Spec => ServiceOrder`: Database implements `JobService!SafeSpec` |

From the assumptions of `Database` only: the dispatch thread is not a background
thread, jobs of different kinds are different, null and "shutdown" are not jobs.

**The argument.** None of the properties is inductive alone. `OnePlace` needs
that a caller about to add a job is the only one to point to it (`OneHolder`) and
that a blocking job in the list belongs to a caller still waiting for it
(`BlockingHeld`), for otherwise an answered job could be allocated again while
its old copy is queued. `FinalizeOnce` says that there is one JobFinalize: while
it is queued or run the dispatch thread waits in `finalize()` (`MainOK`), and
"shutdown" is received once at a time (`ShutdownOnce`), which is why `posted`
holds no message twice. `NoLostWakeup` is inductive on the place of the caller
between the critical section and `SetEvent`. `Inv` is the conjunction; there is
one lemma per action for `Inv /\ action => Inv'`, and `NextInv` combines them.

`FinalizeDrains` adds `NothingAfterFinalize`: the finalize job is the last in the
list. It holds only without background threads; with them finding 1 is the
counterexample. `NothingIsLeft` adds where the shutdown is on its way to the end of
the loop (`ShutdownOK`). `DatabaseIsSerial` maps the job being run followed by the
list to the pending jobs of the executor: `AddJob` is `Accept`, a `Run` is an
`Execute`, `RemoveJob` stutters, a handler is `Deliver`.

`Inv` has a parameter, the messages there may be, so that it serves Database
alone and Database in the message loop of the whole application.

### `MetadataReader_proofs`

For every set of images, every `MayFail` that `ReaderAssumption` allows and both
values of `FrameCloses`:

| Theorem | Statement |
|---|---|
| `ReaderTypes` | `MRSpec => []MRTypeOK` |
| `DatabaseServesReader` | `MRSpec => [](NoLostWakeup /\ BlockedJobIsHeld /\ AnswersAreResults)` |
| `NobodyUsesTheDatabase` | `MRSpec => []DatabaseUnusedAtExit` |
| `NoJobIsLeft` | `MRSpec => StoppedReaderLeavesNoJob` |
| `ReaderHasFile` | `~FrameCloses` and `FileJob \notin MayFail` imply `MRSpec => []PoppedImageHasFile` |

Every step is one of Database's that allocates no job, a call of the reader, or a
broadcast (`StepKinds`): the first two preserve `Inv` by the lemmas of
`Database_proofs`, the broadcasts because they add messages that are no jobs.
`MRInv` adds where the handlers that block are (`HandlerOK`), that the reader is
created at most once (`OpenOK`), what the reader holds at each line of its loop
(`ReaderOK`), that an image is announced and pushed once (`ImportOK`), and that
behind the shutdown no reader is in a method of Database (`StopOK`). The shutdown
reaches the end of the loop only behind `finalize()`, and there the reader is out
of the database. `ReaderHasFile` is false
without its hypotheses: while the frame closes, or when `getFilename` fails, the
reader meets an image without a file, as the code expects.

### `SQLiteProvider_proofs`

For all images, bounds and worlds:

| Theorem | Statement |
|---|---|
| `ProviderTypes` | `Spec => []TypeOK` |
| `OperationsEndClean` | `Spec => []IdleIsClean` |
| `MetadataIsOfItsImage` | `Spec => []MetadataBelongs` |
| `AddsAreTold` | `Spec => AddIsTruthful` |
| `ProviderImplementsStore` | `Spec => Store!Init /\ StoreIsAtomic` |

`Inv` says of an operation under way that the statements it has left are the end
of its program (`TodoOK`), which statements can be active, when a transaction is
open and when the connection sees what is committed (`ConnectionOK`), that an add
without an error has its row (`AddOK`), and that no id is used twice and metadata
belongs to its image but for what `remove` is about to delete (`DataOK`). The
refinement needs more: how far a transaction that will be committed has come
(`Progress`: the tables it sees are those of the file after the statements that
are done), and that an operation fails for a reason (`OutcomeOK`). A commit is
then the effect `MediaStore` gives of the operation, a crash or a rollback none.
The properties speak of the worlds in which the code keeps them (no locks for
`IdleIsClean`, no `bumpStackItems` and no `remove` that is cut short for
`StoreIsAtomic`); the hypotheses are part of the properties, and TLC's worlds
satisfy them as well as break them.

### `Processes_proofs`

**PagerLocks**, for any number of processes and pages, and any worlds:

| Theorem | Statement |
|---|---|
| `WritersHoldLocks` | `LocksSpec => []WriterHoldsLocks` |
| `ProcessesAreAtomic` | `LocksSpec => Atomic!Init /\ RefinesAtomicFile` |

`LInv` has for each process and each place of its program the locks it holds
(`HoldsOK`), that a lock of the range SHARED excludes the other kind (`RangeOK`);
and for orderly worlds that nobody who reads meets a process that writes
(`OrderlyOK`), and which pages of the file are those of the last commit, which
those of the transaction, and which are in the journal (`DataOK`). `Exclusion`
is the heart of it: while one process writes or plays back, the others have no
page in use. Only the deletion of a journal changes what `Committed` is. With
kills or cursors among several processes the second half is false (findings 14
and 18), which is why `RefinesAtomicFile` is stated of `Orderly` and `Alone`
worlds.

**DatabaseSwitch**, for any number of databases, images and requests:

| Theorem | Statement |
|---|---|
| `SwitchInvariant` | `SwitchSpec => []SwitchInv` |
| `NothingIsUsedDeleted` | `SwitchSpec => []NothingUsesDeleted` |

`SwitchInv` says what agrees while `setDatabase` waits: `Application::db`, the one
reader that is alive, and who is deleted (`Wired`); that only a deleted reader's
database is told to finalize, so that a worker that has left gets no job any more
(`Drained`); that a database is announced in one place (`Announced`), for otherwise
it could become current twice; that a database without a reader has none of its
thread's jobs (`Readerless`). That much holds whatever the user does, and gives
that a deleted database has run all its jobs. `WithCare` is the rest: if every
database is opened while the reader is idle, there is one that waits at most, no
image is on its way meanwhile, and the reader that will be deleted stays idle for
good. Without that, finding 13 is the counterexample.

**Tester**, for any scripts, any size of the history and any number of broadcasts
of the application's own:

| Theorem | Statement |
|---|---|
| `AnswersMatch` | `TestSpec => []AnswersInOrder` |

A message that was sent is in one place at a time: in the history, in the test's
reader, with the dispatch thread, posted, or in the application's reader. `Line` puts
these places in a row, the oldest message first; `ToDo` is the part of it that the
application has still to execute. `TestInv` says:

* `PlaceInv`: how far each of the four threads is in its message agrees with what
  it has of it, and the event is not set when the history is empty;
* `DownInv`, `UpInv`: the string in the pipe is the next one that its reader expects,
  and whoever wrote it waits at its flush, so that no reader ever takes the strings
  of two messages for one;
* `NoErrorInv`: while the pipe is connected and was never silent both processes run;
* `LineInv`, `CameInv`: the line has every message at most once, the script's in the
  order of its posts, and nothing that was awaited or not yet posted;
* `CompleteInv`: what was sent and is not yet awaited is in the line. This is where
  `Room` is needed: were the history full when another broadcast comes, it would hold
  more different messages than are outstanding and the application's own together;
* `DialogInv`: while a WM_CLOSE is to come, no key was sent and nothing closes the
  dialog, and once its "about" was executed the dialog is open.

So the first broadcast of a command in the history is the answer to the wait's own
post (`OwnAnswers`), which is what `assert`s in `test_connection()` take for granted.
`ustrcmp` compares commands, not messages: it is the order of the line that tells two
messages with the same command apart.

### `Pager_proofs`

For any pages and values, any worlds, and any bounds of faults and changes:

| Theorem | Statement |
|---|---|
| `PagerTypes` | `Spec => []PagerTypeOK` |
| `CacheIsRight` | `Spec => []CacheAgrees` |
| `PagerIsAtomic` | `Spec => TransactionsAreAtomic` |
| `PagerImplementsTransactions` | `Spec /\ Orderly => Abstract!Spec`: Pager implements `Transactions` |

`Base` is what holds in every world: the types with the agreement of flags and
journal, that page 1 stays in the cache as long as any page (`CacheOK`), and what
the pager has still to do at each place (`PlaceOK`). `Agrees` is what the atomicity
rests on, in the orderly worlds:

| Part | Says |
|---|---|
| `RecordsOK` | A record that is not synced is of a page still unchanged in the file; a page saved without a record was free before the transaction; what is played back is in the file |
| `FlagsOK` | A page freed in this transaction, or before a statement that may be rolled back, is known to be (`alwaysRollback`), so `dont_rollback` never skips the record of a page with content |
| `StmtOK` | What the statement has changed has a record in one of the journals, or was free when it began; until it is rolled back, it is dirty in the cache or may be written |
| `CleanOK` | A clean page that differs from the file is free, now and, in a statement, when that began |
| `KeptOK` | What a cursor keeps over a rollback is in the file or will be played back |
| `DiskOK` | Where the power may still fail, a page that is not on the disk for certain is in the synced part of the journal, or was free |

None of them is inductive without the others: that a page may stay unsaved needs
the flags, those need what was free at the beginning of the statement, and that a
statement is rolled back into the right place needs which pages may be written.
A step comes to one of five effects on `Transactions` (`Step`); there is a lemma
per action for `Agrees'` and its effect. Updates, frees and allocations share
theirs (`SaveAgrees`: a change of some pages, some of them not recorded), as do
the ways back to a state without a transaction (`ReadyAgrees`).

### `Containers_proofs`

**HashMap**, for any keys, values, uses and any hash function into the naturals:

| Theorem | Statement |
|---|---|
| `TableStaysRight` | `MapSpec => []TableIsRight` |
| `IteratorsFailFast` | `MapSpec => []FailFast` |
| `WalksReturnAll` | `MapSpec => WalkReturnsAll` |
| `HashMapIsMap` | `MapSpec => IsMap`: HashMap implements `AssocMap` |

`HInv` is `TableIsRight`, that the map is finite (the count is a cardinality), and
`Follows`: an iterator whose check will pass has returned the chains before its
place, nothing of those behind it, and stands on an entry that it has not returned.
The lemmas are about tables: what a change of one chain changes (`ChainChanged`),
that growing and shrinking keep all (`Rehashed`), and what the entries are as a
function (`AsMapPut`, `AsMapRemove`).

**JobList**, for any threads and jobs:

| Theorem | Statement |
|---|---|
| `JobListInvariant` | `JobsSpec => []JobInv` |
| `WorkerFindsJob` | `JobsSpec => [](RemoverFindsJob /\ Circular)` |
| `JobListIsQueue` | `JobsSpec => IsQueue`: JobList implements `JobQueue` |

`JobInv` says that there is a sequence of jobs which the pointers hold, at every
assignment of `addJob` and `removeJob` (`Holds`), and who has a job that is not in it
(`OwnersOK`). The list the model stands for is defined from the pointers alone;
`ListIs` shows that it is that sequence: two chains that start at `head` agree up to
the first place where they do not, and there is a first one (`LeastOf`, which takes
the place of an induction). `Database` has `addJob` and `removeJob` as single
steps; this theorem is why it may, though `removeJob` tests `head` without the lock.

**ArrayList**, for any objects, length and capacity:

| Theorem | Statement |
|---|---|
| `ArrayListHasRoom` | `ArraySpec => [](RoomToAdd /\ RestIsZero)` |
| `ArrayListIsSequence` | `ArraySpec => IsSequence`: ArrayList implements `ObjectList` |

`ArrayInv` is short: objects in front of `len`, zero behind. The work is in the
steps: what `memmove`, `grow` and `shrink` leave in the cells is what inserting
into, replacing in and removing from a sequence gives.

### `Desktop_proofs`

**Broadcast**, for any panes, buttons, commands, depth of loops and number of posts:

| Theorem | Statement |
|---|---|
| `WhoListensLives` | `CastSpec => []ListenersLive` |
| `NobodyIsMissed` | `CastSpec => EveryoneHears` |

`CastInv`: broadcasts call their copy of the list in its order, without repetition
(`InTurn`), and what is below the top of the stack waits for a modal loop
(`StackInv`); a broadcast without such a loop has only living listeners in its
copy (`Fresh`), which is where a nested loop makes the difference; `createChildren`
is the first job and runs alone (`FirstInv`); a button whose window is gone has
posted its deletion once, or is being deleted (`PendingInv`), which is why none is
left when the loop ends (`EndInv`).

**FrameWindow**, for any sizes, and dialogs opened and closed in any order:

| Theorem | Statement |
|---|---|
| `LayoutTiles` | For every size and all preferred sizes that fit, `BorderLayout!Layout` covers the area, each point once |
| `FrameInvariant` | `FrameSpec => []FrameInv` |
| `FrameStaysInOrder` | `FrameSpec => []FrameIsInOrder` |

`FrameInv` adds to the property what is queued before the frame has children
(`Beginning`), that a button asked to delete itself is bound to nothing any more
(`Goodbye`), and which dialogs there have been.

**WindowHook**, for any subclassers, listeners and numbers of messages:

| Theorem | Statement |
|---|---|
| `MessagesArrive` | If all plans have `OneOrder`, `HookSpec => []HookIsOrderly` |

The nested calls of a window procedure are a stack, and the invariant is about all of
it. A message is sent once more than seen while, and only while, one call on the
stack carries it (`OnTheirWay`, `Carries`); on top of a procedure that handles
WM_DESTROY or WM_NCDESTROY there is only a listener or the window's own procedure
(`AtTop`), and `DestroyWindow` separates these from the messages inside which it was
called (`Nesting`). The chain is there as long as one of the two is in the hook
(`ChainOK`). `NotBelow` is where `OneOrder` comes in: while somebody still has to put
back what he found, the hook does not take itself out below him. Without that
hypothesis TLC finds the counterexample of Section 3 (`WindowHook`).

### `Files_proofs`

**SkinFiles**, for any pictures, edits and crashes:

| Theorem | Statement |
|---|---|
| `SkinSurvives` | `SkinSpec => []SkinIsKept` |
| `UnpackLosesNothing` | `SkinSpec => OnlyPackLoses` |

`Whole` says where all pictures are at each place of `pack` and `unpack` that are
not cut short: in the folder, in what has been drawn, in skin.png, or partly in
one and partly in the other. `PngAlone` is weaker and survives crashes outside `pack`:
what would be lost if the folder is deleted now is in it already.

**PackLayout**, for any number of pictures of any sizes and any width of the rows:

| Theorem | Statement |
|---|---|
| `LayoutIsRight` | `LayoutSpec => [](NothingOverlaps /\ AllInside /\ AllPlaced)` |

`LayoutIInv`: the bubble sort permutes the pictures, and every rectangle placed is
above the current row or left of the current place in it (`Behind`).

**FolderIterator**, for any entries, any tree of them, and any changes by others:

| Theorem | Statement |
|---|---|
| `StableFilesReturned` | `FolderSpec => []StableFilesOnce` |

`OnePlace` is the invariant, for each path that has not changed: a folder on it is
in the queue, or the search that is open has its next entry before it, or it has been
returned; exactly one of these, and once. `TreeOK` says that what is in a folder that
was moved was moved with it. `Under` is the least closed set, so that the argument
needs no induction over the depth of the tree.

### What the proofs assume, and what is only model-checked

TLC checked each of these invariants on the runs' instances before it was proved,
and does so for the assumptions of the constants (`JobsAssumption`,
`ReaderAssumption`, `ProviderAssumption`, `PagerLocksAssumption`, `PagerAssumption`,
`HashMapAssumption`, `SwitchAssumption`, `BroadcastAssumption`,
`FrameWindowAssumption`, `HookAssumption`, `SkinAssumption`, `LayoutAssumption`,
`FolderAssumption`, `TesterAssumption`): that model values which stand for different things are
different, and bounds are numbers. The bounds on ids, modifications, changes,
faults, messages and errors are parameters of the models, so the theorems hold for
all of them. `JobListAssumption` and `ArrayListAssumption` are definitions, which
the theorems have as hypotheses and `MCContainers` assumes of its instances, as it
and the other MC modules do for modules that are only instantiated. `OneOrder` is
the one hypothesis about code around a component, and of code that is not in `src/`:
nothing here but the hook subclasses a window, its comment describes what the hooks
of Windows' own controls do. It is needed (Section 3), and whether Windows keeps it
cannot be seen from here.

Only model-checked:

* everything with fairness (`ServicePromise`, `ShutdownEnds`, `EveryImageIsStored`,
  `DesktopSettles`, `EverybodyFinishes`, `ReadsBack`), since ENABLED is out of the
  prover's reach;
* what recursive definitions compute: `Encode` of `XMLCodec` (the codec's part of
  `NothingIsMixedUp`, and ExifReader's, whose directories contain directories),
  and the tree operators of `DropTargets` (its part of `WellFormed` and
  `ContainersRefine`, and `DragTracker` above it: `CallsAreOrderly`);
* `LinkedList`: the pointers are `JobList`'s without the lock, its iterator is
  HashMap's, and both of these are proved.

Of the pager's worlds the theorems leave out those that `Orderly` does, as the run
does; in them findings 15-17 are the counterexamples.

## 7. Not modelled, and why

Somewhat less than half of the lines of kolobok's own code (`src/src/kolobok`, `src/inc`,
`src/src/tests`) are mapped; of the whole repository it is a few per cent, since
`externals/` holds more than ten times as much: libjpeg, libpng, zlib and SQLite.
Of these only SQLite's pager, file locks and the life of a statement decide
anything the program relies on beyond "it decodes" and "it stores".

* SQLite's parser, code generator, virtual machine and B-tree: what they compute
  is used by the provider through its fixed statements, whose meaning is in
  `SQLiteProvider`; the B-tree's pages are the pager's `Data`.
* libjpeg, libpng, zlib, `Image.cpp`: codecs and scaling, functions from bytes to
  bytes with no state between calls.
* Drawing, fonts, brushes, hovering, tool tips, the skinning of dialogs: layout
  and paint, no property is about them. The file dialogs are Windows'; a modal
  loop in Broadcast is all they do here.
* Tracing and the counting of allocations (`tiny.cpp`, `Log.cpp`): debug support.
* Text forms of numbers, and collections in EXIF values: conversions with printf
  and scanf. Documents and images that no encoder or camera makes are left out
  in XMLCodec; ExifReader has them as far as segments and pointers go.
* A handle value given to another object after JobFinalize closed it
  (`Database.cpp:769`): the model leaves a closed handle alone.
* Crashes in Database and MetadataReader: nothing of theirs is persistent; a
  crash is modelled where it matters: SQLiteProvider, PagerLocks, Pager,
  SkinFiles.
* A crash inside `pack()` (`Skin.cpp:626`), the two statements of `remove`
  (`Database.cpp:326`), a hash of INT_MIN (`tiny.h:1680`), `add(int, const
  Object&)`, which calls itself (`tiny.h:1265`), values of two directories under
  one key (`ExifReader.cpp:285`): the code promises nothing there, so no property
  does.
