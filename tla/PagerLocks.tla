----------------------------- MODULE PagerLocks -----------------------------
(***************************************************************************)
(* The pager of SQLite and the locks of os_win.c below it: processes that  *)
(* read and write one database file, each step a call of the operating     *)
(* system, and any of them may be killed between two steps.                *)
(*                                                                         *)
(* os_win.c has three lock ranges: the byte PENDING, the byte RESERVED and *)
(* the range SHARED, which is locked as a whole, for reading or alone.     *)
(* state is what the pager believes it holds.  A killed process loses its  *)
(* locks and handles, the files stay as they are; what a power failure     *)
(* does is in Pager.                                                       *)
(*                                                                         *)
(* Every transaction writes all pages, with the version after the one it   *)
(* has read; version 0 is a page that the file does not have yet.          *)
(***************************************************************************)
EXTENDS Naturals

CONSTANTS
  Procs,
  Pages,        \* page numbers, which begin with 1
  None,
  MaxVersion,   \* bound of the transactions
  Worlds        \* the circumstances a behaviour may meet

\* What differs from one behaviour to the next: the processes that use the
\* file; those of them that go on reading when their transaction ends; those
\* that roll back before they get the EXCLUSIVE lock; and bounds of the
\* processes killed and of the writes that fail.
ASSUME PagerLocksAssumption ==
  /\ None \notin Procs /\ None \notin Nat
  /\ None \notin [orig : [Pages -> 0..MaxVersion], synced : BOOLEAN]
  /\ 1 \in Pages /\ MaxVersion \in Nat
  /\ Worlds \subseteq [procs : SUBSET Procs, cursors : SUBSET Procs,
                       impatient : SUBSET Procs, crashes : Nat, errors : Nat]

VARIABLES
  world,      \* the circumstances of this behaviour
  pending,    \* the process that has locked the byte PENDING, or None
  reserved,   \* the same for the byte RESERVED
  readers,    \* processes that have locked the range SHARED for reading
  exclusive,  \* the process that has locked it alone, or None
  state,      \* Pager.state of each process
  pc,         \* where each process is
  db,         \* version of each page in the file
  journal,    \* None, or the original pages and whether nRec is written
  opener,     \* the process that has the journal open, or None
  view,       \* pages of each process in its cache
  new,        \* version that its transaction writes, or None
  todo,       \* pages it has still to write or to play back
  crashes, errors

locks == <<pending, reserved, readers, exclusive>>
files == <<db, journal, opener>>
cache == <<view, new, todo>>
bounds == <<world, crashes, errors>>
lockVars == <<locks, state, pc, files, cache, bounds>>

Unread == [pg \in Pages |-> None]
Whole(v) == [pg \in Pages |-> v]
Empty == Whole(0)

LocksInit ==
  /\ world \in Worlds
  /\ pending = None /\ reserved = None
  /\ readers = {} /\ exclusive = None
  /\ state = [p \in Procs |-> "UNLOCK"]
  /\ pc = [p \in Procs |-> "idle"]
  /\ db = Empty
  /\ journal = None
  /\ opener = None
  /\ view = [p \in Procs |-> Unread]
  /\ new = [p \in Procs |-> None]
  /\ todo = [p \in Procs |-> {}]
  /\ crashes = 0 /\ errors = 0

Goto(p, label) == pc' = [pc EXCEPT ![p] = label]
Believe(p, s) == state' = [state EXCEPT ![p] = s]

\* The byte, when it was p that had locked it, is free.
Freed(byte, p) == IF byte = p THEN None ELSE byte

\* sqlite3OsUnlock(NO_LOCK)
UnlockAll(p) ==
  /\ pending' = Freed(pending, p)
  /\ reserved' = Freed(reserved, p)
  /\ readers' = readers \ {p}
  /\ exclusive' = Freed(exclusive, p)
  /\ Believe(p, "UNLOCK")

-----------------------------------------------------------------------------
(* sqlite3pager_get() of the first page.                                   *)

\* Mutant: a reader does not mind the byte PENDING.
GetPending_NoPending(p) ==
  /\ pc[p] = "idle" /\ state[p] = "UNLOCK"
  /\ Goto(p, "getShared")
  /\ UNCHANGED <<locks, state, files, cache, bounds>>

\* sqlite3OsLock(SHARED_LOCK) takes the byte PENDING for a moment; when it
\* is locked the busy handler tries again.
GetPending(p) ==
  /\ pc[p] = "idle" /\ state[p] = "UNLOCK"
  /\ pending = None
  /\ pending' = p
  /\ Goto(p, "getShared")
  /\ UNCHANGED <<reserved, readers, exclusive, state, files, cache, bounds>>

\* getReadLock()
GetShared(p) ==
  /\ pc[p] = "getShared"
  /\ readers' = IF exclusive = None THEN readers \union {p} ELSE readers
  /\ Goto(p, "dropPending")
  /\ UNCHANGED <<pending, reserved, exclusive, state, files, cache, bounds>>

DropPending(p) ==
  /\ pc[p] = "dropPending"
  /\ pending' = None
  /\ IF p \in readers
       THEN Believe(p, "SHARED") /\ Goto(p, "exists")
       ELSE UNCHANGED state /\ Goto(p, "idle")
  /\ UNCHANGED <<reserved, readers, exclusive, files, cache, bounds>>

\* pager_wait_on_lock() asks for no lock that the pager believes to have.
GetAgain(p) ==
  /\ pc[p] = "idle" /\ state[p] = "SHARED"
  /\ Goto(p, "exists")
  /\ UNCHANGED <<locks, state, files, cache, bounds>>

\* hasHotJournal()
Exists(p) ==
  /\ pc[p] = "exists"
  /\ Goto(p, IF journal = None THEN "reading" ELSE "probe")
  /\ UNCHANGED <<locks, state, files, cache, bounds>>

\* Mutant: the byte is unlocked whoever has locked it.
Probe_Unlocks(p) ==
  /\ pc[p] = "probe"
  /\ reserved' = IF reserved = None THEN p ELSE None
  /\ Goto(p, IF reserved = None THEN "endProbe" ELSE "reading")
  /\ UNCHANGED <<pending, readers, exclusive, state, files, cache, bounds>>

\* sqlite3OsCheckReservedLock() learns whether the byte RESERVED is locked
\* by locking it ...
Probe(p) ==
  /\ pc[p] = "probe"
  /\ IF reserved = None
       THEN reserved' = p /\ Goto(p, "endProbe")
       ELSE UNCHANGED reserved /\ Goto(p, "reading")
  /\ UNCHANGED <<pending, readers, exclusive, state, files, cache, bounds>>

\* ... for a moment.  The journal of an empty file is deleted, unless some
\* process has it open.
EndProbe(p) ==
  /\ pc[p] = "endProbe"
  /\ reserved' = None
  /\ journal' = IF db = Empty /\ opener = None THEN None ELSE journal
  /\ Goto(p, IF db = Empty THEN "reading" ELSE "yield")
  /\ UNCHANGED <<pending, readers, exclusive, state, db, opener, cache, bounds>>

\* sqlite3OsLock(EXCLUSIVE_LOCK) from SHARED: unlockReadLock() ...
Yield(p) ==
  /\ pc[p] = "yield"
  /\ readers' = readers \ {p}
  /\ Goto(p, "seize")
  /\ UNCHANGED <<pending, reserved, exclusive, state, files, cache, bounds>>

\* ... and LockFile().
Seize(p) ==
  /\ pc[p] = "seize"
  /\ IF readers = {} /\ exclusive = None
       THEN /\ exclusive' = p
            /\ Believe(p, "EXCLUSIVE") /\ Goto(p, "open")
            /\ UNCHANGED <<pending, reserved, readers>>
       ELSE UnlockAll(p) /\ Goto(p, "idle")
  /\ UNCHANGED <<files, cache, bounds>>

\* pager_playback() first truncates the file to its original size; it plays
\* back as many pages as nRec says.
Playback(p) ==
  /\ db' = [pg \in Pages |-> IF journal.orig[pg] = 0 THEN 0 ELSE db[pg]]
  /\ todo' = [todo EXCEPT ![p] = IF journal.synced THEN Pages ELSE {}]
  /\ Goto(p, "undo")

OpenHot(p) ==
  /\ pc[p] = "open"
  /\ IF journal # None /\ opener = None
       THEN /\ opener' = p
            /\ Playback(p)
            /\ UNCHANGED <<locks, state>>
       ELSE /\ UnlockAll(p) /\ Goto(p, "idle")
            /\ UNCHANGED <<db, opener, todo>>
  /\ UNCHANGED <<journal, view, new, bounds>>

-----------------------------------------------------------------------------
(* Reading and writing.                                                    *)

Read(p, pg) ==
  /\ pc[p] = "reading"
  /\ view[p][pg] = None
  /\ view' = [view EXCEPT ![p][pg] = db[pg]]
  /\ UNCHANGED <<locks, state, pc, files, new, todo, bounds>>

\* sqlite3pager_begin(): the RESERVED lock, without the busy handler.
Reserve(p) ==
  /\ pc[p] = "reading" /\ state[p] = "SHARED"
  /\ \A pg \in Pages : view[p][pg] # None /\ view[p][pg] < MaxVersion
  /\ reserved = None
  /\ reserved' = p
  /\ Believe(p, "RESERVED")
  /\ Goto(p, "create")
  /\ UNCHANGED <<pending, readers, exclusive, files, cache, bounds>>

\* pager_open_journal() makes a new file, whatever was there; then
\* sqlite3pager_write() appends the pages as they are in the cache.
Create(p) ==
  /\ pc[p] = "create"
  /\ IF opener = None
       THEN /\ journal' = [orig |-> view[p], synced |-> FALSE]
            /\ opener' = p
            /\ new' = [new EXCEPT ![p] = view[p][1] + 1]
            /\ Goto(p, "dirty")
            /\ UNCHANGED <<locks, state, view>>
       ELSE /\ UnlockAll(p) /\ Goto(p, "idle")
            /\ view' = [view EXCEPT ![p] = Unread]
            /\ UNCHANGED <<journal, opener, new>>
  /\ UNCHANGED <<db, todo, bounds>>

\* syncJournal() writes nRec into the header.
SyncJournal(p) ==
  /\ pc[p] = "dirty"
  /\ journal' = [journal EXCEPT !.synced = TRUE]
  /\ Goto(p, "pend")
  /\ UNCHANGED <<locks, state, db, opener, cache, bounds>>

\* sqlite3OsLock(EXCLUSIVE_LOCK) from RESERVED: the byte PENDING, which is
\* kept, and unlockReadLock() ...
Pend(p) ==
  /\ pc[p] = "pend"
  /\ pending = None
  /\ pending' = p
  /\ readers' = readers \ {p}
  /\ Goto(p, "upgrade")
  /\ UNCHANGED <<reserved, exclusive, state, files, cache, bounds>>

\* ... and LockFile(), again and again while the busy handler says so.
Upgrade(p) ==
  /\ pc[p] = "upgrade"
  /\ readers = {} /\ exclusive = None
  /\ exclusive' = p
  /\ Believe(p, "EXCLUSIVE")
  /\ todo' = [todo EXCEPT ![p] = Pages]
  /\ Goto(p, "write")
  /\ UNCHANGED <<pending, reserved, readers, files, view, new, bounds>>

\* Mutant: the cache is not read again.
RollBack_NoReload(p) ==
  /\ \/ pc[p] \in {"dirty", "pend"}
     \/ pc[p] = "upgrade" /\ p \in world.impatient
  /\ Goto(p, "undo")
  /\ UNCHANGED <<locks, state, files, cache, bounds>>

\* sqlite3pager_rollback() of a transaction that has not written to the file.
RollBack(p) ==
  /\ \/ pc[p] \in {"dirty", "pend"}
     \/ pc[p] = "upgrade" /\ p \in world.impatient
  /\ new' = [new EXCEPT ![p] = None]
  /\ Goto(p, "undo")
  /\ UNCHANGED <<locks, state, files, view, todo, bounds>>

\* pager_write_pagelist()
WritePage(p, pg) ==
  /\ pc[p] = "write" /\ pg \in todo[p]
  /\ db' = [db EXCEPT ![pg] = new[p]]
  /\ todo' = [todo EXCEPT ![p] = @ \ {pg}]
  /\ UNCHANGED <<locks, state, pc, journal, opener, view, new, bounds>>

\* A write fails: commit_abort, sqlite3pager_rollback(), pager_playback().
WriteFails(p) ==
  /\ pc[p] = "write" /\ errors < world.errors
  /\ errors' = errors + 1
  /\ new' = [new EXCEPT ![p] = None]
  /\ Playback(p)
  /\ UNCHANGED <<locks, state, journal, opener, view, world, crashes>>

\* pager_playback_one_page()
PlaybackPage(p, pg) ==
  /\ pc[p] = "undo" /\ pg \in todo[p]
  /\ db' = [db EXCEPT ![pg] = journal.orig[pg]]
  /\ todo' = [todo EXCEPT ![p] = @ \ {pg}]
  /\ UNCHANGED <<locks, state, pc, journal, opener, view, new, bounds>>

\* pager_unwritelock() closes the journal and deletes it: this commits.
DropJournal(p) ==
  /\ pc[p] \in {"write", "undo"} /\ todo[p] = {}
  /\ journal' = None
  /\ opener' = None
  /\ view' = [view EXCEPT ![p] = IF new[p] = None THEN @ ELSE Whole(new[p])]
  /\ new' = [new EXCEPT ![p] = None]
  /\ Goto(p, "unlock")
  /\ UNCHANGED <<locks, state, db, todo, bounds>>

\* What a process does when it has its SHARED lock back: the reader that
\* found a hot journal reads, a writer whose last cursor is closed releases
\* the file.
Resume(p, ok) ==
  Goto(p, IF view[p] = Unread THEN (IF ok THEN "reading" ELSE "idle")
          ELSE IF p \in world.cursors THEN "reading" ELSE "release")

\* sqlite3OsUnlock(SHARED_LOCK): the range is unlocked only when it was
\* locked alone ...
Unlock(p) ==
  /\ pc[p] = "unlock"
  /\ IF exclusive = p
       THEN /\ exclusive' = None
            /\ Goto(p, "relock")
            /\ UNCHANGED <<pending, reserved, state>>
       ELSE /\ reserved' = Freed(reserved, p)
            /\ pending' = Freed(pending, p)
            /\ Believe(p, "SHARED")
            /\ Resume(p, TRUE)
            /\ UNCHANGED exclusive
  /\ UNCHANGED <<readers, files, cache, bounds>>

\* ... and only then locked for reading again; the state is SHARED even when
\* this fails.
Relock(p) ==
  /\ pc[p] = "relock"
  /\ readers' = IF exclusive = None THEN readers \union {p} ELSE readers
  /\ reserved' = Freed(reserved, p)
  /\ pending' = Freed(pending, p)
  /\ Believe(p, "SHARED")
  /\ Resume(p, exclusive = None)
  /\ UNCHANGED <<exclusive, files, cache, bounds>>

\* sqlite3pager_unref() of the last page: pager_reset().
Release(p) ==
  /\ pc[p] \in {"reading", "release"}
  /\ UnlockAll(p)
  /\ view' = [view EXCEPT ![p] = Unread]
  /\ Goto(p, "idle")
  /\ UNCHANGED <<files, new, todo, bounds>>

-----------------------------------------------------------------------------
\* The process is killed.
Crash(p) ==
  /\ crashes < world.crashes
  /\ pc[p] # "idle"
  /\ crashes' = crashes + 1
  /\ UnlockAll(p)
  /\ opener' = Freed(opener, p)
  /\ view' = [view EXCEPT ![p] = Unread]
  /\ new' = [new EXCEPT ![p] = None]
  /\ todo' = [todo EXCEPT ![p] = {}]
  /\ Goto(p, "idle")
  /\ UNCHANGED <<db, journal, world, errors>>

\* What a process goes on with once it has begun.
Continue(p) ==
  \/ GetShared(p) \/ DropPending(p) \/ Exists(p) \/ Probe(p) \/ EndProbe(p)
  \/ Yield(p) \/ Seize(p) \/ OpenHot(p)
  \/ Create(p) \/ SyncJournal(p) \/ Pend(p) \/ Upgrade(p)
  \/ \E pg \in Pages : WritePage(p, pg) \/ PlaybackPage(p, pg)
  \/ DropJournal(p) \/ Unlock(p) \/ Relock(p) \/ Release(p)

LocksNext ==
  \E p \in world.procs :
    \/ GetPending(p) \/ GetAgain(p) \/ Reserve(p)
    \/ \E pg \in Pages : Read(p, pg)
    \/ RollBack(p) \/ WriteFails(p)
    \/ Continue(p)
    \/ Crash(p)

LocksSpec == LocksInit /\ [][LocksNext]_lockVars

\* Every process that has begun goes on, and nobody reads for ever.
FairLocks == LocksSpec /\ \A p \in Procs : WF_lockVars(Continue(p))

-----------------------------------------------------------------------------
(* Properties.                                                             *)

Version == 0..MaxVersion
Pages2Version == [Pages -> Version]

\* Every variable keeps its type; a lock byte has at most one owner by form.
PagerLocksTypeOK ==
  /\ world \in Worlds
  /\ {pending, reserved, exclusive, opener} \subseteq Procs \union {None}
  /\ readers \subseteq Procs
  /\ state \in [Procs -> {"UNLOCK", "SHARED", "RESERVED", "EXCLUSIVE"}]
  /\ pc \in [Procs -> {"idle", "getShared", "dropPending", "exists", "probe",
       "endProbe", "yield", "seize", "open", "reading", "create", "dirty",
       "pend", "upgrade", "write", "undo", "unlock", "relock", "release"}]
  /\ db \in Pages2Version
  /\ journal \in [orig : Pages2Version, synced : BOOLEAN] \union {None}
  /\ view \in [Procs -> [Pages -> Version \union {None}]]
  /\ new \in [Procs -> Version \union {None}]
  /\ todo \in [Procs -> SUBSET Pages]
  /\ crashes \in 0..world.crashes /\ errors \in 0..world.errors

\* What a process still reads from: the pages in its cache, until it has
\* nothing more to do than to release them.
InUse(p) == IF pc[p] = "release" THEN Unread ELSE view[p]

Writing(p) == pc[p] \in {"write", "undo"} /\ exclusive = p

\* A process that writes has the locks it believes to have, and the journal
\* of its own transaction or of the one it plays back, whichever of the two
\* ways to the EXCLUSIVE lock it took and whoever is killed: "The pager also
\* implements file locking to prevent two processes from writing the same
\* database file simultaneously" (pager.c:16-18).
HoldsLocks ==
  \A p \in Procs :
    /\ state[p] = "RESERVED" => reserved = p
    /\ pc[p] \in {"write", "undo"} => opener = p
    /\ todo[p] # {} => exclusive = p

\* While a process writes to the file, no other one reads from it or goes on
\* with pages that it has read: "No other processes or threads can be reading
\* or writing while one process is writing" (pager.c:87-89).
WritesAlone ==
  \A p, q \in Procs :
    p # q /\ Writing(p) => InUse(q) = Unread /\ pc[q] # "reading"

\* A file that a killed process has left half written, with the journal that
\* would restore it.
Hot == journal # None /\ journal.synced /\ opener = None /\ db # journal.orig

\* Nobody reads such a file: "If a journal file exists, and there is no
\* RESERVED lock on the database file, then it either needs to be played back
\* or deleted" (pager.c:2333-2334), by sqlite3OsCheckReservedLock().
HotIsPlayedBack == Hot => \A p \in Procs : pc[p] # "reading"

\* Nobody is killed and nobody leaves a cursor open, or there is nobody else.
Orderly == world.crashes = 0 /\ world.cursors = {}
Alone == \A p, q \in world.procs : p = q

\* Whoever writes has the locks and the journal that it needs; and in an
\* orderly world, or for a process alone, nobody reads meanwhile, and nobody
\* reads what was left half written.
WriterHoldsLocks ==
  /\ PagerLocksTypeOK
  /\ HoldsLocks
  /\ Orderly \/ Alone => WritesAlone /\ HotIsPlayedBack

\* sqlite3OsUnlock() gets the read lock back: "This should never happen.  We
\* should always be able to reacquire the read lock" (os_win.c:777-778).
ReadLockRegained == \A p \in Procs : pc[p] = "relock" => exclusive = None

\* What the journal can restore when it has to, is what was committed: the
\* file itself, or what is left of the original pages in the journal.
Committed ==
  IF journal # None /\ journal.synced THEN journal.orig[1] ELSE db[1]

\* The processes together do what one file with atomic transactions does:
\* every read is of what was committed last, every transaction is based on
\* it, and it is committed when the journal is deleted, not before.
Atomic == INSTANCE AtomicFile WITH
  committed <- Committed, view <- [p \in Procs |-> InUse(p)]

RefinesAtomicFile ==
  [][Orderly \/ Alone => [Atomic!Next]_Atomic!avars]_lockVars

\* The PENDING lock "is to prevent new readers from coming in while we wait
\* for existing readers to clear" (pager.c:2198-2199): a writer that does not
\* give up gets in however often the others read.
WriterGetsIn == \A p \in Procs : pc[p] = "upgrade" ~> pc[p] = "write"
=============================================================================
