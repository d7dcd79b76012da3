------------------------------- MODULE Pager --------------------------------
(***************************************************************************)
(* The pager of SQLite with one connection: its page cache, the rollback   *)
(* journal, the statement journal, the pages of the freelist that it       *)
(* neither writes nor saves, and what is left of all this when the process *)
(* is killed or the power fails.  The locks between processes are in       *)
(* PagerLocks.                                                             *)
(*                                                                         *)
(* Page 1 stands for the file header and the trunk of the freelist: its    *)
(* content is the set of the free pages.  It is in use as long as any page *)
(* is.  The journal is in full-synchronous mode, the default.  A record    *)
(* counts in a recovery when the nRec of its header has been written,      *)
(* which syncJournal() does between two calls of sqlite3OsSync().          *)
(*                                                                         *)
(* Until it is synced a write to the database may or may not survive a     *)
(* power failure, each page for itself; the deletion of a file does.       *)
(***************************************************************************)
EXTENDS Naturals, Functions

CONSTANTS
  Data,         \* the pages besides page 1
  Values,       \* what is written on them
  None,
  Worlds        \* the circumstances a behaviour may meet

Pages == Data \union {1}

\* What a page may hold: the set of the free pages, or a value.
Content == Values \union SUBSET Data
PgHdr == [data : Content, dirty : BOOLEAN, alwaysRollback : BOOLEAN]
Records == UNION {[S -> Content] : S \in SUBSET Pages}
Journals == [saved : SUBSET Pages, recs : Records, synced : SUBSET Pages]
StmtJournals == [saved : SUBSET Pages, recs : Records, before : SUBSET Pages]

\* What differs from one behaviour to the next: the pages that are freed and
\* allocated; those that are recycled during a transaction; whether another
\* statement keeps the cache in use; whether there are statement
\* transactions; which of rollback, kill and power failure there are; and
\* bounds of them and of the changes of pages.
ASSUME PagerAssumption ==
  /\ 1 \notin Data
  /\ None \notin PgHdr /\ None \notin Journals /\ None \notin StmtJournals
  /\ None \notin [Data -> Values \union {None}]
  /\ Worlds \subseteq
       [leaves : SUBSET Data, spilled : SUBSET Data,
        cursors : BOOLEAN, statements : BOOLEAN,
        faults : SUBSET {"rollback", "kill", "power"},
        maxFaults : Nat, maxChanges : Nat]

VARIABLES
  world,    \* the circumstances of this behaviour
  file,     \* pages of the database as they are read
  disk,     \* for each page what it may be after a power failure
  journal,  \* None, or saved: aInJournal; recs: the records written;
            \* synced: the pages whose record nRec counts
  stmt,     \* None, or saved: aInStmt; recs: the statement journal;
            \* before: pages with a record when the statement began
  cache,    \* for each page None, or a PgHdr: data, dirty, alwaysRollback
  state,    \* Pager.state
  always,   \* Pager.alwaysRollback
  pc,       \* what the pager is doing
  todo,     \* pages that it has still to write
  faults, changes

files == <<file, disk, journal>>
memory == <<stmt, cache, state, always>>
bounds == <<world, faults, changes>>
vars == <<files, memory, pc, todo, bounds>>

Uncached == [pg \in Pages |-> None]
NoRecs == [pg \in {} |-> None]

Init ==
  /\ world \in Worlds
  /\ \E free \in SUBSET world.leaves, v \in Values :
       file = [pg \in Pages |-> IF pg = 1 THEN free ELSE v]
  /\ disk = [pg \in Pages |-> {file[pg]}]
  /\ journal = None /\ stmt = None
  /\ cache = Uncached
  /\ state = "SHARED" /\ always = FALSE
  /\ pc = "ready" /\ todo = {}
  /\ faults = 0 /\ changes = 0

\* The page after sqlite3pager_get().
Got(pg) ==
  IF cache[pg] # None THEN cache[pg]
  ELSE [data |-> file[pg], dirty |-> FALSE, alwaysRollback |-> FALSE]

InTransaction == pc = "ready" /\ journal # None
NeedSync(pg) == journal # None /\ pg \in DOMAIN journal.recs \ journal.synced

MayBe(fault) == fault \in world.faults /\ faults < world.maxFaults
Fault(fault) ==
  /\ MayBe(fault)
  /\ faults' = faults + 1
  /\ UNCHANGED <<world, changes>>
Change ==
  /\ changes < world.maxChanges
  /\ changes' = changes + 1
  /\ UNCHANGED <<world, faults>>

\* sqlite3OsWrite() to the database.  Where no power failure can come any
\* more, what the disk may hold is not recorded.
Store(pg, v) ==
  /\ file' = [file EXCEPT ![pg] = v]
  /\ disk' = [disk EXCEPT ![pg] = {v} \union IF MayBe("power") THEN @ ELSE {}]

With(recs, S) == [pg \in DOMAIN recs \union S |->
                    IF pg \in S THEN Got(pg).data ELSE recs[pg]]

\* sqlite3pager_write() of the pages S, those of skip after a call of
\* sqlite3pager_dont_rollback() that was not ignored.  A page goes to the
\* journal, or if it is there already to the one of the statement.
Save(S, skip) ==
  LET old == journal.saved IN
  /\ journal' = [journal EXCEPT !.saved = old \union S,
                                !.recs = With(@, S \ (old \union skip))]
  /\ stmt' = IF stmt = None THEN None
             ELSE [stmt EXCEPT
               !.saved = @ \union S,
               !.recs = With(@, (S \intersect old) \ (stmt.saved \union skip))]

Changed(pg, v) == [Got(pg) EXCEPT !.data = v, !.dirty = TRUE]

-----------------------------------------------------------------------------
(* Operations of the B-tree.                                               *)

Get(pg) ==
  /\ pc = "ready" /\ cache[pg] = None
  /\ pg = 1 \/ cache[1] # None
  /\ cache' = [cache EXCEPT ![pg] = Got(pg)]
  /\ UNCHANGED <<files, stmt, state, always, pc, todo, bounds>>

\* sqlite3pager_begin() and pager_open_journal().
Begin ==
  /\ pc = "ready" /\ journal = None /\ cache[1] # None
  /\ journal' = [saved |-> {}, recs |-> NoRecs, synced |-> {}]
  /\ state' = "RESERVED" /\ always' = FALSE
  /\ UNCHANGED <<file, disk, stmt, cache, pc, todo, bounds>>

Update(pg, v) ==
  /\ InTransaction /\ pg \notin cache[1].data
  /\ Change
  /\ Save({pg}, {})
  /\ cache' = [cache EXCEPT ![pg] = Changed(pg, v)]
  /\ UNCHANGED <<file, disk, state, always, pc, todo>>

\* freePage() ends in sqlite3pager_dont_write().
Free(pg) ==
  /\ InTransaction /\ pg \notin cache[1].data
  /\ Change
  /\ Save({1}, {})
  /\ cache' = [cache EXCEPT
       ![1] = Changed(1, @.data \union {pg}),
       ![pg] = [Got(pg) EXCEPT !.alwaysRollback = TRUE,
                               !.dirty = @ /\ stmt # None]]
  /\ UNCHANGED <<file, disk, state, always, pc, todo>>

\* When sqlite3pager_dont_rollback() is not ignored.
DontRollback(pg) ==
  IF state = "EXCLUSIVE" /\ ~always /\ ~Got(pg).alwaysRollback
    THEN {pg} ELSE {}

\* allocatePage() of a leaf of the freelist, and the first write to it.
Allocate(pg, v) ==
  /\ InTransaction /\ pg \in cache[1].data
  /\ Change
  /\ Save({1, pg}, DontRollback(pg))
  /\ cache' = [cache EXCEPT ![1] = Changed(1, @.data \ {pg}),
                            ![pg] = Changed(pg, v)]
  /\ UNCHANGED <<file, disk, state, always, pc, todo>>

-----------------------------------------------------------------------------
(* The cache is full, or the transaction ends.                             *)

\* syncJournal()
Synced(j) == [j EXCEPT !.synced = DOMAIN j.recs]

\* The part of sqlite3pager_get() that recycles a page; a new header in the
\* journal, with an nRec of its own, follows the sync.
Recycle(pg) ==
  /\ pc = "ready" /\ cache[pg] # None
  /\ always' = (always \/ cache[pg].alwaysRollback)
  /\ journal' = IF NeedSync(pg) THEN Synced(journal) ELSE journal
  /\ IF cache[pg].dirty
       THEN /\ state' = "EXCLUSIVE"
            /\ pc' = "spill" /\ todo' = {pg}
            /\ UNCHANGED cache
       ELSE /\ cache' = [cache EXCEPT ![pg] = None]
            /\ UNCHANGED <<state, pc, todo>>
  /\ UNCHANGED <<file, disk, stmt, bounds>>

\* pager_write_pagelist()
WritePage(pg) ==
  /\ pc \in {"spill", "commit"} /\ pg \in todo
  /\ Store(pg, cache[pg].data)
  /\ cache' = [cache EXCEPT ![pg] = IF pc = "spill" THEN None
                                    ELSE [@ EXCEPT !.dirty = FALSE]]
  /\ todo' = todo \ {pg}
  /\ pc' = IF pc = "spill" THEN "ready" ELSE pc
  /\ UNCHANGED <<journal, stmt, state, always, bounds>>

\* sqlite3pager_commit() up to the first page: pager_incr_changecounter()
\* writes page 1.
Commit ==
  /\ InTransaction /\ journal.saved # {}
  /\ journal' = Synced([journal EXCEPT
                  !.saved = @ \union {1},
                  !.recs = With(@, {1} \ journal.saved)])
  /\ cache' = [cache EXCEPT ![1].dirty = TRUE]
  /\ todo' = {pg \in Pages : cache[pg] # None /\ cache[pg].dirty} \union {1}
  /\ state' = "EXCLUSIVE" /\ pc' = "commit"
  /\ UNCHANGED <<file, disk, stmt, always, bounds>>

\* sqlite3OsSync() of the file; what remains is to delete the journal.
SyncFile ==
  /\ pc = "commit" /\ todo = {}
  /\ disk' = [pg \in Pages |-> {file[pg]}]
  /\ pc' = "synced"
  /\ UNCHANGED <<file, journal, memory, todo, bounds>>

\* pager_unwritelock(): the pages in the cache c become clean.
Unwritelock(c) ==
  /\ journal' = None /\ stmt' = None
  /\ cache' = [pg \in Pages |-> IF c[pg] = None THEN None
                                ELSE [c[pg] EXCEPT !.dirty = FALSE]]
  /\ state' = "SHARED" /\ pc' = "ready"

\* The journal is deleted.  After a rollback the last page is given back
\* and the cache with it, pager_reset(), unless there is a cursor.
DropJournal ==
  /\ pc \in {"synced", "undo"} /\ todo = {}
  /\ Unwritelock(IF pc = "undo" /\ ~world.cursors THEN Uncached ELSE cache)
  /\ UNCHANGED <<file, disk, always, todo, bounds>>

\* A transaction that has written nothing.
EndEmpty ==
  /\ InTransaction /\ journal.saved = {}
  /\ Unwritelock(cache)
  /\ UNCHANGED <<file, disk, always, todo, bounds>>

Reset ==
  /\ pc = "ready" /\ journal = None /\ ~world.cursors
  /\ cache' = Uncached
  /\ UNCHANGED <<files, stmt, state, always, pc, todo, bounds>>

-----------------------------------------------------------------------------
(* Rollback and recovery.                                                  *)

\* Mutant: only the first page is read again.
Reloaded_First ==
  [pg \in Pages |-> IF pg = 1 THEN [cache[pg] EXCEPT !.data = file[pg]]
                    ELSE cache[pg]]

\* pager_reload_cache() reads what is dirty from the file.
Reloaded ==
  [pg \in Pages |-> IF cache[pg] # None /\ cache[pg].dirty
                      THEN [cache[pg] EXCEPT !.data = file[pg]]
                      ELSE cache[pg]]

\* sqlite3pager_rollback() before anything is written to the file.
Reload ==
  /\ InTransaction /\ journal.saved # {} /\ state = "RESERVED"
  /\ Fault("rollback")
  /\ Unwritelock(IF world.cursors THEN Reloaded ELSE Uncached)
  /\ UNCHANGED <<file, disk, always, todo>>

\* pager_playback() counts as many records of each header as its nRec says;
\* it ends at the first header it cannot read, and so never comes to its
\* call of pager_reload_cache().
Playback == pc' = "undo" /\ todo' = journal.synced

\* sqlite3pager_rollback() after a page has been written to the file, also
\* when a record or a page could not be written.
Rollback ==
  /\ InTransaction \/ pc \in {"spill", "commit"}
  /\ state = "EXCLUSIVE"
  /\ Fault("rollback")
  /\ Playback
  /\ UNCHANGED <<files, memory>>

\* Mutant: the file is written whenever it is locked.
PlaybackPage_1171(pg) ==
  /\ pc \in {"undo", "stmt"} /\ pg \in todo
  /\ LET v == IF pc = "stmt" /\ pg \in DOMAIN stmt.recs
                THEN stmt.recs[pg] ELSE journal.recs[pg]
         toFile == state = "EXCLUSIVE"
     IN
     /\ IF toFile THEN Store(pg, v) ELSE UNCHANGED <<file, disk>>
     /\ cache' = IF cache[pg] = None THEN cache
                 ELSE [cache EXCEPT ![pg].data = v,
                                    ![pg].dirty = @ /\ ~toFile]
  /\ todo' = todo \ {pg}
  /\ UNCHANGED <<journal, stmt, state, always, pc, bounds>>

\* pager_playback_one_page(): the file is written when it is locked and the
\* original page is safe in the journal, the cache when the page is there.
PlaybackPage(pg) ==
  /\ pc \in {"undo", "stmt"} /\ pg \in todo
  /\ LET v == IF pc = "stmt" /\ pg \in DOMAIN stmt.recs
                THEN stmt.recs[pg] ELSE journal.recs[pg]
         toFile == state = "EXCLUSIVE" /\ (cache[pg] = None \/ ~NeedSync(pg))
     IN
     /\ IF toFile THEN Store(pg, v) ELSE UNCHANGED <<file, disk>>
     /\ cache' = IF cache[pg] = None THEN cache
                 ELSE [cache EXCEPT ![pg].data = v,
                                    ![pg].dirty = @ /\ ~toFile]
  /\ todo' = todo \ {pg}
  /\ UNCHANGED <<journal, stmt, state, always, pc, bounds>>

\* sqlite3pager_stmt_begin()
BeginStmt ==
  /\ InTransaction /\ stmt = None /\ world.statements
  /\ stmt' = [saved |-> {}, recs |-> NoRecs, before |-> DOMAIN journal.recs]
  /\ UNCHANGED <<files, cache, state, always, pc, todo, bounds>>

CommitStmt ==
  /\ InTransaction /\ stmt # None
  /\ stmt' = None
  /\ UNCHANGED <<files, cache, state, always, pc, todo, bounds>>

\* pager_stmt_playback(): the statement journal, then the records that the
\* statement has added to the other one.
RollbackStmt ==
  /\ InTransaction /\ stmt # None
  /\ pc' = "stmt"
  /\ todo' = DOMAIN stmt.recs \union (DOMAIN journal.recs \ stmt.before)
  /\ UNCHANGED <<files, memory, bounds>>

StmtRolledBack ==
  /\ pc = "stmt" /\ todo = {}
  /\ stmt' = None /\ pc' = "ready"
  /\ UNCHANGED <<files, cache, state, always, todo, bounds>>

Stop ==
  /\ stmt' = None /\ cache' = Uncached
  /\ state' = "UNLOCK" /\ always' = FALSE
  /\ pc' = "down" /\ todo' = {}

Kill ==
  /\ pc # "down"
  /\ Fault("kill")
  /\ Stop
  /\ UNCHANGED files

\* Of the journal there remains what was synced, if anything at all.
PowerFailure ==
  /\ Fault("power")
  /\ \E header \in disk[1], f \in [Data -> Values] :
       /\ \A pg \in Data : f[pg] \in disk[pg]
       /\ file' = [pg \in Pages |-> IF pg = 1 THEN header ELSE f[pg]]
  /\ disk' = [pg \in Pages |-> {file'[pg]}]
  /\ journal' = IF journal = None \/ journal.synced = {} THEN None
                ELSE [journal EXCEPT !.recs = Restrict(@, journal.synced)]
  /\ Stop

\* sqlite3pager_get() of the next process: a hot journal is played back.
Open ==
  /\ pc = "down"
  /\ IF journal = None
       THEN /\ state' = "SHARED" /\ pc' = "ready"
            /\ UNCHANGED todo
       ELSE state' = "EXCLUSIVE" /\ Playback
  /\ UNCHANGED <<files, stmt, cache, always, bounds>>

Next ==
  \/ \E pg \in Pages : Get(pg) \/ WritePage(pg) \/ PlaybackPage(pg)
  \/ \E pg \in Data, v \in Values : Update(pg, v)
  \/ \E pg \in world.leaves : Free(pg) \/ \E v \in Values : Allocate(pg, v)
  \/ \E pg \in world.spilled : Recycle(pg)
  \/ Begin \/ Commit \/ SyncFile \/ DropJournal \/ EndEmpty \/ Reset
  \/ Reload \/ Rollback
  \/ BeginStmt \/ CommitStmt \/ RollbackStmt \/ StmtRolledBack
  \/ Kill \/ PowerFailure \/ Open

Spec == Init /\ [][Next]_vars

-----------------------------------------------------------------------------
(* Properties.                                                             *)

\* Page 1 holds a set of free pages, the others have values.
Proper(r) == /\ 1 \in DOMAIN r => r[1] \subseteq world.leaves
             /\ \A pg \in DOMAIN r \ {1} : r[pg] \in Values

Seen == [pg \in Pages |-> IF cache[pg] = None THEN file[pg] ELSE cache[pg].data]

\* Every variable keeps its type, and the flags of a page agree with the
\* journal: what is dirty or waits for a sync is saved, and a page that waits
\* for a sync never leaves the cache (the assertions of sqlite3pager_get()).
PagerTypeOK ==
  /\ world \in Worlds
  /\ file \in [Pages -> Content] /\ Proper(file)
  /\ disk \in [Pages -> SUBSET Content] /\ disk[1] \subseteq SUBSET world.leaves
  /\ \A pg \in Pages : file[pg] \in disk[pg]
  /\ journal \in Journals \union {None}
  /\ stmt \in StmtJournals \union {None}
  /\ cache \in [Pages -> PgHdr \union {None}] /\ Proper(Seen)
  /\ state \in {"UNLOCK", "SHARED", "RESERVED", "EXCLUSIVE"}
  /\ always \in BOOLEAN
  /\ pc \in {"ready", "spill", "commit", "synced", "undo", "stmt", "down"}
  /\ todo \subseteq Pages
  /\ journal # None =>
       /\ Proper(journal.recs)
       /\ journal.synced \subseteq DOMAIN journal.recs
       /\ DOMAIN journal.recs \subseteq journal.saved
  /\ stmt # None => journal # None /\ Proper(stmt.recs)
  /\ \A pg \in Pages :
       /\ cache[pg] # None /\ cache[pg].dirty =>
            journal # None /\ pg \in journal.saved
       /\ pc \notin {"down", "undo"} /\ NeedSync(pg) => cache[pg] # None
  /\ faults \in 0..world.maxFaults /\ changes \in 0..world.maxChanges

\* A cursor keeps the cache over rollbacks of what was neither freed nor
\* spilled, and the power fails once, with no rollback or recovery before it.
Orderly ==
  /\ world.cursors => world.leaves = {} /\ world.spilled = {}
  /\ "power" \in world.faults => world.maxFaults <= 1

\* What matters of the pages: a free one has no content.
Shown(f) == [pg \in Data |-> IF pg \in f[1] THEN None ELSE f[pg]]

\* What a recovery would make of the file.
Recovered == [pg \in Pages |-> IF journal # None /\ pg \in journal.synced
                                 THEN journal.recs[pg] ELSE file[pg]]
Recoverable == Shown(Recovered)

\* What a rollback of the statement would make of what is seen now.
Restored == [pg \in Pages |->
  IF pg \in DOMAIN stmt.recs THEN stmt.recs[pg]
  ELSE IF pg \in DOMAIN journal.recs \ stmt.before THEN journal.recs[pg]
  ELSE Seen[pg]]
AtBegin == Shown(Restored)

Abstract == INSTANCE Transactions WITH
  committed <- Recoverable,
  current <- CASE pc \in {"undo", "down"} -> Recoverable
               [] pc = "stmt" -> AtBegin
               [] OTHER -> Shown(Seen),
  mark <- IF stmt = None \/ pc \in {"stmt", "undo"} THEN None ELSE AtBegin

\* The pager, with all that it does not save and does not write, is a file
\* with atomic transactions and statements in them ("implements atomic commit
\* and rollback", pager.c:14-16): what is seen and what a recovery would find
\* change as Transactions says, whether pages are spilled, the process is
\* killed, a cursor keeps the cache, or the power fails and of each unsynced
\* write nobody knows whether it has survived.  A recovery finds something
\* else only after a commit, whose moment is the deletion of the journal.
TransactionsAreAtomic ==
  [][Orderly => /\ [Abstract!Next]_Abstract!vars
                /\ Recoverable' # Recoverable => pc = "synced"]_vars

\* The flags of the pages agree with the journal, and after a transaction the
\* cache holds what the file does, also when it was rolled back under a
\* cursor: "All in-memory cache pages revert to their original data contents"
\* (pager.c:3123).
CacheAgrees ==
  /\ PagerTypeOK
  /\ Orderly /\ pc = "ready" /\ journal = None =>
       \A pg \in Pages \ (file[1] \ {1}) :
         cache[pg] # None => cache[pg].data = file[pg]
=============================================================================
