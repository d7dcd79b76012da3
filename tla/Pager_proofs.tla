---------------------------- MODULE Pager_proofs ----------------------------
(* Proofs about the pager: that the flags of its pages agree with the      *)
(* journal, that it implements Transactions, and that its cache agrees     *)
(* with the file, for any pages, values and worlds.                        *)
EXTENDS Pager, TLAPS

-----------------------------------------------------------------------------
(* The invariant.                                                          *)

\* The free pages: of the transaction before, as they are seen now, and as
\* they were when the statement began.
FreeBefore == Recovered[1]
FreeNow == Seen[1]
FreeAtBegin == Restored[1]

\* A transaction goes on, and its statements.
Goes == pc \in {"ready", "spill", "stmt"}
InStmt == stmt # None /\ Goes

\* What the records of a statement restore.
Undone == DOMAIN stmt.recs \union (DOMAIN journal.recs \ stmt.before)

\* The pager knows of the page that it was freed in this transaction.
Flagged(pg) == always \/ (cache[pg] # None /\ cache[pg].alwaysRollback)

\* Page 1 stays in the cache as long as any page.
CacheOK ==
  /\ \A pg \in Pages : cache[pg] # None => cache[1] # None
  /\ journal # None /\ pc \notin {"down", "undo"} => cache[1] # None

\* The place of the pager in what it does.
PlaceOK ==
  /\ pc = "ready" => todo = {}
  /\ pc \in {"spill", "commit"} =>
       /\ journal # None /\ state = "EXCLUSIVE"
       /\ \A pg \in todo : cache[pg] # None /\ cache[pg].dirty /\ ~NeedSync(pg)
  /\ pc = "spill" =>
       \E pg \in Data : /\ todo = {pg}
                        /\ cache[pg].alwaysRollback => always
  /\ pc \in {"commit", "synced"} =>
       /\ journal # None
       /\ journal.synced = DOMAIN journal.recs
       /\ \A pg \in Pages : cache[pg] # None /\ cache[pg].dirty => pg \in todo
  /\ pc = "synced" => todo = {} /\ \A pg \in Pages : disk[pg] = {file[pg]}
  /\ pc = "stmt" => stmt # None /\ todo \subseteq Undone
  /\ pc = "undo" => journal # None /\ state = "EXCLUSIVE" /\ todo \subseteq journal.synced
  /\ pc = "down" => cache = Uncached /\ stmt = None /\ todo = {}
  /\ pc \in {"undo", "down"} => faults # 0
  /\ journal = None => state \in {"SHARED", "UNLOCK"}
  /\ state = "RESERVED" => pc \in {"ready", "stmt"}

\* What is recorded and not synced is still in the file; while the file is
\* not locked everything is; and what was saved without a record was free.
RecordsOK ==
  journal # None =>
    /\ \A pg \in DOMAIN journal.recs :
         \/ journal.recs[pg] = file[pg]
         \/ pg \in FreeBefore
         \/ pg \in journal.synced /\ state # "RESERVED"
    /\ pc \notin {"down", "undo"} =>
         journal.saved \subseteq DOMAIN journal.recs \union FreeBefore
    /\ pc = "undo" =>
         \A pg \in journal.synced \ todo : file[pg] = journal.recs[pg]

\* A page that was freed in the transaction is flagged, also when the
\* statement will be rolled back.
FlagsOK ==
  Goes /\ journal # None =>
    /\ \A pg \in FreeNow \ FreeBefore : Flagged(pg)
    /\ stmt # None =>
         /\ \A pg \in FreeAtBegin \ FreeBefore : Flagged(pg)
         /\ \A pg \in FreeNow \ FreeAtBegin : Flagged(pg)

\* The records of the statement, and what it has changed.
StmtOK ==
  InStmt =>
    /\ stmt.before \subseteq DOMAIN journal.recs
    /\ Undone \subseteq stmt.saved
    /\ stmt.saved \subseteq journal.saved
    /\ stmt.saved \subseteq Undone \union FreeAtBegin
    /\ \A pg \in Undone :
         \/ cache[pg] # None /\ cache[pg].dirty
         \/ state = "EXCLUSIVE" /\ ~NeedSync(pg)
    /\ pc = "stmt" => \A pg \in Undone \ todo : Seen[pg] = Restored[pg]

\* A clean page agrees with the file, or is free.
CleanOK ==
  pc \notin {"down", "undo"} =>
    \A pg \in Pages :
      cache[pg] # None /\ ~cache[pg].dirty /\ cache[pg].data # file[pg] =>
        /\ pg \in FreeNow
        /\ InStmt => pg \in FreeAtBegin
        /\ pg \in FreeBefore \/ (journal # None /\ pg \in journal.saved)

\* What a cursor keeps.
KeptOK ==
  world.cursors =>
    /\ state = "EXCLUSIVE" => ~Goes
    /\ pc = "undo" =>
         \A pg \in Pages : cache[pg] # None =>
           IF cache[pg].dirty THEN pg \in todo
           ELSE cache[pg].data = file[pg]

\* What a power failure may take is not needed.
DiskOK ==
  MayBe("power") =>
    \A pg \in Pages :
      \/ disk[pg] = {file[pg]}
      \/ pg \in FreeBefore
      \/ journal # None /\ pg \in journal.synced

Base == PagerTypeOK /\ CacheOK /\ PlaceOK
Agrees == RecordsOK /\ FlagsOK /\ StmtOK /\ CleanOK /\ KeptOK /\ DiskOK

PInv == Base /\ (Orderly => Agrees)

-----------------------------------------------------------------------------
(* Lemmas about the operators.                                             *)

LEMMA RecordsType ==
  ASSUME NEW r \in Records
  PROVE  /\ DOMAIN r \subseteq Pages
         /\ r \in [DOMAIN r -> Content]
         /\ \A pg \in DOMAIN r : r[pg] \in Content
BY DEF Records

LEMMA RecordsIntro ==
  ASSUME NEW S \in SUBSET Pages, NEW r \in [S -> Content]
  PROVE  r \in Records
BY DEF Records

\* A page that is got is what is seen of it.
LEMMA GotIsSeen ==
  ASSUME PagerTypeOK, NEW pg \in Pages
  PROVE  /\ Got(pg) \in PgHdr /\ Got(pg) # None
         /\ Got(pg).data = Seen[pg]
         /\ Seen[pg] \in Content
         /\ cache[pg] # None => Got(pg) = cache[pg]
         /\ cache[pg] = None => ~Got(pg).dirty /\ ~Got(pg).alwaysRollback
<1>1. cache[pg] \in PgHdr \union {None} /\ file[pg] \in Content
  BY DEF PagerTypeOK
<1>2. Got(pg) \in PgHdr
  BY <1>1 DEF Got, PgHdr
<1> QED
  BY <1>1, <1>2, PagerAssumption DEF Got, Seen, PgHdr

\* Records to which the pages of a set are added.
LEMMA WithRecords ==
  ASSUME PagerTypeOK, NEW r \in Records, NEW S \in SUBSET Pages
  PROVE  /\ With(r, S) \in Records
         /\ DOMAIN With(r, S) = DOMAIN r \union S
         /\ \A pg \in S : With(r, S)[pg] = Seen[pg]
         /\ \A pg \in DOMAIN r \ S : With(r, S)[pg] = r[pg]
         /\ Proper(r) => Proper(With(r, S))
<1>1. /\ DOMAIN With(r, S) = DOMAIN r \union S
      /\ \A pg \in S : With(r, S)[pg] = Seen[pg]
      /\ \A pg \in DOMAIN r \ S : With(r, S)[pg] = r[pg]
  BY GotIsSeen DEF With
<1>2. With(r, S) \in [DOMAIN r \union S -> Content]
  BY <1>1, GotIsSeen, RecordsType DEF With
<1>3. Proper(r) => Proper(With(r, S))
  BY <1>1, RecordsType DEF Proper, PagerTypeOK, Seen
<1> QED
  BY <1>1, <1>2, <1>3, RecordsIntro, RecordsType

\* What sqlite3pager_write() adds to the journals.
LEMMA SaveJournal ==
  ASSUME PagerTypeOK, journal # None,
         NEW S \in SUBSET Pages, NEW skip, Save(S, skip)
  PROVE  /\ journal' \in Journals /\ journal' # None
         /\ journal'.saved = journal.saved \union S
         /\ journal'.synced = journal.synced
         /\ DOMAIN journal'.recs =
              DOMAIN journal.recs \union (S \ (journal.saved \union skip))
         /\ \A pg \in DOMAIN journal.recs : journal'.recs[pg] = journal.recs[pg]
         /\ \A pg \in S \ (journal.saved \union skip) :
              journal'.recs[pg] = Seen[pg]
         /\ Proper(journal'.recs)
         /\ journal'.synced \subseteq DOMAIN journal'.recs
         /\ DOMAIN journal'.recs \subseteq journal'.saved
<1> DEFINE new == S \ (journal.saved \union skip)
           r == With(journal.recs, new)
<1>1. /\ journal \in Journals
      /\ journal.recs \in Records /\ Proper(journal.recs)
      /\ journal.synced \subseteq DOMAIN journal.recs
      /\ DOMAIN journal.recs \subseteq journal.saved
      /\ journal.saved \subseteq Pages /\ journal.synced \subseteq Pages
  BY DEF PagerTypeOK, Journals
<1>2. journal' = [journal EXCEPT !.saved = journal.saved \union S, !.recs = r]
  BY DEF Save
<1>3. /\ r \in Records /\ Proper(r)
      /\ DOMAIN r = DOMAIN journal.recs \union new
      /\ \A pg \in new : r[pg] = Seen[pg]
      /\ \A pg \in DOMAIN journal.recs \ new : r[pg] = journal.recs[pg]
  BY <1>1, WithRecords
<1> HIDE DEF r
<1>4. /\ journal'.saved = journal.saved \union S
      /\ journal'.synced = journal.synced
      /\ journal'.recs = r
      /\ journal' \in Journals
  BY <1>1, <1>2, <1>3 DEF Journals
<1>5. \A pg \in DOMAIN journal.recs : pg \notin new
  BY <1>1
<1> QED
  BY <1>1, <1>3, <1>4, <1>5, PagerAssumption

LEMMA SaveStmt ==
  ASSUME PagerTypeOK, journal # None, stmt # None,
         NEW S \in SUBSET Pages, NEW skip, Save(S, skip)
  PROVE  /\ stmt' \in StmtJournals /\ stmt' # None
         /\ stmt'.saved = stmt.saved \union S
         /\ stmt'.before = stmt.before
         /\ DOMAIN stmt'.recs = DOMAIN stmt.recs \union
              ((S \intersect journal.saved) \ (stmt.saved \union skip))
         /\ \A pg \in DOMAIN stmt.recs :
              pg \notin (S \intersect journal.saved) \ (stmt.saved \union skip)
                => stmt'.recs[pg] = stmt.recs[pg]
         /\ \A pg \in (S \intersect journal.saved) \ (stmt.saved \union skip) :
              stmt'.recs[pg] = Seen[pg]
         /\ Proper(stmt'.recs)
<1> DEFINE new == (S \intersect journal.saved) \ (stmt.saved \union skip)
           r == With(stmt.recs, new)
<1>1. /\ stmt \in StmtJournals
      /\ stmt.recs \in Records /\ Proper(stmt.recs)
      /\ stmt.saved \subseteq Pages /\ stmt.before \subseteq Pages
  BY DEF PagerTypeOK, StmtJournals
<1>2. stmt' = [stmt EXCEPT !.saved = stmt.saved \union S, !.recs = r]
  BY DEF Save
<1>3. /\ r \in Records /\ Proper(r)
      /\ DOMAIN r = DOMAIN stmt.recs \union new
      /\ \A pg \in new : r[pg] = Seen[pg]
      /\ \A pg \in DOMAIN stmt.recs \ new : r[pg] = stmt.recs[pg]
  <2>1. new \in SUBSET Pages
    OBVIOUS
  <2> HIDE DEF new
  <2> QED
    BY <1>1, <2>1, WithRecords
<1> HIDE DEF r
<1>4. /\ stmt'.saved = stmt.saved \union S
      /\ stmt'.before = stmt.before
      /\ stmt'.recs = r
      /\ stmt' \in StmtJournals
  BY <1>1, <1>2, <1>3 DEF StmtJournals
<1> QED
  BY <1>1, <1>3, <1>4, PagerAssumption

-----------------------------------------------------------------------------
(* The flags of the pages and the place of the pager.                      *)

LEMMA InitBase == Init => Base
<1> SUFFICES ASSUME Init PROVE Base
  OBVIOUS
<1>1. PICK free \in SUBSET world.leaves, v \in Values :
        file = [pg \in Pages |-> IF pg = 1 THEN free ELSE v]
  BY DEF Init
<1>2. world \in Worlds /\ world.leaves \in SUBSET Data
      /\ world.maxFaults \in Nat /\ world.maxChanges \in Nat
  BY PagerAssumption DEF Init
<1>3. PagerTypeOK
  <2>1. file \in [Pages -> Content] /\ Proper(file)
    BY <1>1, <1>2, PagerAssumption DEF Content, Proper, Pages
  <2>2. Seen = file
    BY <2>1 DEF Seen, Init, Uncached
  <2>3. /\ disk \in [Pages -> SUBSET Content] /\ disk[1] \subseteq SUBSET world.leaves
        /\ \A pg \in Pages : file[pg] \in disk[pg]
    BY <2>1 DEF Init, Proper, Pages
  <2>4. /\ cache \in [Pages -> PgHdr \union {None}]
        /\ \A pg \in Pages : cache[pg] = None
        /\ journal = None /\ stmt = None
        /\ faults \in 0..world.maxFaults /\ changes \in 0..world.maxChanges
    BY <1>2 DEF Init, Uncached
  <2> QED
    BY <1>2, <2>1, <2>2, <2>3, <2>4 DEF PagerTypeOK, Init, NeedSync
<1>4. CacheOK /\ PlaceOK
  BY DEF CacheOK, PlaceOK, Init, Uncached
<1> QED
  BY <1>3, <1>4 DEF Base

\* What a step keeps that only moves a page between the file and the cache.
LEMMA WorldTypes ==
  ASSUME PagerTypeOK
  PROVE  /\ world.leaves \in SUBSET Data
         /\ world.spilled \in SUBSET Data
         /\ world.maxFaults \in Nat /\ world.maxChanges \in Nat
         /\ world.faults \subseteq {"rollback", "kill", "power"}
         /\ faults \in Nat /\ changes \in Nat
         /\ 1 \in Pages
BY PagerAssumption DEF PagerTypeOK, Pages

LEMMA GetBase ==
  ASSUME Base, NEW pg \in Pages, Get(pg)
  PROVE  Base'
<1>1. /\ Got(pg) \in PgHdr /\ Got(pg) # None /\ Got(pg).data = Seen[pg]
      /\ ~Got(pg).dirty
  BY GotIsSeen DEF Base, Get
<1>2. /\ cache' \in [Pages -> PgHdr \union {None}]
      /\ cache' = [cache EXCEPT ![pg] = Got(pg)]
      /\ cache'[pg] = Got(pg)
      /\ \A q \in Pages \ {pg} : cache'[q] = cache[q]
  BY <1>1 DEF Base, PagerTypeOK, Get
<1>3. Seen' = Seen
  BY <1>1, <1>2 DEF Seen, Get, files
<1>4. PagerTypeOK'
  BY <1>1, <1>2, <1>3 DEF Base, PagerTypeOK, Get, NeedSync, files, bounds, Proper
<1>5. CacheOK' /\ PlaceOK'
  BY <1>1, <1>2 DEF Base, CacheOK, PlaceOK, Get, NeedSync, files, bounds, Undone,
    PagerTypeOK, Pages
<1> QED
  BY <1>4, <1>5 DEF Base

LEMMA BeginBase ==
  ASSUME Base, Begin
  PROVE  Base'
<1>1. /\ journal' \in Journals /\ journal' # None
      /\ journal'.recs = NoRecs /\ DOMAIN NoRecs = {}
      /\ journal'.saved = {} /\ journal'.synced = {}
  <2>1. NoRecs \in Records /\ DOMAIN NoRecs = {}
    BY DEF NoRecs, Records
  <2> QED
    BY <2>1, PagerAssumption DEF Begin, Journals
<1>2. Seen' = Seen
  BY DEF Seen, Begin
<1>3. PagerTypeOK'
  BY <1>1, <1>2 DEF Base, PagerTypeOK, Begin, NeedSync, bounds, Proper
<1>4. CacheOK' /\ PlaceOK'
  BY <1>1 DEF Base, CacheOK, PlaceOK, Begin, NeedSync, bounds, Undone
<1> QED
  BY <1>3, <1>4 DEF Base

\* Steps that change neither the file nor the cache.
LEMMA StmtBase ==
  ASSUME Base, BeginStmt \/ CommitStmt \/ RollbackStmt \/ StmtRolledBack
  PROVE  Base'
<1>1. /\ Seen' = Seen
      /\ UNCHANGED <<files, cache, state, always, bounds>>
      /\ file' = file /\ journal' = journal /\ disk' = disk
      /\ world' = world /\ faults' = faults /\ changes' = changes
  BY DEF Seen, files, memory, bounds, BeginStmt, CommitStmt, RollbackStmt,
    StmtRolledBack
<1>2. /\ stmt' \in StmtJournals \union {None}
      /\ stmt' # None => journal # None /\ Proper(stmt'.recs)
  <2>1. CASE BeginStmt
    <3>1. /\ NoRecs \in Records /\ DOMAIN NoRecs = {}
          /\ journal \in Journals
          /\ DOMAIN journal.recs \subseteq Pages
      <4>1. /\ journal \in Journals /\ journal.recs \in Records
        BY <2>1 DEF Base, PagerTypeOK, BeginStmt, InTransaction, Journals
      <4>2. NoRecs \in Records /\ DOMAIN NoRecs = {}
        BY DEF NoRecs, Records
      <4> QED
        BY <4>1, <4>2, RecordsType
    <3> QED
      BY <2>1, <3>1 DEF BeginStmt, StmtJournals, InTransaction, Proper
  <2>2. CASE CommitStmt \/ StmtRolledBack
    BY <2>2 DEF CommitStmt, StmtRolledBack
  <2>3. CASE RollbackStmt
    BY <2>3 DEF RollbackStmt, Base, PagerTypeOK, memory, InTransaction
  <2> QED
    BY <2>1, <2>2, <2>3
<1>3. /\ pc \in {"ready", "stmt"} /\ pc' \in {"ready", "stmt"}
      /\ pc' = "ready" => todo' = {}
      /\ pc' = "stmt" => stmt' = stmt /\ stmt # None /\ todo' = Undone
      /\ todo' \subseteq Pages
  <2>1. CASE RollbackStmt
    <3>1. stmt.recs \in Records /\ journal.recs \in Records
      BY <2>1 DEF RollbackStmt, Base, PagerTypeOK, InTransaction, Journals,
        StmtJournals
    <3> QED
      BY <2>1, <3>1, RecordsType DEF RollbackStmt, InTransaction, memory, Undone
  <2> QED
    BY <2>1 DEF BeginStmt, CommitStmt, StmtRolledBack, InTransaction, Base,
      PlaceOK, PagerTypeOK
<1>4. PagerTypeOK'
  BY <1>1, <1>2, <1>3 DEF Base, PagerTypeOK, NeedSync, Proper
<1>5. CacheOK' /\ PlaceOK'
  BY <1>1, <1>2, <1>3 DEF Base, CacheOK, PlaceOK, NeedSync, Undone
<1> QED
  BY <1>4, <1>5 DEF Base

LEMMA SyncFileBase ==
  ASSUME Base, SyncFile
  PROVE  Base'
<1>1. /\ Seen' = Seen
      /\ UNCHANGED <<file, journal, stmt, cache, state, always, todo>>
      /\ world' = world /\ faults' = faults /\ changes' = changes
      /\ pc = "commit" /\ pc' = "synced" /\ todo = {}
      /\ disk' = [pg \in Pages |-> {file[pg]}]
  BY DEF Seen, memory, bounds, SyncFile
<1>2. PagerTypeOK'
  BY <1>1, WorldTypes DEF Base, PagerTypeOK, NeedSync, Proper
<1>3. CacheOK' /\ PlaceOK'
  BY <1>1 DEF Base, CacheOK, PlaceOK, NeedSync, Undone
<1> QED
  BY <1>2, <1>3 DEF Base

\* After pager_unwritelock().
LEMMA UnlockBase ==
  ASSUME Base, NEW c \in [Pages -> PgHdr \union {None}], Unwritelock(c),
         \A pg \in Pages :
           c[pg] # None => /\ c[pg].data = file[pg] \/ c[pg].data = Seen[pg]
                           /\ c[1] # None,
         UNCHANGED <<file, disk, always, todo, world, changes>>,
         faults' \in 0..world.maxFaults,
         todo = {}
  PROVE  Base'
<1>1. \A pg \in Pages : /\ cache'[pg] = None <=> c[pg] = None
                        /\ c[pg] # None => /\ cache'[pg].data = c[pg].data
                                           /\ ~cache'[pg].dirty
                                           /\ cache'[pg] \in PgHdr
  BY PagerAssumption DEF Unwritelock, PgHdr
<1>2. cache' \in [Pages -> PgHdr \union {None}]
  BY <1>1 DEF Unwritelock
<1>3. \A pg \in Pages : Seen'[pg] \in {Seen[pg], file[pg]}
  BY <1>1 DEF Seen
<1>4. Proper(Seen)'
  BY <1>3 DEF Base, PagerTypeOK, Proper, Seen
<1>5. /\ journal' = None /\ stmt' = None /\ state' = "SHARED" /\ pc' = "ready"
      /\ \A pg \in Pages : cache'[pg] # None => ~cache'[pg].dirty /\ cache'[1] # None
  BY <1>1, WorldTypes DEF Unwritelock, Base
<1>6. PagerTypeOK'
  <2>1. file' \in [Pages -> Content] /\ Proper(file)'
    BY DEF Base, PagerTypeOK, Proper
  <2>2. /\ disk' \in [Pages -> SUBSET Content] /\ disk'[1] \subseteq SUBSET world'.leaves
        /\ \A pg \in Pages : file'[pg] \in disk'[pg]
    BY DEF Base, PagerTypeOK
  <2>3. /\ world' \in Worlds /\ todo' \subseteq Pages /\ always' \in BOOLEAN
        /\ faults' \in 0..world'.maxFaults /\ changes' \in 0..world'.maxChanges
    BY DEF Base, PagerTypeOK, Unwritelock
  <2> QED
    BY <1>2, <1>4, <1>5, <2>1, <2>2, <2>3 DEF PagerTypeOK, NeedSync
<1>7. CacheOK' /\ PlaceOK'
  BY <1>5 DEF CacheOK, PlaceOK
<1> QED
  BY <1>6, <1>7 DEF Base

LEMMA EndBase ==
  ASSUME Base, DropJournal \/ EndEmpty \/ Reload
  PROVE  Base'
<1>1. /\ cache \in [Pages -> PgHdr \union {None}]
      /\ Uncached \in [Pages -> PgHdr \union {None}]
      /\ \A pg \in Pages : cache[pg] # None => cache[pg].data = Seen[pg] /\ cache[1] # None
      /\ \A pg \in Pages : Uncached[pg] = None
  BY DEF Base, PagerTypeOK, Seen, CacheOK, Uncached
<1>2. /\ Reloaded \in [Pages -> PgHdr \union {None}]
      /\ \A pg \in Pages : Reloaded[pg] # None =>
           /\ Reloaded[pg].data \in {file[pg], Seen[pg]}
           /\ Reloaded[1] # None
  <2>1. \A pg \in Pages : file[pg] \in Content /\ cache[pg] \in PgHdr \union {None}
    BY DEF Base, PagerTypeOK
  <2>2. \A pg \in Pages : cache[pg] # None =>
          /\ Reloaded[pg] \in PgHdr
          /\ Reloaded[pg].data \in {file[pg], Seen[pg]}
    BY <1>1, <2>1 DEF Reloaded, PgHdr
  <2>3. \A pg \in Pages : cache[pg] = None => Reloaded[pg] = None
    BY DEF Reloaded
  <2>4. Reloaded \in [Pages -> PgHdr \union {None}]
    BY <2>1, <2>2, <2>3 DEF Reloaded
  <2> QED
    BY <1>1, <2>2, <2>3, <2>4, WorldTypes, PagerAssumption DEF Base
<1>3. todo = {}
  BY DEF DropJournal, EndEmpty, Reload, InTransaction, Base, PlaceOK
<1>4. CASE DropJournal \/ EndEmpty
  <2>1. /\ UNCHANGED <<file, disk, always, todo, world, changes>>
        /\ faults' \in 0..world.maxFaults
    BY <1>4 DEF DropJournal, EndEmpty, bounds, Base, PagerTypeOK
  <2>2. Unwritelock(cache) \/ Unwritelock(Uncached)
    BY <1>4 DEF DropJournal, EndEmpty
  <2> QED
    BY <1>1, <1>3, <2>1, <2>2, UnlockBase
<1>5. CASE Reload
  <2>1. /\ UNCHANGED <<file, disk, always, todo, world, changes>>
        /\ faults' \in 0..world.maxFaults
    BY <1>5, WorldTypes DEF Reload, Fault, MayBe, Base
  <2>2. Unwritelock(Reloaded) \/ Unwritelock(Uncached)
    BY <1>5 DEF Reload
  <2> QED
    BY <1>1, <1>2, <1>3, <2>1, <2>2, UnlockBase
<1> QED
  BY <1>4, <1>5

\* A change of pages that are saved.
LEMMA SaveBase ==
  ASSUME Base, InTransaction, NEW S \in SUBSET Pages, NEW skip, Save(S, skip),
         cache' \in [Pages -> PgHdr \union {None}], Proper(Seen)',
         \A pg \in S : cache'[pg] # None,
         \A pg \in Pages : cache[pg] # None => cache'[pg] # None,
         \A pg \in Pages : cache'[pg] # None /\ cache'[pg].dirty =>
           pg \in S \/ (cache[pg] # None /\ cache[pg].dirty),
         Change,
         UNCHANGED <<file, disk, state, always, pc, todo>>
  PROVE  Base'
<1>1. journal # None /\ PagerTypeOK /\ pc = "ready" /\ todo = {}
  BY DEF InTransaction, Base, PlaceOK
<1>2. /\ journal' \in Journals /\ journal' # None
      /\ Proper(journal'.recs)
      /\ journal'.synced \subseteq DOMAIN journal'.recs
      /\ DOMAIN journal'.recs \subseteq journal'.saved
      /\ journal'.saved = journal.saved \union S
      /\ \A pg : pg \in DOMAIN journal'.recs =>
           pg \in S \/ pg \in DOMAIN journal.recs
      /\ journal'.synced = journal.synced
  BY <1>1, SaveJournal
<1>3. /\ stmt' \in StmtJournals \union {None}
      /\ stmt' # None => Proper(stmt'.recs)
  <2>1. CASE stmt = None
    BY <2>1 DEF Save
  <2>2. CASE stmt # None
    BY <1>1, <2>2, SaveStmt
  <2> QED
    BY <2>1, <2>2
<1>4. /\ world' = world /\ faults' = faults
      /\ changes' \in 0..world'.maxChanges
  BY <1>1, WorldTypes DEF Change
<1>5. \A pg \in Pages : NeedSync(pg)' => cache'[pg] # None
  BY <1>1, <1>2 DEF NeedSync, PagerTypeOK
<1>6. \A pg \in Pages : cache'[pg] # None /\ cache'[pg].dirty => pg \in journal'.saved
  BY <1>1, <1>2 DEF PagerTypeOK
<1>7. PagerTypeOK'
  <2>1. file' \in [Pages -> Content] /\ Proper(file)'
    BY <1>1, <1>4 DEF PagerTypeOK, Proper
  <2>2. /\ disk' \in [Pages -> SUBSET Content] /\ disk'[1] \subseteq SUBSET world'.leaves
        /\ \A pg \in Pages : file'[pg] \in disk'[pg]
    BY <1>1, <1>4 DEF PagerTypeOK
  <2>3. Proper(journal.recs)' /\ (stmt' # None => Proper(stmt.recs)')
    BY <1>2, <1>3, <1>4 DEF Proper
  <2> QED
    BY <1>1, <1>2, <1>3, <1>4, <1>5, <1>6, <2>1, <2>2, <2>3 DEF PagerTypeOK
<1>8. CacheOK' /\ PlaceOK'
  BY <1>1, <1>2, WorldTypes DEF Base, CacheOK, PlaceOK
<1> QED
  BY <1>7, <1>8 DEF Base

\* A page that is changed.
LEMMA ChangedPage ==
  ASSUME PagerTypeOK, NEW pg \in Pages, NEW v \in Content
  PROVE  /\ Changed(pg, v) \in PgHdr /\ Changed(pg, v) # None
         /\ Changed(pg, v).data = v /\ Changed(pg, v).dirty
         /\ Changed(pg, v).alwaysRollback = Got(pg).alwaysRollback
BY GotIsSeen, PagerAssumption DEF Changed, PgHdr

LEMMA UpdateBase ==
  ASSUME Base, NEW pg \in Data, NEW v \in Values, Update(pg, v)
  PROVE  Base'
<1>1. /\ PagerTypeOK /\ pg \in Pages /\ pg # 1 /\ v \in Content
  BY PagerAssumption DEF Base, Pages, Content
<1>2. /\ Changed(pg, v) \in PgHdr /\ Changed(pg, v) # None
      /\ Changed(pg, v).data = v
  BY <1>1, ChangedPage
<1>3. /\ cache' = [cache EXCEPT ![pg] = Changed(pg, v)]
      /\ cache' \in [Pages -> PgHdr \union {None}]
      /\ cache'[pg] = Changed(pg, v)
      /\ \A q \in Pages \ {pg} : cache'[q] = cache[q]
  BY <1>1, <1>2 DEF Update, PagerTypeOK
<1>4. Proper(Seen)'
  <2>1. /\ DOMAIN Seen = Pages /\ DOMAIN Seen' = Pages
        /\ Seen'[pg] = v
        /\ \A q \in Pages \ {pg} : Seen'[q] = Seen[q]
    BY <1>2, <1>3 DEF Seen, Update
  <2> QED
    BY <1>1, <2>1 DEF Proper, PagerTypeOK, Update, Change
<1>5. Base'
  BY <1>1, <1>2, <1>3, <1>4, SaveBase DEF Update
<1> QED
  BY <1>5

LEMMA FreeBase ==
  ASSUME Base, NEW pg \in world.leaves, Free(pg)
  PROVE  Base'
<1>1. /\ PagerTypeOK /\ pg \in Pages /\ pg # 1 /\ 1 \in Pages
      /\ world.leaves \in SUBSET Data
      /\ cache[1] \in PgHdr /\ cache[1] # None
      /\ cache[1].data = Seen[1] /\ Seen[1] \subseteq world.leaves
  <2>1. PagerTypeOK /\ world.leaves \in SUBSET Data /\ 1 \in Pages
    BY WorldTypes DEF Base
  <2>2. cache[1] # None
    BY DEF Free, InTransaction, Base, CacheOK
  <2> QED
    BY <2>1, <2>2, PagerAssumption DEF Pages, PagerTypeOK, Seen, Proper
<1>2. DEFINE h == Changed(1, cache[1].data \union {pg})
             f == [Got(pg) EXCEPT !.alwaysRollback = TRUE,
                                  !.dirty = Got(pg).dirty /\ stmt # None]
<1>3. /\ h \in PgHdr /\ h # None /\ h.data = Seen[1] \union {pg}
      /\ f \in PgHdr /\ f # None /\ f.data = Seen[pg]
      /\ f.dirty => Got(pg).dirty
  <2>1. h \in PgHdr /\ h # None /\ h.data = Seen[1] \union {pg}
    BY <1>1, ChangedPage DEF Content
  <2>2. Got(pg) \in PgHdr /\ Got(pg).data = Seen[pg]
    BY <1>1, GotIsSeen
  <2> QED
    BY <2>1, <2>2, PagerAssumption DEF PgHdr
<1>4. /\ cache' = [cache EXCEPT ![1] = h, ![pg] = f]
      /\ cache' \in [Pages -> PgHdr \union {None}]
      /\ cache'[pg] = f /\ cache'[1] = h
      /\ \A q \in Pages \ {1, pg} : cache'[q] = cache[q]
  BY <1>1, <1>3 DEF Free, PagerTypeOK
<1> HIDE DEF h, f
<1>5. Proper(Seen)'
  <2>1. /\ DOMAIN Seen = Pages /\ DOMAIN Seen' = Pages
        /\ Seen'[1] = Seen[1] \union {pg}
        /\ \A q \in Pages \ {1} : Seen'[q] = Seen[q]
    BY <1>1, <1>3, <1>4 DEF Seen, Free
  <2> QED
    BY <1>1, <2>1 DEF Proper, PagerTypeOK, Free, Change
<1>6. \A q \in Pages : cache'[q] # None /\ cache'[q].dirty =>
           q \in {1} \/ (cache[q] # None /\ cache[q].dirty)
  BY <1>1, <1>3, <1>4, GotIsSeen
<1> QED
  BY <1>1, <1>3, <1>4, <1>5, <1>6, SaveBase DEF Free

LEMMA AllocateBase ==
  ASSUME Base, NEW pg \in world.leaves, NEW v \in Values, Allocate(pg, v)
  PROVE  Base'
<1>1. /\ PagerTypeOK /\ pg \in Pages /\ pg # 1 /\ 1 \in Pages
      /\ world.leaves \in SUBSET Data
      /\ cache[1] \in PgHdr /\ cache[1] # None
      /\ cache[1].data = Seen[1] /\ Seen[1] \subseteq world.leaves
      /\ v \in Content
  <2>1. PagerTypeOK /\ world.leaves \in SUBSET Data /\ 1 \in Pages
    BY WorldTypes DEF Base
  <2>2. cache[1] # None
    BY DEF Allocate, InTransaction, Base, CacheOK
  <2> QED
    BY <2>1, <2>2, PagerAssumption DEF Pages, PagerTypeOK, Seen, Proper, Content
<1>2. DEFINE h == Changed(1, cache[1].data \ {pg})
             f == Changed(pg, v)
<1>3. /\ h \in PgHdr /\ h # None /\ h.data = Seen[1] \ {pg}
      /\ f \in PgHdr /\ f # None /\ f.data = v
  BY <1>1, ChangedPage DEF Content
<1>4. /\ cache' = [cache EXCEPT ![1] = h, ![pg] = f]
      /\ cache' \in [Pages -> PgHdr \union {None}]
      /\ cache'[pg] = f /\ cache'[1] = h
      /\ \A q \in Pages \ {1, pg} : cache'[q] = cache[q]
  BY <1>1, <1>3 DEF Allocate, PagerTypeOK
<1> HIDE DEF h, f
<1>5. Proper(Seen)'
  <2>1. /\ DOMAIN Seen = Pages /\ DOMAIN Seen' = Pages
        /\ Seen'[1] = Seen[1] \ {pg}
        /\ Seen'[pg] = v
        /\ \A q \in Pages \ {1, pg} : Seen'[q] = Seen[q]
    BY <1>1, <1>3, <1>4 DEF Seen, Allocate
  <2> QED
    BY <1>1, <2>1 DEF Proper, PagerTypeOK, Allocate, Change
<1> QED
  BY <1>1, <1>3, <1>4, <1>5, SaveBase DEF Allocate

\* syncJournal()
LEMMA SyncedJournal ==
  ASSUME PagerTypeOK, journal # None
  PROVE  /\ Synced(journal) \in Journals /\ Synced(journal) # None
         /\ Synced(journal).saved = journal.saved
         /\ Synced(journal).recs = journal.recs
         /\ Synced(journal).synced = DOMAIN journal.recs
<1>1. journal \in Journals /\ journal.recs \in Records
  BY DEF PagerTypeOK, Journals
<1>2. DOMAIN journal.recs \subseteq Pages
  BY <1>1, RecordsType
<1> QED
  BY <1>1, <1>2, PagerAssumption DEF Synced, Journals

LEMMA RecycleBase ==
  ASSUME Base, NEW pg \in world.spilled, Recycle(pg)
  PROVE  Base'
<1>1. /\ PagerTypeOK /\ pg \in Data /\ pg \in Pages /\ pg # 1
      /\ cache[pg] \in PgHdr /\ cache[pg] # None /\ pc = "ready"
      /\ cache[pg].alwaysRollback \in BOOLEAN /\ cache[pg].data = Seen[pg]
  <2>1. PagerTypeOK /\ world.spilled \in SUBSET Data
    BY WorldTypes DEF Base
  <2>2. cache[pg] \in PgHdr
    BY <2>1 DEF Recycle, PagerTypeOK, Pages
  <2> QED
    BY <2>1, <2>2, PagerAssumption DEF Recycle, Pages, Seen, PgHdr
<1>2. /\ journal' \in Journals \union {None}
      /\ journal' = None <=> journal = None
      /\ journal # None =>
           /\ journal'.saved = journal.saved /\ journal'.recs = journal.recs
           /\ journal'.synced \in {journal.synced, DOMAIN journal.recs}
           /\ pg \notin DOMAIN journal'.recs \ journal'.synced
  <2>1. CASE NeedSync(pg)
    BY <1>1, <2>1, SyncedJournal DEF Recycle, NeedSync
  <2>2. CASE ~NeedSync(pg)
    BY <1>1, <2>2 DEF Recycle, PagerTypeOK, NeedSync
  <2> QED
    BY <2>1, <2>2
<1>3. ~NeedSync(pg)' /\ \A q \in Pages : NeedSync(q)' => NeedSync(q)
  BY <1>1, <1>2 DEF NeedSync, PagerTypeOK
<1>4. /\ always' \in BOOLEAN /\ (cache[pg].alwaysRollback => always')
  BY <1>1 DEF Recycle, PagerTypeOK
<1>5. UNCHANGED <<file, disk, stmt, world, faults, changes>>
  BY DEF Recycle, bounds
<1>6. /\ \A q \in Pages \ {pg} : cache'[q] = cache[q]
      /\ cache' \in [Pages -> PgHdr \union {None}]
      /\ cache[pg].dirty => cache' = cache
      /\ ~cache[pg].dirty => cache'[pg] = None
  BY <1>1 DEF Recycle, PagerTypeOK
<1>7. Proper(Seen)'
  <2>1. \A q \in Pages : Seen'[q] \in {Seen[q], file[q]}
    BY <1>1, <1>5, <1>6 DEF Seen
  <2> QED
    BY <1>1, <1>5, <2>1 DEF PagerTypeOK, Proper, Seen
<1>8. /\ todo' \subseteq Pages
      /\ state' \in {"UNLOCK", "SHARED", "RESERVED", "EXCLUSIVE"}
      /\ pc' \in {"ready", "spill"}
  BY <1>1 DEF Recycle, PagerTypeOK
<1>9. PagerTypeOK'
  <2>1. /\ file' \in [Pages -> Content] /\ Proper(file)'
        /\ stmt' \in StmtJournals \union {None}
        /\ stmt' # None => journal' # None /\ Proper(stmt.recs)'
        /\ journal' # None => Proper(journal.recs)'
    BY <1>1, <1>2, <1>5 DEF PagerTypeOK, Proper
  <2>2. /\ disk' \in [Pages -> SUBSET Content] /\ disk'[1] \subseteq SUBSET world'.leaves
        /\ \A q \in Pages : file'[q] \in disk'[q]
        /\ faults' \in 0..world'.maxFaults /\ changes' \in 0..world'.maxChanges
    BY <1>1, <1>5 DEF PagerTypeOK
  <2>3. \A q \in Pages :
           /\ cache'[q] # None /\ cache'[q].dirty =>
                journal' # None /\ q \in journal'.saved
           /\ NeedSync(q)' => cache'[q] # None
    BY <1>1, <1>2, <1>3, <1>6 DEF PagerTypeOK
  <2>4. journal' # None =>
           /\ journal'.synced \subseteq DOMAIN journal'.recs
           /\ DOMAIN journal'.recs \subseteq journal'.saved
    BY <1>1, <1>2 DEF PagerTypeOK
  <2> QED
    BY <1>1, <1>2, <1>4, <1>5, <1>6, <1>7, <1>8, <2>1, <2>2, <2>3, <2>4
       DEF PagerTypeOK
<1>10. CacheOK'
  BY <1>1, <1>2, <1>6, WorldTypes DEF Base, CacheOK
<1>11. PlaceOK'
  <2>1. CASE cache[pg].dirty
    <3>1. /\ journal' # None /\ state' = "EXCLUSIVE" /\ pc' = "spill"
          /\ todo' = {pg} /\ cache' = cache
      BY <1>1, <1>2, <2>1 DEF PagerTypeOK, Recycle
    <3> QED
      BY <1>1, <1>3, <1>4, <2>1, <3>1 DEF PlaceOK
  <2>2. CASE ~cache[pg].dirty
    <3>1. pc' = "ready" /\ todo' = todo /\ state' = state /\ todo = {}
      BY <1>1, <2>2 DEF Recycle, Base, PlaceOK
    <3> QED
      BY <1>1, <1>2, <3>1 DEF PlaceOK, Base
  <2> QED
    BY <2>1, <2>2
<1> QED
  BY <1>9, <1>10, <1>11 DEF Base

\* A write to the file.
LEMMA StoreTypes ==
  ASSUME PagerTypeOK, NEW pg \in Pages, NEW v, Store(pg, v),
         IF pg = 1 THEN v \in SUBSET world.leaves ELSE v \in Values,
         world' = world
  PROVE  /\ file' \in [Pages -> Content] /\ Proper(file)'
         /\ file'[pg] = v
         /\ \A q \in Pages \ {pg} : file'[q] = file[q] /\ disk'[q] = disk[q]
         /\ disk' \in [Pages -> SUBSET Content] /\ disk'[1] \subseteq SUBSET world'.leaves
         /\ \A q \in Pages : file'[q] \in disk'[q]
<1>1. v \in Content /\ 1 \in Pages /\ world.leaves \in SUBSET Data
  BY WorldTypes DEF Content
<1>2. /\ file' \in [Pages -> Content] /\ file'[pg] = v
      /\ \A q \in Pages \ {pg} : file'[q] = file[q] /\ disk'[q] = disk[q]
  BY <1>1 DEF Store, PagerTypeOK
<1>3. /\ DOMAIN disk' = Pages
      /\ disk'[pg] \subseteq {v} \union disk[pg] /\ v \in disk'[pg]
  BY <1>1 DEF Store, PagerTypeOK
<1>4. disk' \in [Pages -> SUBSET Content]
  BY <1>1, <1>2, <1>3 DEF Store, PagerTypeOK
<1> QED
  BY <1>1, <1>2, <1>3, <1>4 DEF PagerTypeOK, Proper

LEMMA SeenProper ==
  ASSUME PagerTypeOK, NEW pg \in Pages
  PROVE  IF pg = 1 THEN Seen[pg] \in SUBSET world.leaves ELSE Seen[pg] \in Values
BY DEF PagerTypeOK, Proper, Seen

LEMMA WritePageBase ==
  ASSUME Base, NEW pg \in Pages, WritePage(pg)
  PROVE  Base'
<1>1. /\ PagerTypeOK /\ pg \in todo /\ journal # None /\ state = "EXCLUSIVE"
      /\ cache[pg] \in PgHdr /\ cache[pg] # None /\ cache[pg].data = Seen[pg]
      /\ cache[pg].dirty /\ ~NeedSync(pg)
      /\ pc \in {"spill", "commit"}
      /\ Store(pg, cache[pg].data)
  BY DEF Base, PlaceOK, WritePage, PagerTypeOK, Seen
<1>2. /\ UNCHANGED <<journal, stmt, state, always, world, faults, changes>>
      /\ todo' = todo \ {pg}
  BY DEF WritePage, bounds
<1>3. IF pg = 1 THEN Seen[pg] \in SUBSET world.leaves ELSE Seen[pg] \in Values
  BY <1>1, SeenProper
<1>4. /\ file' \in [Pages -> Content] /\ Proper(file)'
      /\ file'[pg] = Seen[pg]
      /\ \A q \in Pages \ {pg} : file'[q] = file[q] /\ disk'[q] = disk[q]
      /\ disk' \in [Pages -> SUBSET Content] /\ disk'[1] \subseteq SUBSET world'.leaves
      /\ \A q \in Pages : file'[q] \in disk'[q]
  BY <1>1, <1>2, <1>3, StoreTypes
<1>5. /\ \A q \in Pages \ {pg} : cache'[q] = cache[q]
      /\ cache' \in [Pages -> PgHdr \union {None}]
      /\ pc = "spill" => cache'[pg] = None /\ pc' = "ready"
      /\ pc = "commit" => /\ cache'[pg] # None /\ cache'[pg].data = cache[pg].data
                          /\ ~cache'[pg].dirty /\ pc' = "commit"
  <2>1. CASE pc = "spill"
    BY <1>1, <2>1 DEF WritePage, PagerTypeOK
  <2>2. CASE pc = "commit"
    <3>1. /\ cache' = [cache EXCEPT ![pg] = [cache[pg] EXCEPT !.dirty = FALSE]]
          /\ pc' = "commit"
      BY <2>2 DEF WritePage
    <3>2. [cache[pg] EXCEPT !.dirty = FALSE] \in PgHdr
      BY <1>1 DEF PgHdr
    <3> QED
      BY <1>1, <2>2, <3>1, <3>2, PagerAssumption DEF PagerTypeOK, PgHdr
  <2> QED
    BY <1>1, <2>1, <2>2
<1>6. Seen' = Seen
  <2>1. \A q \in Pages : Seen'[q] = Seen[q]
    BY <1>1, <1>4, <1>5 DEF Seen
  <2> QED
    BY <2>1 DEF Seen
<1>7. \A q \in Pages : NeedSync(q)' <=> NeedSync(q)
  BY <1>2 DEF NeedSync
<1>8. PagerTypeOK'
  <2>1. \A q \in Pages :
           /\ cache'[q] # None /\ cache'[q].dirty =>
                journal' # None /\ q \in journal'.saved
           /\ NeedSync(q)' => cache'[q] # None
    BY <1>1, <1>2, <1>5, <1>7 DEF PagerTypeOK
  <2>2. /\ Proper(Seen)' /\ Proper(journal.recs)'
        /\ stmt # None => Proper(stmt.recs)'
    BY <1>1, <1>2, <1>6 DEF PagerTypeOK, Proper
  <2> QED
    BY <1>1, <1>2, <1>4, <1>5, <2>1, <2>2 DEF PagerTypeOK
<1>9. CacheOK'
  <2>1. pc = "spill" => pg # 1
    BY <1>1, PagerAssumption DEF Base, PlaceOK
  <2> QED
    BY <1>1, <1>2, <1>5, <2>1, WorldTypes DEF Base, CacheOK
<1>10. PlaceOK'
  <2>1. CASE pc = "spill"
    <3>1. todo' = {} /\ pc' = "ready"
      BY <1>1, <1>2, <1>5, <2>1 DEF Base, PlaceOK
    <3> QED
      BY <1>1, <1>2, <3>1 DEF PlaceOK
  <2>2. CASE pc = "commit"
    BY <1>1, <1>2, <1>5, <1>7, <2>2 DEF Base, PlaceOK, PagerTypeOK
  <2> QED
    BY <1>1, <2>1, <2>2
<1> QED
  BY <1>8, <1>9, <1>10 DEF Base

\* What a commit makes of the journal.
LEMMA CommitJournal ==
  ASSUME Base, Commit
  PROVE  /\ journal # None /\ journal' \in Journals /\ journal' # None
         /\ journal'.saved = journal.saved \union {1}
         /\ DOMAIN journal'.recs = DOMAIN journal.recs \union ({1} \ journal.saved)
         /\ \A pg \in DOMAIN journal.recs : journal'.recs[pg] = journal.recs[pg]
         /\ 1 \notin journal.saved => journal'.recs[1] = Seen[1]
         /\ Proper(journal'.recs)
         /\ journal'.synced = DOMAIN journal'.recs
         /\ DOMAIN journal'.recs \subseteq journal'.saved
<1> DEFINE new == {1} \ journal.saved
           r == With(journal.recs, new)
           j == [journal EXCEPT !.saved = journal.saved \union {1}, !.recs = r]
<1>1. /\ PagerTypeOK /\ journal # None
      /\ journal \in Journals
      /\ journal.recs \in Records /\ Proper(journal.recs)
      /\ DOMAIN journal.recs \subseteq journal.saved
      /\ journal.saved \subseteq Pages /\ journal.synced \subseteq Pages
      /\ 1 \in Pages
  BY WorldTypes DEF Base, PagerTypeOK, Journals, Commit, InTransaction
<1>2. journal' = Synced(j)
  BY DEF Commit
<1>3. /\ r \in Records /\ Proper(r)
      /\ DOMAIN r = DOMAIN journal.recs \union new
      /\ \A pg \in new : r[pg] = Seen[pg]
      /\ \A pg \in DOMAIN journal.recs \ new : r[pg] = journal.recs[pg]
      /\ DOMAIN r \subseteq Pages
  <2>1. new \in SUBSET Pages
    BY <1>1
  <2> HIDE DEF new
  <2> QED
    BY <1>1, <2>1, WithRecords, RecordsType
<1> HIDE DEF r
<1>4. /\ journal'.saved = journal.saved \union {1}
      /\ journal'.synced = DOMAIN r
      /\ journal'.recs = r
      /\ journal' \in Journals
  BY <1>1, <1>2, <1>3 DEF Journals, Synced
<1> QED
  BY <1>1, <1>3, <1>4, PagerAssumption

LEMMA CommitBase ==
  ASSUME Base, Commit
  PROVE  Base'
<1>1. /\ PagerTypeOK /\ 1 \in Pages /\ todo = {} /\ pc = "ready"
      /\ cache[1] \in PgHdr /\ cache[1] # None
      /\ cache \in [Pages -> PgHdr \union {None}]
  BY WorldTypes DEF Base, CacheOK, Commit, InTransaction, PagerTypeOK, PlaceOK
<1>2. /\ UNCHANGED <<file, disk, stmt, always, world, faults, changes>>
      /\ state' = "EXCLUSIVE" /\ pc' = "commit"
      /\ todo' = {pg \in Pages : cache[pg] # None /\ cache[pg].dirty} \union {1}
  BY DEF Commit, bounds
<1>3. /\ cache' \in [Pages -> PgHdr \union {None}]
      /\ cache'[1] # None /\ cache'[1].dirty /\ cache'[1].data = cache[1].data
      /\ cache'[1].alwaysRollback = cache[1].alwaysRollback
      /\ \A q \in Pages \ {1} : cache'[q] = cache[q]
  <2>1. /\ [cache[1] EXCEPT !.dirty = TRUE] \in PgHdr
    BY <1>1 DEF PgHdr
  <2>2. cache' = [cache EXCEPT ![1] = [cache[1] EXCEPT !.dirty = TRUE]]
    BY DEF Commit
  <2> QED
    BY <1>1, <2>1, <2>2, PagerAssumption DEF PgHdr
<1>4. Seen' = Seen
  <2>1. \A q \in Pages : Seen'[q] = Seen[q]
    BY <1>1, <1>2, <1>3 DEF Seen
  <2> QED
    BY <2>1 DEF Seen
<1>5. \A q \in Pages : ~NeedSync(q)'
  BY CommitJournal DEF NeedSync
<1>6. PagerTypeOK'
  <2>1. \A q \in Pages :
           /\ cache'[q] # None /\ cache'[q].dirty =>
                journal' # None /\ q \in journal'.saved
           /\ NeedSync(q)' => cache'[q] # None
    BY <1>1, <1>3, <1>5, CommitJournal DEF PagerTypeOK
  <2>2. /\ Proper(Seen)' /\ Proper(journal.recs)' /\ Proper(file)'
        /\ stmt # None => Proper(stmt.recs)'
    BY <1>1, <1>2, <1>4, CommitJournal DEF PagerTypeOK, Proper
  <2>3. todo' \subseteq Pages
    BY <1>1, <1>2
  <2> QED
    BY <1>1, <1>2, <1>3, <2>1, <2>2, <2>3, CommitJournal DEF PagerTypeOK
<1>7. CacheOK' /\ PlaceOK'
  BY <1>1, <1>2, <1>3, <1>5, CommitJournal DEF Base, CacheOK, PlaceOK
<1> QED
  BY <1>6, <1>7 DEF Base

\* What is played back, and where to.
Image(pg) == IF pc = "stmt" /\ pg \in DOMAIN stmt.recs THEN stmt.recs[pg]
             ELSE journal.recs[pg]
ToFile(pg) == state = "EXCLUSIVE" /\ (cache[pg] = None \/ ~NeedSync(pg))

LEMMA PlaybackEffect ==
  ASSUME Base, NEW pg \in Pages, PlaybackPage(pg)
  PROVE  /\ journal # None /\ pg \in todo /\ todo' = todo \ {pg}
         /\ pc \in {"undo", "stmt"}
         /\ UNCHANGED <<journal, stmt, state, always, pc, world, faults, changes>>
         /\ IF pg = 1 THEN Image(pg) \in SUBSET world.leaves
            ELSE Image(pg) \in Values
         /\ ToFile(pg) => Store(pg, Image(pg))
         /\ ~ToFile(pg) => file' = file /\ disk' = disk
         /\ cache' \in [Pages -> PgHdr \union {None}]
         /\ \A q \in Pages \ {pg} : cache'[q] = cache[q]
         /\ cache[pg] = None => cache'[pg] = None
         /\ cache[pg] # None =>
              /\ cache'[pg] # None /\ cache'[pg].data = Image(pg)
              /\ cache'[pg].dirty = (cache[pg].dirty /\ ~ToFile(pg))
              /\ cache'[pg].alwaysRollback = cache[pg].alwaysRollback
<1>1. /\ PagerTypeOK /\ pg \in todo /\ pc \in {"undo", "stmt"} /\ journal # None
      /\ todo' = todo \ {pg}
      /\ UNCHANGED <<journal, stmt, state, always, pc, world, faults, changes>>
  BY DEF Base, PlaceOK, PlaybackPage, bounds, PagerTypeOK
<1>2. /\ IF ToFile(pg) THEN Store(pg, Image(pg)) ELSE UNCHANGED <<file, disk>>
      /\ cache' = IF cache[pg] = None THEN cache
                  ELSE [cache EXCEPT ![pg].data = Image(pg),
                                     ![pg].dirty = @ /\ ~ToFile(pg)]
  BY DEF PlaybackPage, ToFile, Image
<1>3. IF pg = 1 THEN Image(pg) \in SUBSET world.leaves ELSE Image(pg) \in Values
  <2>1. /\ Proper(journal.recs)
        /\ pc = "stmt" => Proper(stmt.recs) /\ todo \subseteq Undone
        /\ pc = "undo" => todo \subseteq DOMAIN journal.recs
    BY <1>1 DEF Base, PagerTypeOK, PlaceOK
  <2> QED
    BY <1>1, <2>1 DEF Image, Undone, Proper
<1>4. Image(pg) \in Content /\ ToFile(pg) \in BOOLEAN
  BY <1>1, <1>3, WorldTypes DEF Content, ToFile
<1>5. ASSUME cache[pg] # None
      PROVE  /\ cache' = [cache EXCEPT ![pg] =
                   [cache[pg] EXCEPT !.data = Image(pg),
                                     !.dirty = cache[pg].dirty /\ ~ToFile(pg)]]
             /\ [cache[pg] EXCEPT !.data = Image(pg),
                                  !.dirty = cache[pg].dirty /\ ~ToFile(pg)] \in PgHdr
             /\ cache[pg] \in PgHdr
  <2>1. cache[pg] \in PgHdr
    BY <1>1, <1>5 DEF PagerTypeOK
  <2>2. [cache[pg] EXCEPT !.data = Image(pg),
                          !.dirty = cache[pg].dirty /\ ~ToFile(pg)] \in PgHdr
    BY <1>4, <2>1 DEF PgHdr
  <2>3. cache' = [cache EXCEPT ![pg] =
                   [cache[pg] EXCEPT !.data = Image(pg),
                                     !.dirty = cache[pg].dirty /\ ~ToFile(pg)]]
    BY <1>1, <1>2, <1>5, <2>1 DEF PagerTypeOK, PgHdr
  <2> QED
    BY <2>1, <2>2, <2>3
<1>6. cache[pg] = None => cache' = cache
  BY <1>2
<1> HIDE DEF Image, ToFile
<1>7. /\ cache' \in [Pages -> PgHdr \union {None}]
      /\ \A q \in Pages \ {pg} : cache'[q] = cache[q]
      /\ cache[pg] = None => cache'[pg] = None
  BY <1>1, <1>5, <1>6 DEF PagerTypeOK
<1>8. cache[pg] # None =>
              /\ cache'[pg] # None /\ cache'[pg].data = Image(pg)
              /\ cache'[pg].dirty = (cache[pg].dirty /\ ~ToFile(pg))
              /\ cache'[pg].alwaysRollback = cache[pg].alwaysRollback
  <2> SUFFICES ASSUME cache[pg] # None
               PROVE  /\ cache'[pg] # None /\ cache'[pg].data = Image(pg)
                      /\ cache'[pg].dirty = (cache[pg].dirty /\ ~ToFile(pg))
                      /\ cache'[pg].alwaysRollback = cache[pg].alwaysRollback
    OBVIOUS
  <2>1. cache'[pg] = [cache[pg] EXCEPT !.data = Image(pg),
                                  !.dirty = cache[pg].dirty /\ ~ToFile(pg)]
    BY <1>1, <1>5 DEF PagerTypeOK
  <2> QED
    BY <1>5, <2>1, PagerAssumption DEF PgHdr
<1> QED
  BY <1>1, <1>2, <1>3, <1>7, <1>8

LEMMA PlaybackBase ==
  ASSUME Base, NEW pg \in Pages, PlaybackPage(pg)
  PROVE  Base'
<1>1. /\ PagerTypeOK /\ journal # None /\ pg \in todo /\ todo' = todo \ {pg}
      /\ UNCHANGED <<journal, stmt, state, always, pc, world, faults, changes>>
      /\ IF pg = 1 THEN Image(pg) \in SUBSET world.leaves ELSE Image(pg) \in Values
      /\ cache' \in [Pages -> PgHdr \union {None}]
      /\ pc \in {"undo", "stmt"}
  BY PlaybackEffect DEF Base
<1>2. \A q \in Pages : /\ cache'[q] = None <=> cache[q] = None
                       /\ cache'[q] # None /\ cache'[q].dirty => cache[q].dirty
  BY PlaybackEffect
<1>3. /\ file' \in [Pages -> Content] /\ Proper(file)'
      /\ disk' \in [Pages -> SUBSET Content] /\ disk'[1] \subseteq SUBSET world'.leaves
      /\ \A q \in Pages : file'[q] \in disk'[q]
      /\ \A q \in Pages \ {pg} : file'[q] = file[q]
      /\ file'[pg] \in {file[pg], Image(pg)}
  <2>1. CASE ToFile(pg)
    BY <1>1, <2>1, PlaybackEffect, StoreTypes
  <2>2. CASE ~ToFile(pg)
    BY <1>1, <2>2, PlaybackEffect DEF PagerTypeOK, Proper
  <2> QED
    BY <2>1, <2>2
<1>4. Proper(Seen)'
  <2>1. /\ DOMAIN Seen = Pages /\ DOMAIN Seen' = Pages
        /\ \A q \in Pages \ {pg} : Seen'[q] = Seen[q]
        /\ Seen'[pg] \in {file[pg], Image(pg)}
    BY <1>3, PlaybackEffect DEF Seen
  <2> QED
    BY <1>1, <2>1 DEF PagerTypeOK, Proper
<1>5. \A q \in Pages : NeedSync(q)' <=> NeedSync(q)
  BY <1>1 DEF NeedSync
<1>6. PagerTypeOK'
  <2>1. \A q \in Pages :
           /\ cache'[q] # None /\ cache'[q].dirty =>
                journal' # None /\ q \in journal'.saved
           /\ pc' \notin {"down", "undo"} /\ NeedSync(q)' => cache'[q] # None
    BY <1>1, <1>2, <1>5 DEF PagerTypeOK
  <2>2. /\ Proper(journal.recs)'
        /\ stmt # None => Proper(stmt.recs)'
    BY <1>1 DEF PagerTypeOK, Proper
  <2> QED
    BY <1>1, <1>3, <1>4, <2>1, <2>2 DEF PagerTypeOK
<1>7. CacheOK' /\ PlaceOK'
  BY <1>1, <1>2, <1>5, WorldTypes DEF Base, CacheOK, PlaceOK, Undone
<1> QED
  BY <1>6, <1>7 DEF Base

LEMMA RollbackBase ==
  ASSUME Base, Rollback
  PROVE  Base'
<1>1. /\ UNCHANGED <<file, disk, journal, stmt, cache, state, always, world, changes>>
      /\ pc' = "undo" /\ todo' = journal.synced /\ journal # None
      /\ state = "EXCLUSIVE"
      /\ faults' \in 0..world.maxFaults /\ faults' # 0
  BY WorldTypes DEF Rollback, Playback, files, memory, Fault, MayBe, Base,
    InTransaction, PlaceOK
<1>2. todo' \subseteq Pages
  BY <1>1 DEF Base, PagerTypeOK, Journals
<1>3. Seen' = Seen
  BY <1>1 DEF Seen
<1>4. PagerTypeOK'
  BY <1>1, <1>2, <1>3 DEF Base, PagerTypeOK, NeedSync, Proper
<1>5. CacheOK' /\ PlaceOK'
  BY <1>1 DEF Base, CacheOK, PlaceOK
<1> QED
  BY <1>4, <1>5 DEF Base

\* With an empty cache.
LEMMA EmptyBase ==
  ASSUME PagerTypeOK, cache' = Uncached, world' = world, stmt' = None,
         file' \in [Pages -> Content], Proper(file)',
         disk' \in [Pages -> SUBSET Content], disk'[1] \subseteq SUBSET world.leaves,
         \A pg \in Pages : file'[pg] \in disk'[pg],
         journal' \in Journals \union {None},
         journal' # None =>
            /\ Proper(journal.recs)'
            /\ journal'.synced \subseteq DOMAIN journal'.recs
            /\ DOMAIN journal'.recs \subseteq journal'.saved,
         state' \in {"UNLOCK", "SHARED", "EXCLUSIVE"}, always' \in BOOLEAN,
         \/ pc' = "ready" /\ journal' = None /\ todo' = {} /\ state' # "EXCLUSIVE"
         \/ /\ pc' = "down" /\ state' = "UNLOCK" /\ todo' = {} /\ faults' # 0
         \/ /\ pc' = "undo" /\ journal' # None /\ todo' = journal'.synced
            /\ state' = "EXCLUSIVE" /\ faults' # 0,
         faults' \in 0..world.maxFaults, changes' \in 0..world.maxChanges
  PROVE  Base'
<1>1. \A pg \in Pages : cache'[pg] = None
  BY DEF Uncached
<1>2. cache' \in [Pages -> PgHdr \union {None}]
  BY DEF Uncached
<1>3. Proper(Seen)'
  <2>1. \A pg \in Pages : Seen'[pg] = file'[pg]
    BY <1>1 DEF Seen
  <2> QED
    BY <2>1, WorldTypes DEF Proper, Seen
<1>4. todo' \subseteq Pages
  BY DEF Journals
<1>5. PagerTypeOK'
  <2>1. world' \in Worlds
    BY DEF PagerTypeOK
  <2>2. /\ journal' # None =>
            /\ Proper(journal.recs)'
            /\ journal'.synced \subseteq DOMAIN journal'.recs
            /\ DOMAIN journal'.recs \subseteq journal'.saved
        /\ \A pg \in Pages :
             /\ cache'[pg] # None /\ cache'[pg].dirty =>
                  journal' # None /\ pg \in journal'.saved
             /\ pc' \notin {"down", "undo"} /\ NeedSync(pg)' => cache'[pg] # None
    BY <1>1 DEF NeedSync
  <2> QED
    BY <1>2, <1>3, <1>4, <2>1, <2>2 DEF PagerTypeOK
<1>6. CacheOK' /\ PlaceOK'
  BY <1>1 DEF CacheOK, PlaceOK
<1> QED
  BY <1>5, <1>6 DEF Base

LEMMA ResetBase ==
  ASSUME Base, Reset
  PROVE  Base'
<1>1. /\ UNCHANGED <<file, disk, journal, stmt, state, always, pc, todo, world,
                     faults, changes>>
      /\ cache' = Uncached /\ pc = "ready" /\ journal = None /\ stmt = None
      /\ todo = {} /\ state \in {"SHARED", "UNLOCK"} /\ PagerTypeOK
  BY DEF Reset, files, bounds, Base, PagerTypeOK, PlaceOK
<1>2. /\ Proper(file)' /\ file' \in [Pages -> Content]
      /\ disk' \in [Pages -> SUBSET Content] /\ disk'[1] \subseteq SUBSET world.leaves
      /\ \A pg \in Pages : file'[pg] \in disk'[pg]
      /\ always' \in BOOLEAN
      /\ faults' \in 0..world.maxFaults /\ changes' \in 0..world.maxChanges
  BY <1>1 DEF PagerTypeOK, Proper
<1> QED
  BY <1>1, <1>2, EmptyBase

LEMMA KillBase ==
  ASSUME Base, Kill
  PROVE  Base'
<1>1. /\ UNCHANGED <<file, disk, journal, world, changes>>
      /\ cache' = Uncached /\ stmt' = None /\ state' = "UNLOCK" /\ always' = FALSE
      /\ pc' = "down" /\ todo' = {} /\ PagerTypeOK
      /\ faults' \in 0..world.maxFaults /\ faults' # 0
  BY WorldTypes DEF Kill, Stop, files, Fault, MayBe, Base
<1>2. /\ Proper(file)' /\ file' \in [Pages -> Content]
      /\ disk' \in [Pages -> SUBSET Content] /\ disk'[1] \subseteq SUBSET world.leaves
      /\ \A pg \in Pages : file'[pg] \in disk'[pg]
      /\ changes' \in 0..world.maxChanges
      /\ journal' \in Journals \union {None}
      /\ journal' # None =>
            /\ Proper(journal.recs)'
            /\ journal'.synced \subseteq DOMAIN journal'.recs
            /\ DOMAIN journal'.recs \subseteq journal'.saved
  BY <1>1 DEF PagerTypeOK, Proper
<1> QED
  BY <1>1, <1>2, EmptyBase

LEMMA OpenBase ==
  ASSUME Base, Open
  PROVE  Base'
<1>1. /\ UNCHANGED <<file, disk, journal, stmt, cache, always, world, faults, changes>>
      /\ cache' = Uncached /\ PagerTypeOK /\ faults # 0
      /\ IF journal = None
           THEN state' = "SHARED" /\ pc' = "ready" /\ todo' = todo
           ELSE state' = "EXCLUSIVE" /\ pc' = "undo" /\ todo' = journal.synced
      /\ pc = "down"
  BY DEF Open, files, Base, PagerTypeOK, PlaceOK, bounds, Playback
<1>2. /\ Proper(file)' /\ file' \in [Pages -> Content]
      /\ disk' \in [Pages -> SUBSET Content] /\ disk'[1] \subseteq SUBSET world.leaves
      /\ \A pg \in Pages : file'[pg] \in disk'[pg]
      /\ faults' \in 0..world.maxFaults /\ changes' \in 0..world.maxChanges
      /\ journal' \in Journals \union {None}
      /\ journal' # None =>
            /\ Proper(journal.recs)'
            /\ journal'.synced \subseteq DOMAIN journal'.recs
            /\ DOMAIN journal'.recs \subseteq journal'.saved
      /\ always' \in BOOLEAN
  BY <1>1 DEF PagerTypeOK, Proper
<1>3. stmt' = None /\ todo = {}
  BY <1>1 DEF Base, PlaceOK
<1> QED
  BY <1>1, <1>2, <1>3, EmptyBase

\* What is left of the journal after a power failure.
LEMMA PowerJournal ==
  ASSUME PagerTypeOK, PowerFailure
  PROVE  IF journal = None \/ journal.synced = {} THEN journal' = None
         ELSE /\ journal' \in Journals /\ journal' # None
              /\ journal'.saved = journal.saved
              /\ journal'.synced = journal.synced
              /\ DOMAIN journal'.recs = journal.synced
              /\ \A pg \in journal.synced : journal'.recs[pg] = journal.recs[pg]
<1>1. CASE journal = None \/ journal.synced = {}
  BY <1>1 DEF PowerFailure
<1>2. CASE ~(journal = None \/ journal.synced = {})
  <2> DEFINE r == Restrict(journal.recs, journal.synced)
  <2>1. /\ journal \in Journals /\ journal.recs \in Records
        /\ journal.synced \subseteq DOMAIN journal.recs
    BY <1>2 DEF PagerTypeOK, Journals
  <2>2. /\ DOMAIN r = journal.synced
        /\ \A pg \in journal.synced : r[pg] = journal.recs[pg]
        /\ r \in Records
    <3>1. r \in [journal.synced -> Content]
      BY <2>1, RecordsType DEF Restrict
    <3>2. journal.synced \in SUBSET Pages
      BY <2>1, RecordsType
    <3> QED
      BY <3>1, <3>2, RecordsIntro DEF Restrict
  <2>3. journal' = [journal EXCEPT !.recs = r]
    BY <1>2 DEF PowerFailure
  <2> HIDE DEF r
  <2> QED
    BY <1>2, <2>1, <2>2, <2>3, PagerAssumption DEF Journals
<1> QED
  BY <1>1, <1>2

LEMMA PowerFile ==
  ASSUME PagerTypeOK, PowerFailure
  PROVE  /\ Proper(file)' /\ file' \in [Pages -> Content]
         /\ disk' = [pg \in Pages |-> {file'[pg]}]
         /\ \A pg \in Pages : file'[pg] \in disk[pg]
<1>1. PICK header \in disk[1], f \in [Data -> Values] :
        /\ \A pg \in Data : f[pg] \in disk[pg]
        /\ file' = [pg \in Pages |-> IF pg = 1 THEN header ELSE f[pg]]
  BY DEF PowerFailure
<1>2. world' = world
  BY DEF PowerFailure, Fault
<1>3. header \in SUBSET world.leaves /\ world.leaves \in SUBSET Data
  BY WorldTypes DEF PagerTypeOK
<1>4. \A pg \in Pages : file'[pg] \in disk[pg] /\ file'[pg] \in Content
  BY <1>1, <1>3 DEF Pages, Content
<1>5. Proper(file)'
  BY <1>1, <1>2, <1>3 DEF Proper, Pages
<1> QED
  BY <1>1, <1>4, <1>5 DEF PowerFailure

LEMMA PowerBase ==
  ASSUME Base, PowerFailure
  PROVE  Base'
<1>1. /\ world' = world /\ changes' = changes
      /\ cache' = Uncached /\ stmt' = None /\ state' = "UNLOCK" /\ always' = FALSE
      /\ pc' = "down" /\ todo' = {} /\ PagerTypeOK
      /\ faults' \in 0..world.maxFaults /\ faults' # 0
  BY WorldTypes DEF PowerFailure, Stop, Fault, MayBe, Base
<1>2. /\ Proper(file)' /\ file' \in [Pages -> Content]
      /\ disk' = [pg \in Pages |-> {file'[pg]}]
  BY <1>1, PowerFile
<1>3. /\ disk' \in [Pages -> SUBSET Content] /\ disk'[1] \subseteq SUBSET world.leaves
      /\ \A pg \in Pages : file'[pg] \in disk'[pg]
  BY <1>1, <1>2, WorldTypes DEF Proper
<1>4. /\ journal' \in Journals \union {None}
      /\ journal' # None =>
            /\ Proper(journal.recs)'
            /\ journal'.synced \subseteq DOMAIN journal'.recs
            /\ DOMAIN journal'.recs \subseteq journal'.saved
  BY <1>1, PowerJournal DEF PagerTypeOK, Proper
<1>5. changes' \in 0..world.maxChanges
  BY <1>1 DEF PagerTypeOK
<1> QED
  BY <1>1, <1>2, <1>3, <1>4, <1>5, EmptyBase

LEMMA NextBase ==
  ASSUME Base, Next
  PROVE  Base'
<1> USE DEF Next
<1>1. CASE \E pg \in Pages : Get(pg) \/ WritePage(pg) \/ PlaybackPage(pg)
  BY <1>1, GetBase, WritePageBase, PlaybackBase
<1>2. CASE \E pg \in Data, v \in Values : Update(pg, v)
  BY <1>2, UpdateBase
<1>3. CASE \E pg \in world.leaves : Free(pg) \/ \E v \in Values : Allocate(pg, v)
  BY <1>3, FreeBase, AllocateBase
<1>4. CASE \E pg \in world.spilled : Recycle(pg)
  BY <1>4, RecycleBase
<1>5. CASE Begin \/ Commit \/ SyncFile \/ DropJournal \/ EndEmpty \/ Reset
           \/ Reload \/ Rollback
  BY <1>5, BeginBase, CommitBase, SyncFileBase, EndBase, ResetBase, RollbackBase
<1>6. CASE BeginStmt \/ CommitStmt \/ RollbackStmt \/ StmtRolledBack
  BY <1>6, StmtBase
<1>7. CASE Kill \/ PowerFailure \/ Open
  BY <1>7, KillBase, PowerBase, OpenBase
<1> QED
  BY <1>1, <1>2, <1>3, <1>4, <1>5, <1>6, <1>7

LEMMA StutterBase == Base /\ UNCHANGED vars => Base'
<1> SUFFICES ASSUME Base, UNCHANGED vars PROVE Base'
  OBVIOUS
<1>1. /\ UNCHANGED <<world, file, disk, journal, stmt, cache, state, always, pc,
                     todo, faults, changes>>
  BY DEF vars, files, memory, bounds
<1>2. Seen' = Seen /\ \A pg : NeedSync(pg)' <=> NeedSync(pg)
  BY <1>1 DEF Seen, NeedSync
<1>3. PagerTypeOK'
  BY <1>1, <1>2 DEF Base, PagerTypeOK, Proper
<1>4. CacheOK' /\ PlaceOK'
  BY <1>1, <1>2 DEF Base, CacheOK, PlaceOK, Undone
<1> QED
  BY <1>3, <1>4 DEF Base

(* The type invariant: every variable keeps its type, what is dirty is     *)
(* saved, and what waits for a sync of the journal stays in the cache.     *)
THEOREM PagerTypes == Spec => []PagerTypeOK
<1>1. Base /\ [Next]_vars => Base'
  BY NextBase, StutterBase
<1>2. Base => PagerTypeOK
  BY DEF Base
<1> QED
  BY InitBase, <1>1, <1>2, PTL DEF Spec

-----------------------------------------------------------------------------
(* What is in the journal, the file and the cache.                         *)

\* Two files show the same when they differ in free pages only.
LEMMA ShownSame ==
  ASSUME NEW f, NEW g, f[1] = g[1],
         \A pg \in Data : f[pg] = g[pg] \/ pg \in f[1]
  PROVE  Shown(f) = Shown(g)
BY DEF Shown

\* The first page is in no set of free pages.
LEMMA FreeTypes ==
  ASSUME Base
  PROVE  /\ FreeBefore \subseteq world.leaves
         /\ FreeNow \subseteq world.leaves
         /\ stmt # None => FreeAtBegin \subseteq world.leaves
         /\ 1 \notin FreeBefore /\ 1 \notin FreeNow
         /\ stmt # None => 1 \notin FreeAtBegin
         /\ 1 \in Pages /\ world.leaves \in SUBSET Data
<1>1. 1 \in Pages /\ world.leaves \in SUBSET Data /\ 1 \notin Data
  BY WorldTypes, PagerAssumption DEF Base
<1>2. FreeNow \subseteq world.leaves
  BY <1>1 DEF FreeNow, Base, PagerTypeOK, Proper, Seen
<1>3. FreeBefore \subseteq world.leaves
  BY <1>1 DEF FreeBefore, Recovered, Base, PagerTypeOK, Proper
<1>4. stmt # None => FreeAtBegin \subseteq world.leaves
  BY <1>1, <1>2 DEF FreeAtBegin, Restored, Base, PagerTypeOK, Proper, FreeNow
<1> QED
  BY <1>1, <1>2, <1>3, <1>4

\* A page that is not dirty is what the file holds, or free.
LEMMA CleanPage ==
  ASSUME Base, CleanOK, pc \notin {"down", "undo"}, NEW pg \in Pages,
         cache[pg] = None \/ ~cache[pg].dirty, Seen[pg] # file[pg]
  PROVE  /\ pg \in FreeNow
         /\ InStmt => pg \in FreeAtBegin
         /\ pg \in FreeBefore \/ (journal # None /\ pg \in journal.saved)
BY DEF CleanOK, Seen

\* The records that a change adds.
LEMMA SaveView ==
  ASSUME Base, Agrees, InTransaction,
         NEW S \in SUBSET Pages, NEW skip \in SUBSET S, Save(S, skip),
         \A pg \in skip : pg \in FreeNow /\ ~Flagged(pg),
         \A pg \in Pages \ S : Seen'[pg] = Seen[pg],
         file' = file
  PROVE  /\ Recovered' = Recovered
         /\ stmt # None =>
              /\ Restored'[1] = Restored[1]
              /\ \A pg \in Pages : Restored'[pg] = Restored[pg] \/ pg \in FreeAtBegin
<1>1. /\ PagerTypeOK /\ journal # None /\ pc = "ready"
      /\ 1 \in Pages /\ 1 \notin FreeNow
      /\ stmt # None => 1 \notin FreeAtBegin
  BY FreeTypes DEF Base, InTransaction
<1>2. Recovered' = Recovered
  <2>1. /\ journal' # None /\ journal'.synced = journal.synced
        /\ \A pg \in journal.synced : journal'.recs[pg] = journal.recs[pg]
    BY <1>1, SaveJournal DEF PagerTypeOK
  <2>2. \A pg \in Pages : Recovered'[pg] = Recovered[pg]
    BY <1>1, <2>1 DEF Recovered
  <2> QED
    BY <2>2 DEF Recovered
<1>3. ASSUME stmt # None
      PROVE  /\ Restored'[1] = Restored[1]
             /\ \A pg \in Pages : Restored'[pg] = Restored[pg] \/ pg \in FreeAtBegin
  <2>1. /\ stmt.before \subseteq DOMAIN journal.recs
        /\ Undone \subseteq stmt.saved
        /\ stmt.saved \subseteq journal.saved
        /\ stmt.saved \subseteq Undone \union FreeAtBegin
        /\ \A pg \in FreeNow \ FreeAtBegin : Flagged(pg)
        /\ DOMAIN journal.recs \subseteq journal.saved
    BY <1>1, <1>3 DEF Agrees, StmtOK, FlagsOK, InStmt, Goes, PagerTypeOK
  <2>2. skip \subseteq FreeAtBegin /\ 1 \notin skip
    BY <1>1, <1>3, <2>1
  <2> DEFINE newJ == S \ (journal.saved \union skip)
             newS == (S \intersect journal.saved) \ (stmt.saved \union skip)
  <2>3. /\ DOMAIN journal'.recs = DOMAIN journal.recs \union newJ
        /\ \A pg \in DOMAIN journal.recs : journal'.recs[pg] = journal.recs[pg]
        /\ \A pg \in newJ : journal'.recs[pg] = Seen[pg]
        /\ stmt'.before = stmt.before
        /\ DOMAIN stmt'.recs = DOMAIN stmt.recs \union newS
        /\ \A pg \in DOMAIN stmt.recs : pg \notin newS =>
             stmt'.recs[pg] = stmt.recs[pg]
        /\ \A pg \in newS : stmt'.recs[pg] = Seen[pg]
    <3>1. /\ DOMAIN journal'.recs = DOMAIN journal.recs \union newJ
          /\ \A pg \in DOMAIN journal.recs : journal'.recs[pg] = journal.recs[pg]
          /\ \A pg \in newJ : journal'.recs[pg] = Seen[pg]
      BY <1>1, SaveJournal
    <3>2. /\ stmt'.before = stmt.before
          /\ DOMAIN stmt'.recs = DOMAIN stmt.recs \union newS
          /\ \A pg \in DOMAIN stmt.recs : pg \notin newS =>
               stmt'.recs[pg] = stmt.recs[pg]
          /\ \A pg \in newS : stmt'.recs[pg] = Seen[pg]
      BY <1>1, <1>3, SaveStmt
    <3> QED
      BY <3>1, <3>2
  <2>4. \A pg \in newJ \union newS : pg \notin Undone
    BY <2>1 DEF Undone
  <2>5. \A pg \in newJ \union newS : Restored[pg] = Seen[pg]
    BY <2>4 DEF Restored, Undone
  <2>6. \A pg \in newJ \union newS : Restored'[pg] = Seen[pg]
    BY <2>1, <2>3, <2>4 DEF Restored, Undone
  <2>7. \A pg \in Undone : Restored'[pg] = Restored[pg]
    <3> SUFFICES ASSUME NEW pg \in Undone PROVE Restored'[pg] = Restored[pg]
      OBVIOUS
    <3>1. pg \in Pages /\ pg \notin newJ \union newS
      BY <1>1, <1>3, <2>1, <2>4 DEF PagerTypeOK, Journals
    <3>2. CASE pg \in DOMAIN stmt.recs
      BY <2>3, <3>1, <3>2 DEF Restored
    <3>3. CASE pg \notin DOMAIN stmt.recs
      BY <2>3, <3>1, <3>3 DEF Restored, Undone
    <3> QED
      BY <3>2, <3>3
  <2>8. \A pg \in Pages \ (S \union Undone) : Restored'[pg] = Restored[pg]
    BY <2>1, <2>3 DEF Restored, Undone
  <2>9. \A pg \in S \ (newJ \union newS) : pg \in Undone \union FreeAtBegin
    BY <2>1, <2>2
  <2> QED
    BY <1>1, <1>3, <2>5, <2>6, <2>7, <2>8, <2>9
<1> QED
  BY <1>2, <1>3

\* A change of the pages S, of which those of skip are not recorded.
LEMMA SaveAgrees ==
  ASSUME Base, Agrees, InTransaction,
         NEW S \in SUBSET Pages, NEW skip \in SUBSET S, Save(S, skip),
         \A pg \in skip : pg \in FreeNow /\ ~Flagged(pg),
         \A pg \in Pages \ S : Seen'[pg] = Seen[pg],
         UNCHANGED <<file, disk, state, always, pc, todo>>, Change,
         \A pg \in S : cache'[pg] # None /\ cache'[pg].dirty,
         \A pg \in Pages : Flagged(pg) => Flagged(pg)',
         \A pg \in Pages \ S :
           \/ cache'[pg] = None
           \/ cache'[pg].dirty
           \/ (cache[pg] = None \/ ~cache[pg].dirty)
           \/ stmt = None /\ pg \in FreeNow',
         \A pg \in Pages \ S :
           cache[pg] # None /\ cache[pg].dirty =>
             cache'[pg] # None /\ (cache'[pg].dirty \/ stmt = None),
         \A pg \in FreeNow' \ FreeNow : Flagged(pg)',
         FreeNow \subseteq FreeNow' \union S
  PROVE  Agrees'
<1>1. /\ PagerTypeOK /\ journal # None /\ pc = "ready" /\ pc' = "ready" /\ todo' = todo
      /\ file' = file /\ state' = state /\ disk' = disk
      /\ world' = world /\ faults' = faults
      /\ 1 \in Pages /\ 1 \notin FreeNow /\ 1 \notin FreeBefore
      /\ world.leaves \in SUBSET Data /\ Data \subseteq Pages
  BY FreeTypes DEF Base, InTransaction, Change, Pages
<1>2. /\ Recovered' = Recovered /\ FreeBefore' = FreeBefore
      /\ stmt # None => FreeAtBegin' = FreeAtBegin
  BY SaveView DEF FreeBefore, FreeAtBegin
<1>3. /\ journal' # None
      /\ journal'.saved = journal.saved \union S
      /\ journal'.synced = journal.synced
      /\ DOMAIN journal'.recs =
           DOMAIN journal.recs \union (S \ (journal.saved \union skip))
      /\ \A pg \in DOMAIN journal.recs : journal'.recs[pg] = journal.recs[pg]
      /\ \A pg \in S \ (journal.saved \union skip) :
           journal'.recs[pg] = Seen[pg]
  BY <1>1, SaveJournal
<1>4. /\ DOMAIN journal.recs \subseteq journal.saved
      /\ journal.synced \subseteq DOMAIN journal.recs
      /\ journal.saved \subseteq Pages
      /\ \A pg \in Pages : cache[pg] # None /\ cache[pg].dirty => pg \in journal.saved
  BY <1>1 DEF PagerTypeOK, Journals
<1>5. \A pg \in Pages : Seen[pg] = file[pg] \/ pg \in FreeBefore \/ pg \in journal.saved
  BY <1>1, <1>4, CleanPage DEF Agrees
<1>6. /\ FreeNow \subseteq Data /\ FreeBefore \subseteq Data
      /\ stmt # None => FreeAtBegin \subseteq Data
  BY FreeTypes
<1>7. skip \subseteq FreeBefore
  BY <1>1, <1>6 DEF Agrees, FlagsOK, Goes
<1>8. RecordsOK'
  <2>1. \A pg \in DOMAIN journal'.recs :
         \/ journal'.recs[pg] = file'[pg]
         \/ pg \in FreeBefore'
         \/ pg \in journal'.synced /\ state' # "RESERVED"
    <3>1. \A pg \in DOMAIN journal.recs :
         \/ journal.recs[pg] = file[pg]
         \/ pg \in FreeBefore
         \/ pg \in journal.synced /\ state # "RESERVED"
      BY <1>1 DEF Agrees, RecordsOK
    <3>2. \A pg \in S \ (journal.saved \union skip) :
            Seen[pg] = file[pg] \/ pg \in FreeBefore
      BY <1>5
    <3> QED
      BY <1>1, <1>2, <1>3, <3>1, <3>2
  <2>2. journal'.saved \subseteq DOMAIN journal'.recs \union FreeBefore'
    BY <1>1, <1>2, <1>3, <1>7 DEF Agrees, RecordsOK
  <2> QED
    BY <1>1, <2>1, <2>2 DEF RecordsOK
<1>9. FlagsOK'
  <2>1. \A pg \in FreeNow' : pg \in FreeBefore' \/ Flagged(pg)'
    BY <1>1, <1>2, <1>6 DEF Agrees, FlagsOK, Goes
  <2>2. ASSUME stmt' # None
        PROVE  /\ \A pg \in FreeAtBegin' \ FreeBefore' : Flagged(pg)'
               /\ \A pg \in FreeNow' \ FreeAtBegin' : Flagged(pg)'
    <3>1. stmt # None
      BY <2>2 DEF Save
    <3> QED
      BY <1>1, <1>2, <1>6, <3>1 DEF Agrees, FlagsOK, Goes
  <2> QED
    BY <2>1, <2>2 DEF FlagsOK
<1>10. StmtOK'
  <2> SUFFICES ASSUME stmt' # None PROVE StmtOK'
    BY DEF StmtOK, InStmt
  <2>1. stmt # None
    BY DEF Save
  <2> DEFINE newJ == S \ (journal.saved \union skip)
             newS == (S \intersect journal.saved) \ (stmt.saved \union skip)
  <2>2. /\ stmt'.saved = stmt.saved \union S
        /\ stmt'.before = stmt.before
        /\ DOMAIN stmt'.recs = DOMAIN stmt.recs \union newS
    BY <1>1, <2>1, SaveStmt
  <2>3. /\ stmt.before \subseteq DOMAIN journal.recs
        /\ Undone \subseteq stmt.saved
        /\ stmt.saved \subseteq journal.saved
        /\ stmt.saved \subseteq Undone \union FreeAtBegin
        /\ \A pg \in Undone :
             \/ cache[pg] # None /\ cache[pg].dirty
             \/ state = "EXCLUSIVE" /\ ~NeedSync(pg)
        /\ \A pg \in FreeNow \ FreeAtBegin : Flagged(pg)
    BY <1>1, <2>1 DEF Agrees, StmtOK, FlagsOK, InStmt, Goes
  <2>4. Undone' = Undone \union newJ \union newS
    BY <1>3, <1>4, <2>2, <2>3 DEF Undone
  <2>5. skip \subseteq FreeAtBegin
    BY <2>3
  <2>6. stmt'.saved \subseteq Undone' \union FreeAtBegin'
    BY <1>2, <2>1, <2>2, <2>3, <2>4, <2>5
  <2>7. Undone' \subseteq stmt'.saved /\ stmt'.saved \subseteq journal'.saved
    BY <1>3, <2>2, <2>3, <2>4
  <2>8. ASSUME NEW pg \in Undone'
        PROVE  \/ cache'[pg] # None /\ cache'[pg].dirty
               \/ state' = "EXCLUSIVE" /\ ~NeedSync(pg)'
    <3>1. CASE pg \in S
      BY <3>1
    <3>2. CASE pg \notin S
      <4>1. pg \in Undone /\ pg \in Pages
        BY <1>4, <2>3, <2>4, <3>2
      <4>2. NeedSync(pg)' => NeedSync(pg)
        BY <1>1, <1>3, <3>2 DEF NeedSync
      <4> QED
        BY <1>1, <2>1, <2>3, <3>2, <4>1, <4>2
    <3> QED
      BY <3>1, <3>2
  <2>9. stmt'.before \subseteq DOMAIN journal'.recs
    BY <1>3, <2>2, <2>3
  <2> QED
    BY <1>1, <2>6, <2>7, <2>8, <2>9 DEF StmtOK
<1>11. CleanOK'
  <2> SUFFICES ASSUME NEW pg \in Pages, cache'[pg] # None, ~cache'[pg].dirty,
                      cache'[pg].data # file'[pg]
               PROVE  /\ pg \in FreeNow'
                      /\ InStmt' => pg \in FreeAtBegin'
                      /\ pg \in FreeBefore' \/ (journal' # None /\ pg \in journal'.saved)
    BY DEF CleanOK
  <2>1. pg \notin S /\ Seen[pg] # file[pg]
    BY <1>1 DEF Seen
  <2>2. stmt' # None <=> stmt # None
    BY <1>1, SaveStmt DEF Save
  <2>3. CASE cache[pg] = None \/ ~cache[pg].dirty
    <3>1. /\ pg \in FreeNow
          /\ InStmt => pg \in FreeAtBegin
          /\ pg \in FreeBefore \/ pg \in journal.saved
      BY <1>1, <2>1, <2>3, CleanPage DEF Agrees
    <3> QED
      BY <1>1, <1>2, <1>3, <2>1, <2>2, <3>1 DEF InStmt, Goes
  <2>4. CASE cache[pg] # None /\ cache[pg].dirty
    <3>1. stmt = None /\ pg \in FreeNow' /\ pg \in journal.saved
      BY <1>4, <2>1, <2>4
    <3> QED
      BY <1>3, <2>2, <3>1 DEF InStmt
  <2> QED
    BY <2>3, <2>4
<1>12. KeptOK' /\ DiskOK'
  BY <1>1, <1>2, <1>3 DEF Agrees, KeptOK, DiskOK, Goes, MayBe
<1> QED
  BY <1>8, <1>9, <1>10, <1>11, <1>12 DEF Agrees

\* Neither what a recovery would find changes nor what the statement will
\* find when it is rolled back.
LEMMA SaveShown ==
  ASSUME Base, Agrees, InTransaction,
         NEW S \in SUBSET Pages, NEW skip \in SUBSET S, Save(S, skip),
         \A pg \in skip : pg \in FreeNow /\ ~Flagged(pg),
         \A pg \in Pages \ S : Seen'[pg] = Seen[pg],
         file' = file
  PROVE  /\ Recoverable' = Recoverable
         /\ stmt = None => stmt' = None
         /\ stmt # None => stmt' # None /\ AtBegin' = AtBegin
<1>1. Recoverable' = Recoverable
  BY SaveView DEF Recoverable
<1>2. stmt = None => stmt' = None
  BY DEF Save
<1>3. ASSUME stmt # None PROVE stmt' # None /\ AtBegin' = AtBegin
  <2>1. stmt' # None
    BY <1>3, SaveStmt DEF Base, InTransaction
  <2>2. Shown(Restored') = Shown(Restored)
    <3>1. /\ Restored'[1] = Restored[1]
          /\ \A pg \in Pages : Restored'[pg] = Restored[pg] \/ pg \in Restored[1]
      BY <1>3, SaveView DEF FreeAtBegin
    <3> HIDE DEF Restored
    <3> QED
      BY <3>1, ShownSame DEF Pages
  <2> QED
    BY <2>1, <2>2 DEF AtBegin
<1> QED
  BY <1>1, <1>2, <1>3

LEMMA UpdateAgrees ==
  ASSUME Base, Agrees, NEW pg \in Data, NEW v \in Values, Update(pg, v)
  PROVE  /\ Agrees'
         /\ Recoverable' = Recoverable
         /\ stmt = None => stmt' = None
         /\ stmt # None => stmt' # None /\ AtBegin' = AtBegin
         /\ Shown(Seen)' = [Shown(Seen) EXCEPT ![pg] = v]
<1>1. /\ PagerTypeOK /\ pg \in Pages /\ pg # 1 /\ v \in Content /\ 1 \in Pages
  BY PagerAssumption DEF Base, Pages, Content
<1>2. /\ Changed(pg, v) # None /\ Changed(pg, v).data = v
      /\ Changed(pg, v).dirty
      /\ Changed(pg, v).alwaysRollback = Got(pg).alwaysRollback
  BY <1>1, ChangedPage
<1>3. /\ cache'[pg] = Changed(pg, v)
      /\ \A q \in Pages \ {pg} : cache'[q] = cache[q]
  BY <1>1, <1>2 DEF Update, PagerTypeOK
<1>4. /\ Seen'[pg] = v
      /\ \A q \in Pages \ {pg} : Seen'[q] = Seen[q]
  BY <1>1, <1>2, <1>3 DEF Seen, Update
<1>5. FreeNow' = FreeNow /\ pg \notin FreeNow
  <2>1. cache[1] # None
    BY DEF Update, InTransaction, Base, CacheOK
  <2> QED
    BY <1>1, <1>4, <2>1 DEF FreeNow, Seen, Update
<1>6. \A q \in Pages : Flagged(q) => Flagged(q)'
  BY <1>1, <1>2, <1>3, GotIsSeen DEF Flagged, Update
<1>7. /\ InTransaction /\ Save({pg}, {}) /\ Change
      /\ UNCHANGED <<file, disk, state, always, pc, todo>>
      /\ {pg} \in SUBSET Pages /\ {} \in SUBSET {pg}
  BY <1>1 DEF Update
<1>8. Agrees'
  BY <1>2, <1>3, <1>4, <1>5, <1>6, <1>7, SaveAgrees
<1>9. /\ Recoverable' = Recoverable
      /\ stmt = None => stmt' = None
      /\ stmt # None => stmt' # None /\ AtBegin' = AtBegin
  BY <1>4, <1>7, SaveShown
<1>10. Shown(Seen)' = [Shown(Seen) EXCEPT ![pg] = v]
  BY <1>1, <1>4, <1>5 DEF Shown, FreeNow, Pages
<1> QED
  BY <1>8, <1>9, <1>10

LEMMA FreeAgrees ==
  ASSUME Base, Agrees, NEW pg \in world.leaves, Free(pg)
  PROVE  /\ Agrees'
         /\ Recoverable' = Recoverable
         /\ stmt = None => stmt' = None
         /\ stmt # None => stmt' # None /\ AtBegin' = AtBegin
         /\ Shown(Seen)' = [Shown(Seen) EXCEPT ![pg] = None]
<1>1. /\ PagerTypeOK /\ pg \in Pages /\ pg # 1 /\ 1 \in Pages /\ pg \in Data
      /\ world.leaves \in SUBSET Data
      /\ cache[1] \in PgHdr /\ cache[1] # None
      /\ cache[1].data = Seen[1] /\ Seen[1] \subseteq world.leaves
  <2>1. PagerTypeOK /\ world.leaves \in SUBSET Data /\ 1 \in Pages
    BY WorldTypes DEF Base
  <2>2. cache[1] # None
    BY DEF Free, InTransaction, Base, CacheOK
  <2> QED
    BY <2>1, <2>2, PagerAssumption DEF Pages, PagerTypeOK, Seen, Proper
<1>2. DEFINE h == Changed(1, cache[1].data \union {pg})
             f == [Got(pg) EXCEPT !.alwaysRollback = TRUE,
                                  !.dirty = Got(pg).dirty /\ stmt # None]
<1>3. /\ h \in PgHdr /\ h # None /\ h.data = Seen[1] \union {pg} /\ h.dirty
      /\ h.alwaysRollback = Got(1).alwaysRollback
      /\ f \in PgHdr /\ f # None /\ f.data = Seen[pg] /\ f.alwaysRollback
      /\ f.dirty = (Got(pg).dirty /\ stmt # None)
  <2>1. /\ h \in PgHdr /\ h # None /\ h.data = Seen[1] \union {pg} /\ h.dirty
        /\ h.alwaysRollback = Got(1).alwaysRollback
    BY <1>1, ChangedPage DEF Content
  <2>2. Got(pg) \in PgHdr /\ Got(pg).data = Seen[pg]
    BY <1>1, GotIsSeen
  <2> QED
    BY <2>1, <2>2, PagerAssumption DEF PgHdr
<1>4. /\ cache' = [cache EXCEPT ![1] = h, ![pg] = f]
      /\ cache'[pg] = f /\ cache'[1] = h
      /\ \A q \in Pages \ {1, pg} : cache'[q] = cache[q]
  BY <1>1, <1>3 DEF Free, PagerTypeOK
<1> HIDE DEF h, f
<1>5. /\ Seen'[1] = Seen[1] \union {pg}
      /\ \A q \in Pages \ {1} : Seen'[q] = Seen[q]
  BY <1>1, <1>3, <1>4 DEF Seen, Free
<1>6. FreeNow' = FreeNow \union {pg}
  BY <1>5 DEF FreeNow
<1>7. \A q \in Pages : Flagged(q) => Flagged(q)'
  BY <1>1, <1>3, <1>4, GotIsSeen DEF Flagged, Free
<1>8. Flagged(pg)'
  BY <1>3, <1>4 DEF Flagged
<1>9. /\ InTransaction /\ Save({1}, {}) /\ Change
      /\ UNCHANGED <<file, disk, state, always, pc, todo>>
      /\ {1} \in SUBSET Pages /\ {} \in SUBSET {1}
  BY <1>1 DEF Free
<1>10. \A q \in Pages \ {1} :
         /\ \/ cache'[q] = None
            \/ cache'[q].dirty
            \/ (cache[q] = None \/ ~cache[q].dirty)
            \/ stmt = None /\ q \in FreeNow'
         /\ cache[q] # None /\ cache[q].dirty =>
              cache'[q] # None /\ (cache'[q].dirty \/ stmt = None)
  <2>1. CASE cache[pg] = None
    BY <1>3, <1>4, <2>1
  <2>2. CASE cache[pg] # None
    <3>1. Got(pg) = cache[pg]
      BY <2>2 DEF Got
    <3> QED
      BY <1>3, <1>4, <1>6, <3>1
  <2> QED
    BY <2>1, <2>2
<1>11. Agrees'
  <2>1. \A q \in {1} : cache'[q] # None /\ cache'[q].dirty
    BY <1>3, <1>4
  <2>2. /\ \A q \in FreeNow' \ FreeNow : Flagged(q)'
        /\ FreeNow \subseteq FreeNow' \union {1}
    BY <1>6, <1>8
  <2> QED
    BY <1>5, <1>7, <1>9, <1>10, <2>1, <2>2, SaveAgrees
<1>12. /\ Recoverable' = Recoverable
       /\ stmt = None => stmt' = None
       /\ stmt # None => stmt' # None /\ AtBegin' = AtBegin
  BY <1>5, <1>9, SaveShown
<1>13. Shown(Seen)' = [Shown(Seen) EXCEPT ![pg] = None]
  BY <1>1, <1>5, PagerAssumption DEF Shown, Pages
<1> QED
  BY <1>11, <1>12, <1>13

LEMMA AllocateAgrees ==
  ASSUME Base, Agrees, NEW pg \in world.leaves, NEW v \in Values, Allocate(pg, v)
  PROVE  /\ Agrees'
         /\ Recoverable' = Recoverable
         /\ stmt = None => stmt' = None
         /\ stmt # None => stmt' # None /\ AtBegin' = AtBegin
         /\ Shown(Seen)' = [Shown(Seen) EXCEPT ![pg] = v]
<1>1. /\ PagerTypeOK /\ pg \in Pages /\ pg # 1 /\ 1 \in Pages /\ pg \in Data
      /\ world.leaves \in SUBSET Data
      /\ cache[1] \in PgHdr /\ cache[1] # None
      /\ cache[1].data = Seen[1] /\ Seen[1] \subseteq world.leaves
      /\ v \in Content
  <2>1. PagerTypeOK /\ world.leaves \in SUBSET Data /\ 1 \in Pages
    BY WorldTypes DEF Base
  <2>2. cache[1] # None
    BY DEF Allocate, InTransaction, Base, CacheOK
  <2> QED
    BY <2>1, <2>2, PagerAssumption DEF Pages, PagerTypeOK, Seen, Proper, Content
<1>2. DEFINE h == Changed(1, cache[1].data \ {pg})
             f == Changed(pg, v)
<1>3. /\ h \in PgHdr /\ h # None /\ h.data = Seen[1] \ {pg} /\ h.dirty
      /\ h.alwaysRollback = Got(1).alwaysRollback
      /\ f \in PgHdr /\ f # None /\ f.data = v /\ f.dirty
      /\ f.alwaysRollback = Got(pg).alwaysRollback
  BY <1>1, ChangedPage DEF Content
<1>4. /\ cache' = [cache EXCEPT ![1] = h, ![pg] = f]
      /\ cache'[pg] = f /\ cache'[1] = h
      /\ \A q \in Pages \ {1, pg} : cache'[q] = cache[q]
  BY <1>1, <1>3 DEF Allocate, PagerTypeOK
<1> HIDE DEF h, f
<1>5. /\ Seen'[1] = Seen[1] \ {pg} /\ Seen'[pg] = v
      /\ \A q \in Pages \ {1, pg} : Seen'[q] = Seen[q]
  BY <1>1, <1>3, <1>4 DEF Seen, Allocate
<1>6. FreeNow' = FreeNow \ {pg} /\ pg \in FreeNow
  BY <1>1, <1>5 DEF FreeNow, Allocate
<1>7. \A q \in Pages : Flagged(q) => Flagged(q)'
  <2>1. /\ always' = always
        /\ \A q \in {1, pg} : cache[q] # None =>
             cache'[q] # None /\ cache'[q].alwaysRollback = cache[q].alwaysRollback
    <3>1. \A q \in {1, pg} : cache[q] # None => Got(q) = cache[q]
      BY DEF Got
    <3>2. always' = always
      BY DEF Allocate
    <3> QED
      BY <1>3, <1>4, <3>1, <3>2
  <2> QED
    BY <1>4, <2>1 DEF Flagged
<1>8. \A q \in DontRollback(pg) : q = pg /\ ~Flagged(pg)
  BY <1>1, GotIsSeen DEF DontRollback, Flagged
<1>9. /\ InTransaction /\ Save({1, pg}, DontRollback(pg)) /\ Change
      /\ UNCHANGED <<file, disk, state, always, pc, todo>>
      /\ {1, pg} \in SUBSET Pages /\ DontRollback(pg) \in SUBSET {1, pg}
  BY <1>1, <1>8 DEF Allocate
<1>10. \A q \in DontRollback(pg) : q \in FreeNow /\ ~Flagged(q)
  BY <1>6, <1>8
<1>11. Agrees'
  <2>1. \A q \in {1, pg} : cache'[q] # None /\ cache'[q].dirty
    BY <1>3, <1>4
  <2>2. /\ \A q \in FreeNow' \ FreeNow : Flagged(q)'
        /\ FreeNow \subseteq FreeNow' \union {1, pg}
    BY <1>6
  <2>3. /\ \A q \in Pages \ {1, pg} : cache'[q] = cache[q]
        /\ \A q \in Pages \ {1, pg} : Seen'[q] = Seen[q]
    BY <1>4, <1>5
  <2> QED
    BY <1>7, <1>9, <1>10, <2>1, <2>2, <2>3, SaveAgrees
<1>12. /\ Recoverable' = Recoverable
       /\ stmt = None => stmt' = None
       /\ stmt # None => stmt' # None /\ AtBegin' = AtBegin
  BY <1>5, <1>9, <1>10, SaveShown
<1>13. Shown(Seen)' = [Shown(Seen) EXCEPT ![pg] = v]
  BY <1>1, <1>5, PagerAssumption DEF Shown, Pages
<1> QED
  BY <1>11, <1>12, <1>13

\* The state of Transactions, and a step that does not change it.
Current == CASE pc \in {"undo", "down"} -> Recoverable
             [] pc = "stmt" -> AtBegin
             [] OTHER -> Shown(Seen)
Mark == IF stmt = None \/ pc \in {"stmt", "undo"} THEN None ELSE AtBegin
Silent == Recoverable' = Recoverable /\ Current' = Current /\ Mark' = Mark

LEMMA GetAgrees ==
  ASSUME Base, Agrees, NEW pg \in Pages, Get(pg)
  PROVE  Agrees' /\ Silent
<1>1. /\ Got(pg) # None /\ Got(pg).data = Seen[pg] /\ ~Got(pg).dirty
      /\ cache' = [cache EXCEPT ![pg] = Got(pg)] /\ cache[pg] = None
      /\ cache'[pg] = Got(pg)
      /\ \A q \in Pages \ {pg} : cache'[q] = cache[q]
  BY GotIsSeen DEF Base, PagerTypeOK, Get
<1>2. /\ pc = "ready" /\ pc' = pc /\ file' = file /\ disk' = disk /\ journal' = journal
      /\ stmt' = stmt /\ state' = state /\ always' = always /\ todo' = todo
      /\ world' = world /\ faults' = faults
  BY DEF Get, files, bounds
<1>3. Seen' = Seen /\ Seen[pg] = file[pg]
  BY <1>1, <1>2 DEF Seen
<1>4. Recovered' = Recovered /\ Restored' = Restored
  BY <1>2, <1>3 DEF Recovered, Restored
<1>5. /\ FreeBefore' = FreeBefore /\ FreeNow' = FreeNow /\ FreeAtBegin' = FreeAtBegin
      /\ Undone' = Undone /\ (InStmt' <=> InStmt) /\ (Goes' <=> Goes)
  BY <1>2, <1>3, <1>4 DEF FreeBefore, FreeNow, FreeAtBegin, Undone, InStmt, Goes
<1>6. RecordsOK'
  BY <1>2, <1>5 DEF Agrees, RecordsOK
<1>7. FlagsOK'
  <2>1. \A q \in Pages : Flagged(q) => Flagged(q)'
    BY <1>1, <1>2 DEF Flagged
  <2> QED
    BY <1>2, <1>5, <2>1, FreeTypes DEF Agrees, FlagsOK, Pages
<1>8. StmtOK'
  <2>1. \A q : NeedSync(q)' <=> NeedSync(q)
    BY <1>2 DEF NeedSync
  <2>2. \A q \in Undone : stmt # None /\ journal # None => q \in Pages
    BY RecordsType DEF Undone, Base, PagerTypeOK, Journals, StmtJournals
  <2>3. stmt # None => journal # None
    BY DEF Base, PagerTypeOK
  <2> QED
    BY <1>1, <1>2, <1>5, <2>1, <2>2, <2>3 DEF Agrees, StmtOK, InStmt
<1>9. CleanOK'
  BY <1>1, <1>2, <1>3, <1>5 DEF Agrees, CleanOK
<1>10. KeptOK' /\ DiskOK'
  BY <1>2, <1>5 DEF Agrees, KeptOK, DiskOK, MayBe
<1>11. Silent
  BY <1>2, <1>3, <1>4 DEF Silent, Current, Mark, Recoverable, AtBegin
<1> QED
  BY <1>6, <1>7, <1>8, <1>9, <1>10, <1>11 DEF Agrees

\* The records of a statement are of pages.
LEMMA UndoneTypes ==
  ASSUME Base, stmt # None
  PROVE  journal # None /\ Undone \subseteq Pages
<1>1. journal # None /\ journal \in Journals /\ stmt \in StmtJournals
  BY DEF Base, PagerTypeOK
<1>2. journal.recs \in Records /\ stmt.recs \in Records
  BY <1>1 DEF Journals, StmtJournals
<1> QED
  BY <1>1, <1>2, RecordsType DEF Undone

\* syncJournal(): a record that counts is what is in the file, or free.
LEMMA SyncView ==
  ASSUME Base, Agrees, journal # None, file' = file,
         journal' # None,
         DOMAIN journal.recs \subseteq DOMAIN journal'.recs,
         \A pg \in DOMAIN journal.recs : journal'.recs[pg] = journal.recs[pg],
         \A pg \in DOMAIN journal'.recs \ DOMAIN journal.recs :
           journal'.recs[pg] = file[pg],
         journal.synced \subseteq journal'.synced,
         journal'.synced \subseteq DOMAIN journal'.recs
  PROVE  /\ FreeBefore' = FreeBefore
         /\ Recoverable' = Recoverable
<1>1. /\ journal.synced \subseteq DOMAIN journal.recs
      /\ 1 \notin FreeBefore /\ 1 \in Pages
  BY FreeTypes DEF Base, PagerTypeOK
<1>2. \A pg \in Pages : Recovered'[pg] = Recovered[pg] \/ pg \in FreeBefore
  BY <1>1 DEF Agrees, RecordsOK, Recovered
<1>3. Recovered'[1] = Recovered[1]
  BY <1>1, <1>2
<1>4. Shown(Recovered') = Shown(Recovered)
  <2> HIDE DEF Recovered
  <2> QED
    BY <1>2, <1>3, ShownSame DEF Pages, FreeBefore
<1> QED
  BY <1>3, <1>4 DEF FreeBefore, Recoverable

\* What recycling a page does to the journal.
LEMMA RecycleJournal ==
  ASSUME Base, NEW pg \in world.spilled, Recycle(pg)
  PROVE  /\ pg \in Data /\ pg \in Pages /\ pg # 1
         /\ cache[pg] # None /\ pc = "ready" /\ cache[pg].data = Seen[pg]
         /\ journal' = None <=> journal = None
         /\ journal # None =>
              /\ journal'.saved = journal.saved /\ journal'.recs = journal.recs
              /\ journal.synced \subseteq journal'.synced
              /\ journal'.synced \subseteq DOMAIN journal.recs
         /\ ~NeedSync(pg)'
         /\ \A q \in Pages : NeedSync(q)' => NeedSync(q)
         /\ UNCHANGED <<file, disk, stmt, world, faults, changes>>
         /\ always' = (always \/ cache[pg].alwaysRollback)
         /\ \A q \in Pages \ {pg} : cache'[q] = cache[q]
         /\ IF cache[pg].dirty
              THEN state' = "EXCLUSIVE" /\ pc' = "spill" /\ todo' = {pg} /\ cache' = cache
              ELSE state' = state /\ pc' = pc /\ todo' = todo /\ cache'[pg] = None
<1>1. /\ PagerTypeOK /\ pg \in Data /\ pg \in Pages /\ pg # 1
      /\ cache[pg] # None /\ pc = "ready" /\ cache[pg].data = Seen[pg]
      /\ journal # None => journal.synced \subseteq DOMAIN journal.recs
  <2>1. PagerTypeOK /\ world.spilled \in SUBSET Data
    BY WorldTypes DEF Base
  <2> QED
    BY <2>1, PagerAssumption DEF Recycle, Pages, Seen, PagerTypeOK
<1>2. /\ journal' = None <=> journal = None
      /\ journal # None =>
           /\ journal'.saved = journal.saved /\ journal'.recs = journal.recs
           /\ journal.synced \subseteq journal'.synced
           /\ journal'.synced \subseteq DOMAIN journal.recs
           /\ pg \notin DOMAIN journal'.recs \ journal'.synced
  <2>1. CASE NeedSync(pg)
    BY <1>1, <2>1, SyncedJournal DEF Recycle, NeedSync
  <2>2. CASE ~NeedSync(pg)
    BY <1>1, <2>2 DEF Recycle, NeedSync
  <2> QED
    BY <2>1, <2>2
<1>3. ~NeedSync(pg)' /\ \A q \in Pages : NeedSync(q)' => NeedSync(q)
  BY <1>1, <1>2 DEF NeedSync
<1>4. /\ UNCHANGED <<file, disk, stmt, world, faults, changes>>
      /\ always' = (always \/ cache[pg].alwaysRollback)
      /\ \A q \in Pages \ {pg} : cache'[q] = cache[q]
      /\ IF cache[pg].dirty
           THEN state' = "EXCLUSIVE" /\ pc' = "spill" /\ todo' = {pg} /\ cache' = cache
           ELSE state' = state /\ pc' = pc /\ todo' = todo /\ cache'[pg] = None
  BY <1>1 DEF Recycle, bounds, PagerTypeOK
<1> QED
  BY <1>1, <1>2, <1>3, <1>4

LEMMA RecycleAgrees ==
  ASSUME Base, Agrees, Orderly, NEW pg \in world.spilled, Recycle(pg)
  PROVE  Agrees' /\ Silent
<1>1. /\ PagerTypeOK /\ 1 \in Pages /\ pg \in Pages /\ pg # 1 /\ pg \in Data
      /\ file' = file /\ disk' = disk /\ stmt' = stmt /\ world' = world
      /\ faults' = faults
      /\ pc = "ready" /\ pc' \in {"ready", "spill"}
      /\ journal' = None <=> journal = None
      /\ cache[pg] # None /\ cache[pg].data = Seen[pg]
      /\ 1 \notin FreeNow /\ 1 \notin FreeBefore
      /\ stmt # None => journal # None
      /\ stmt # None => 1 \notin FreeAtBegin
  BY RecycleJournal, FreeTypes DEF Base, PagerTypeOK
<1>2. FreeBefore' = FreeBefore /\ Recoverable' = Recoverable
  <2>1. CASE journal = None
    BY <1>1, <2>1 DEF FreeBefore, Recovered, Recoverable
  <2>2. CASE journal # None
    BY <1>1, <2>2, RecycleJournal, SyncView
  <2> QED
    BY <2>1, <2>2
<1>3. \A q \in Pages :
        \/ Seen'[q] = Seen[q]
        \/ q \in FreeNow /\ (InStmt => q \in FreeAtBegin)
  <2>1. \A q \in Pages \ {pg} : Seen'[q] = Seen[q]
    BY <1>1, RecycleJournal DEF Seen
  <2>2. CASE cache[pg].dirty
    BY <1>1, <2>1, <2>2, RecycleJournal DEF Seen
  <2>3. CASE ~cache[pg].dirty
    <3>1. Seen'[pg] = file[pg]
      BY <1>1, <2>3, RecycleJournal DEF Seen
    <3> QED
      BY <1>1, <2>1, <2>3, <3>1, CleanPage DEF Agrees
  <2> QED
    BY <2>2, <2>3
<1>4. FreeNow' = FreeNow
  BY <1>1, <1>3 DEF FreeNow
<1>5. ASSUME stmt # None
      PROVE  /\ Undone' = Undone
             /\ \A q \in Pages : Restored'[q] = Restored[q] \/ q \in FreeAtBegin
             /\ FreeAtBegin' = FreeAtBegin
  <2>1. journal' # None /\ journal'.recs = journal.recs
    BY <1>1, <1>5, RecycleJournal
  <2>2. InStmt
    BY <1>1, <1>5 DEF InStmt, Goes
  <2>3. \A q \in Pages : Restored'[q] = Restored[q] \/ q \in FreeAtBegin
    BY <1>1, <1>3, <2>1, <2>2 DEF Restored
  <2> QED
    BY <1>1, <1>5, <2>1, <2>3 DEF Undone, FreeAtBegin
<1>6. Silent
  <2>1. Shown(Seen') = Shown(Seen)
    <3> HIDE DEF Seen
    <3> QED
      BY <1>1, <1>3, ShownSame DEF FreeNow, Pages
  <2>2. stmt # None => Shown(Restored') = Shown(Restored)
    <3> HIDE DEF Restored
    <3> QED
      BY <1>1, <1>5, ShownSame DEF FreeAtBegin, Pages
  <2> QED
    BY <1>1, <1>2, <2>1, <2>2 DEF Silent, Current, Mark, AtBegin
<1>7. RecordsOK'
  <2> SUFFICES ASSUME journal' # None PROVE RecordsOK'
    BY DEF RecordsOK
  <2>1. /\ journal'.saved = journal.saved /\ journal'.recs = journal.recs
        /\ journal.synced \subseteq journal'.synced
        /\ journal # None
    BY <1>1, RecycleJournal
  <2>2. state' = state \/ state' = "EXCLUSIVE"
    BY RecycleJournal
  <2> QED
    BY <1>1, <1>2, <2>1, <2>2 DEF Agrees, RecordsOK
<1>8. FlagsOK'
  <2>1. \A q \in Pages : Flagged(q) => Flagged(q)'
    BY <1>1, RecycleJournal DEF Flagged
  <2>2. /\ FreeNow \subseteq Pages /\ (stmt # None => FreeAtBegin \subseteq Pages)
    BY FreeTypes DEF Pages
  <2> QED
    BY <1>1, <1>2, <1>4, <1>5, <2>1, <2>2 DEF Agrees, FlagsOK, Goes
<1>9. StmtOK'
  <2> SUFFICES ASSUME stmt # None PROVE StmtOK'
    BY <1>1 DEF StmtOK, InStmt
  <2>1. /\ journal' # None /\ journal'.saved = journal.saved
        /\ journal'.recs = journal.recs /\ InStmt
    BY <1>1, RecycleJournal DEF InStmt, Goes
  <2>2. ASSUME NEW q \in Undone
        PROVE  \/ cache'[q] # None /\ cache'[q].dirty
               \/ state' = "EXCLUSIVE" /\ ~NeedSync(q)'
    <3>1. q \in Pages
      BY UndoneTypes
    <3>2. \/ cache[q] # None /\ cache[q].dirty
          \/ state = "EXCLUSIVE" /\ ~NeedSync(q)
      BY <2>1 DEF Agrees, StmtOK
    <3> QED
      BY <1>1, <3>1, <3>2, RecycleJournal
  <2> QED
    BY <1>1, <1>5, <2>1, <2>2 DEF Agrees, StmtOK, InStmt
<1>10. CleanOK'
  <2> SUFFICES ASSUME NEW q \in Pages, cache'[q] # None, ~cache'[q].dirty,
                      cache'[q].data # file'[q]
               PROVE  /\ q \in FreeNow'
                      /\ InStmt' => q \in FreeAtBegin'
                      /\ q \in FreeBefore' \/ (journal' # None /\ q \in journal'.saved)
    BY DEF CleanOK
  <2>1. cache'[q] = cache[q]
    BY RecycleJournal
  <2>2. /\ q \in FreeNow
        /\ InStmt => q \in FreeAtBegin
        /\ q \in FreeBefore \/ (journal # None /\ q \in journal.saved)
    BY <1>1, <2>1 DEF Agrees, CleanOK
  <2> QED
    BY <1>1, <1>2, <1>4, <1>5, <2>2, RecycleJournal DEF InStmt, Goes
<1>11. KeptOK'
  BY <1>1 DEF KeptOK, Orderly
<1>12. DiskOK'
  BY <1>1, <1>2, RecycleJournal DEF Agrees, DiskOK, MayBe
<1> QED
  BY <1>6, <1>7, <1>8, <1>9, <1>10, <1>11, <1>12 DEF Agrees

LEMMA WritePageAgrees ==
  ASSUME Base, Agrees, Orderly, NEW pg \in Pages, WritePage(pg)
  PROVE  Agrees' /\ Silent
<1>1. /\ PagerTypeOK /\ pg \in todo /\ journal # None /\ state = "EXCLUSIVE"
      /\ cache[pg] # None /\ cache[pg].data = Seen[pg]
      /\ cache[pg].dirty /\ ~NeedSync(pg)
      /\ pc \in {"spill", "commit"}
      /\ Store(pg, cache[pg].data)
      /\ 1 \notin FreeBefore /\ 1 \in Pages
      /\ cache[pg] \in PgHdr
  BY FreeTypes DEF Base, PlaceOK, WritePage, PagerTypeOK, Seen
<1>2. /\ UNCHANGED <<journal, stmt, state, always, world, faults, changes>>
      /\ todo' = todo \ {pg}
      /\ pc' = IF pc = "spill" THEN "ready" ELSE pc
  BY DEF WritePage, bounds
<1>3. /\ file'[pg] = Seen[pg]
      /\ \A q \in Pages \ {pg} : file'[q] = file[q] /\ disk'[q] = disk[q]
  BY <1>1 DEF Store, PagerTypeOK
<1>4. /\ \A q \in Pages \ {pg} : cache'[q] = cache[q]
      /\ pc = "spill" => cache'[pg] = None
      /\ pc = "commit" => /\ cache'[pg] # None /\ cache'[pg].data = Seen[pg]
                          /\ ~cache'[pg].dirty
  <2>1. CASE pc = "spill"
    BY <1>1, <2>1 DEF WritePage, PagerTypeOK
  <2>2. CASE pc = "commit"
    <3>1. cache' = [cache EXCEPT ![pg] = [cache[pg] EXCEPT !.dirty = FALSE]]
      BY <2>2 DEF WritePage
    <3>2. [cache[pg] EXCEPT !.dirty = FALSE] \in PgHdr
      BY <1>1 DEF PgHdr
    <3> QED
      BY <1>1, <2>2, <3>1, <3>2, PagerAssumption DEF PagerTypeOK, PgHdr
  <2> QED
    BY <1>1, <2>1, <2>2
<1>5. Seen' = Seen
  <2>1. \A q \in Pages : Seen'[q] = Seen[q]
    BY <1>1, <1>3, <1>4 DEF Seen
  <2> QED
    BY <2>1 DEF Seen
<1>6. pg \in journal.synced \/ pg \in FreeBefore
  <2>1. pg \in journal.saved
    BY <1>1 DEF PagerTypeOK
  <2> QED
    BY <1>1, <2>1 DEF Agrees, RecordsOK, NeedSync
<1>7. /\ \A q \in Pages : Recovered'[q] = Recovered[q] \/ q \in FreeBefore
      /\ Recovered'[1] = Recovered[1]
  BY <1>1, <1>2, <1>3, <1>6 DEF Recovered
<1>8. FreeBefore' = FreeBefore /\ Recoverable' = Recoverable
  <2>1. Shown(Recovered') = Shown(Recovered)
    <3> HIDE DEF Recovered
    <3> QED
      BY <1>7, ShownSame DEF Pages, FreeBefore
  <2> QED
    BY <1>7, <2>1 DEF FreeBefore, Recoverable
<1>9. /\ Restored' = Restored /\ Undone' = Undone
      /\ FreeNow' = FreeNow /\ FreeAtBegin' = FreeAtBegin
  BY <1>2, <1>5 DEF Restored, Undone, FreeNow, FreeAtBegin
<1>10. Silent
  BY <1>1, <1>2, <1>5, <1>8, <1>9 DEF Silent, Current, Mark, AtBegin
<1>11. RecordsOK'
  BY <1>1, <1>2, <1>3, <1>6, <1>8 DEF Agrees, RecordsOK, PagerTypeOK, Journals
<1>12. \A q : NeedSync(q)' <=> NeedSync(q)
  BY <1>2 DEF NeedSync
<1>13. FlagsOK'
  <2> SUFFICES ASSUME pc = "spill" PROVE FlagsOK'
    BY <1>1, <1>2 DEF FlagsOK, Goes
  <2>1. cache[pg].alwaysRollback => always
    BY <1>1 DEF Base, PlaceOK
  <2>2. \A q \in Pages : Flagged(q) => Flagged(q)'
    BY <1>2, <1>4, <2>1 DEF Flagged
  <2>3. /\ FreeNow \subseteq Pages /\ (stmt # None => FreeAtBegin \subseteq Pages)
    BY FreeTypes DEF Pages
  <2> QED
    BY <1>1, <1>2, <1>8, <1>9, <2>2, <2>3 DEF Agrees, FlagsOK, Goes
<1>14. StmtOK'
  <2> SUFFICES ASSUME pc = "spill", stmt # None PROVE StmtOK'
    BY <1>1, <1>2 DEF StmtOK, InStmt, Goes
  <2>1. InStmt /\ Undone \subseteq Pages
    BY UndoneTypes DEF InStmt, Goes
  <2>2. \A q \in Undone :
               \/ cache'[q] # None /\ cache'[q].dirty
               \/ state' = "EXCLUSIVE" /\ ~NeedSync(q)'
    BY <1>1, <1>2, <1>4, <1>12, <2>1 DEF Agrees, StmtOK
  <2> QED
    BY <1>1, <1>2, <1>9, <2>1, <2>2 DEF Agrees, StmtOK
<1>15. CleanOK'
  <2> SUFFICES ASSUME NEW q \in Pages, cache'[q] # None, ~cache'[q].dirty,
                      cache'[q].data # file'[q]
               PROVE  /\ q \in FreeNow'
                      /\ InStmt' => q \in FreeAtBegin'
                      /\ q \in FreeBefore' \/ (journal' # None /\ q \in journal'.saved)
    BY DEF CleanOK
  <2>1. q # pg /\ cache'[q] = cache[q] /\ file'[q] = file[q]
    BY <1>1, <1>3, <1>4
  <2>2. /\ q \in FreeNow
        /\ InStmt => q \in FreeAtBegin
        /\ q \in FreeBefore \/ q \in journal.saved
    BY <1>1, <2>1 DEF Agrees, CleanOK
  <2> QED
    BY <1>1, <1>2, <1>8, <1>9, <2>2 DEF InStmt, Goes
<1>16. KeptOK'
  BY <1>1, <1>2 DEF Agrees, KeptOK, Goes
<1>17. DiskOK'
  BY <1>1, <1>2, <1>3, <1>6, <1>8 DEF Agrees, DiskOK, MayBe
<1> QED
  BY <1>10, <1>11, <1>13, <1>14, <1>15, <1>16, <1>17 DEF Agrees

LEMMA CommitAgrees ==
  ASSUME Base, Agrees, Orderly, Commit
  PROVE  Agrees' /\ Silent
<1>1. /\ PagerTypeOK /\ 1 \in Pages /\ pc = "ready" /\ journal # None
      /\ cache[1] \in PgHdr /\ cache[1] # None
      /\ cache \in [Pages -> PgHdr \union {None}]
      /\ 1 \notin FreeNow /\ 1 \notin FreeBefore
      /\ DOMAIN journal.recs \subseteq journal.saved
      /\ journal.synced \subseteq DOMAIN journal.recs
  BY FreeTypes DEF Base, CacheOK, Commit, InTransaction, PagerTypeOK
<1>2. /\ UNCHANGED <<file, disk, stmt, always, world, faults, changes>>
      /\ state' = "EXCLUSIVE" /\ pc' = "commit"
  BY DEF Commit, bounds
<1>3. /\ cache'[1] # None /\ cache'[1].dirty /\ cache'[1].data = cache[1].data
      /\ \A q \in Pages \ {1} : cache'[q] = cache[q]
  <2>1. /\ [cache[1] EXCEPT !.dirty = TRUE] \in PgHdr
    BY <1>1 DEF PgHdr
  <2>2. cache' = [cache EXCEPT ![1] = [cache[1] EXCEPT !.dirty = TRUE]]
    BY DEF Commit
  <2> QED
    BY <1>1, <2>1, <2>2, PagerAssumption DEF PgHdr
<1>4. Seen' = Seen
  <2>1. \A q \in Pages : Seen'[q] = Seen[q]
    BY <1>1, <1>2, <1>3 DEF Seen
  <2> QED
    BY <2>1 DEF Seen
<1>5. /\ journal' # None
      /\ journal'.saved = journal.saved \union {1}
      /\ DOMAIN journal'.recs = DOMAIN journal.recs \union ({1} \ journal.saved)
      /\ \A pg \in DOMAIN journal.recs : journal'.recs[pg] = journal.recs[pg]
      /\ 1 \notin journal.saved => journal'.recs[1] = Seen[1]
      /\ journal'.synced = DOMAIN journal'.recs
  BY CommitJournal
<1>6. 1 \notin journal.saved => Seen[1] = file[1]
  BY <1>1, CleanPage DEF Agrees, PagerTypeOK
<1>7. FreeBefore' = FreeBefore /\ Recoverable' = Recoverable
  <2>1. /\ \A pg \in DOMAIN journal'.recs \ DOMAIN journal.recs :
             journal'.recs[pg] = file[pg]
        /\ DOMAIN journal.recs \subseteq DOMAIN journal'.recs
        /\ journal.synced \subseteq journal'.synced
    BY <1>1, <1>5, <1>6
  <2> QED
    BY <1>1, <1>2, <1>5, <2>1, SyncView
<1>8. stmt # None => Restored' = Restored
  <2> SUFFICES ASSUME stmt # None PROVE Restored' = Restored
    OBVIOUS
  <2>1. stmt.before \subseteq DOMAIN journal.recs
    BY <1>1 DEF Agrees, StmtOK, InStmt, Goes
  <2>2. \A q \in Pages : Restored'[q] = Restored[q]
    BY <1>1, <1>2, <1>4, <1>5, <2>1 DEF Restored
  <2> QED
    BY <2>2 DEF Restored
<1>9. Silent
  BY <1>1, <1>2, <1>4, <1>7, <1>8 DEF Silent, Current, Mark, AtBegin
<1>10. RecordsOK'
  BY <1>1, <1>2, <1>5, <1>7 DEF Agrees, RecordsOK
<1>11. FlagsOK' /\ StmtOK'
  BY <1>2 DEF FlagsOK, StmtOK, Goes, InStmt
<1>12. CleanOK'
  <2>1. FreeNow' = FreeNow
    BY <1>4 DEF FreeNow
  <2> QED
    BY <1>1, <1>2, <1>3, <1>5, <1>7, <2>1 DEF Agrees, CleanOK, InStmt, Goes
<1>13. KeptOK'
  BY <1>2 DEF KeptOK, Goes
<1>14. DiskOK'
  BY <1>1, <1>2, <1>5, <1>7 DEF Agrees, DiskOK, MayBe
<1> QED
  BY <1>9, <1>10, <1>11, <1>12, <1>13, <1>14 DEF Agrees

LEMMA SyncFileAgrees ==
  ASSUME Base, Agrees, SyncFile
  PROVE  Agrees' /\ Silent
<1>1. /\ UNCHANGED <<file, journal, stmt, cache, state, always, todo>>
      /\ world' = world /\ faults' = faults
      /\ pc = "commit" /\ pc' = "synced" /\ todo = {}
      /\ disk' = [pg \in Pages |-> {file[pg]}]
  BY DEF memory, bounds, SyncFile
<1>2. /\ Seen' = Seen /\ Recovered' = Recovered /\ Restored' = Restored
  BY <1>1 DEF Seen, Recovered, Restored
<1>3. /\ FreeBefore' = FreeBefore /\ FreeNow' = FreeNow /\ FreeAtBegin' = FreeAtBegin
  BY <1>2 DEF FreeBefore, FreeNow, FreeAtBegin
<1>4. Silent
  BY <1>1, <1>2 DEF Silent, Current, Mark, AtBegin, Recoverable
<1>5. RecordsOK' /\ FlagsOK' /\ StmtOK'
  BY <1>1, <1>3 DEF Agrees, RecordsOK, FlagsOK, StmtOK, Goes, InStmt
<1>6. CleanOK' /\ KeptOK' /\ DiskOK'
  BY <1>1, <1>3 DEF Agrees, CleanOK, KeptOK, DiskOK, Goes, InStmt
<1> QED
  BY <1>4, <1>5, <1>6 DEF Agrees

LEMMA StorePage ==
  ASSUME PagerTypeOK, NEW pg \in Pages, NEW v, Store(pg, v)
  PROVE  /\ file'[pg] = v
         /\ \A q \in Pages \ {pg} : file'[q] = file[q] /\ disk'[q] = disk[q]
BY DEF Store, PagerTypeOK

\* Playing back the journal.
LEMMA UndoAgrees ==
  ASSUME Base, Agrees, NEW pg \in Pages, PlaybackPage(pg), pc = "undo"
  PROVE  Agrees' /\ Silent
<1>1. /\ PagerTypeOK /\ journal # None /\ pg \in todo /\ todo' = todo \ {pg}
      /\ UNCHANGED <<journal, stmt, state, always, pc, world, faults, changes>>
      /\ state = "EXCLUSIVE" /\ pg \in journal.synced
      /\ Image(pg) = journal.recs[pg]
      /\ \A q \in Pages \ {pg} : cache'[q] = cache[q]
  BY PlaybackEffect DEF Base, PlaceOK, Image
<1>2. ToFile(pg)
  BY <1>1 DEF ToFile, NeedSync
<1>3. /\ file'[pg] = journal.recs[pg]
      /\ \A q \in Pages \ {pg} : file'[q] = file[q] /\ disk'[q] = disk[q]
  BY <1>1, <1>2, PlaybackEffect, StorePage
<1>4. Recovered' = Recovered
  <2>1. \A q \in Pages : Recovered'[q] = Recovered[q]
    BY <1>1, <1>3 DEF Recovered
  <2> QED
    BY <2>1 DEF Recovered
<1>5. FreeBefore' = FreeBefore /\ Recoverable' = Recoverable
  BY <1>4 DEF FreeBefore, Recoverable
<1>6. Silent
  BY <1>1, <1>5 DEF Silent, Current, Mark
<1>7. RecordsOK'
  <2>1. DOMAIN journal.recs \subseteq Pages
    BY <1>1, RecordsType DEF PagerTypeOK, Journals
  <2>2. journal.synced \subseteq DOMAIN journal.recs
    BY <1>1 DEF PagerTypeOK
  <2>3. \A q \in DOMAIN journal'.recs :
           \/ journal'.recs[q] = file'[q]
           \/ q \in FreeBefore'
           \/ q \in journal'.synced /\ state' # "RESERVED"
    BY <1>1, <1>3, <1>5, <2>1 DEF Agrees, RecordsOK
  <2>4. \A q \in journal'.synced \ todo' : file'[q] = journal'.recs[q]
    BY <1>1, <1>3, <2>1, <2>2 DEF Agrees, RecordsOK
  <2> QED
    BY <1>1, <2>3, <2>4 DEF RecordsOK
<1>8. FlagsOK' /\ StmtOK' /\ CleanOK'
  BY <1>1 DEF FlagsOK, StmtOK, CleanOK, Goes, InStmt
<1>9. KeptOK'
  <2> SUFFICES ASSUME world.cursors, NEW q \in Pages, cache'[q] # None
               PROVE  IF cache'[q].dirty THEN q \in todo'
                      ELSE cache'[q].data = file'[q]
    BY <1>1 DEF KeptOK, Goes
  <2>1. CASE q = pg
    BY <1>1, <1>2, <1>3, <2>1, PlaybackEffect
  <2>2. CASE q # pg
    BY <1>1, <1>3, <2>2 DEF Agrees, KeptOK
  <2> QED
    BY <2>1, <2>2
<1>10. DiskOK'
  BY <1>1, <1>3, <1>5 DEF Agrees, DiskOK, MayBe
<1> QED
  BY <1>6, <1>7, <1>8, <1>9, <1>10 DEF Agrees

\* Playing back the journal of a statement.
LEMMA StmtPlaybackAgrees ==
  ASSUME Base, Agrees, NEW pg \in Pages, PlaybackPage(pg), pc = "stmt"
  PROVE  Agrees' /\ Silent
<1>1. /\ PagerTypeOK /\ journal # None /\ pg \in todo /\ todo' = todo \ {pg}
      /\ UNCHANGED <<journal, stmt, state, always, pc, world, faults, changes>>
      /\ stmt # None /\ pg \in Undone /\ InStmt
      /\ \A q \in Pages \ {pg} : cache'[q] = cache[q]
      /\ 1 \notin FreeBefore /\ 1 \in Pages
  BY PlaybackEffect, FreeTypes DEF Base, PlaceOK, InStmt, Goes
<1>2. /\ Undone \subseteq stmt.saved
      /\ stmt.saved \subseteq journal.saved
      /\ \A q \in Undone : \/ cache[q] # None /\ cache[q].dirty
                           \/ state = "EXCLUSIVE" /\ ~NeedSync(q)
      /\ \A q \in Undone \ todo : Seen[q] = Restored[q]
      /\ journal.saved \subseteq DOMAIN journal.recs \union FreeBefore
  BY <1>1 DEF Agrees, StmtOK, RecordsOK
<1>3. /\ ToFile(pg) => pg \in journal.synced \/ pg \in FreeBefore
      /\ ToFile(pg) => state = "EXCLUSIVE" /\ ~NeedSync(pg)
      /\ cache[pg] = None \/ ~cache[pg].dirty => ToFile(pg)
  BY <1>1, <1>2 DEF ToFile, NeedSync, PagerTypeOK
<1>4. /\ ToFile(pg) => file'[pg] = Image(pg)
      /\ ~ToFile(pg) => file' = file /\ disk' = disk
      /\ \A q \in Pages \ {pg} : file'[q] = file[q] /\ disk'[q] = disk[q]
  BY <1>1, PlaybackEffect, StorePage
<1>5. Restored[pg] = Image(pg)
  BY <1>1 DEF Restored, Image, Undone
<1>6. /\ Seen'[pg] = Image(pg)
      /\ \A q \in Pages \ {pg} : Seen'[q] = Seen[q]
  BY <1>1, <1>3, <1>4, PlaybackEffect DEF Seen
<1>7. Restored' = Restored
  <2>1. \A q \in Pages : Restored'[q] = Restored[q]
    BY <1>1, <1>6 DEF Restored, Undone
  <2> QED
    BY <2>1 DEF Restored
<1>8. /\ \A q \in Pages : Recovered'[q] = Recovered[q] \/ q \in FreeBefore
      /\ Recovered'[1] = Recovered[1]
  BY <1>1, <1>3, <1>4 DEF Recovered
<1>9. FreeBefore' = FreeBefore /\ Recoverable' = Recoverable
  <2>1. Shown(Recovered') = Shown(Recovered)
    <3> HIDE DEF Recovered
    <3> QED
      BY <1>8, ShownSame DEF Pages, FreeBefore
  <2> QED
    BY <1>8, <2>1 DEF FreeBefore, Recoverable
<1>10. /\ FreeAtBegin' = FreeAtBegin /\ Undone' = Undone
       /\ FreeNow' \in {FreeNow, FreeAtBegin}
  BY <1>1, <1>5, <1>6, <1>7 DEF FreeAtBegin, FreeNow, Undone
<1>11. Silent
  BY <1>1, <1>7, <1>9 DEF Silent, Current, Mark, AtBegin
<1>12. RecordsOK'
  <2>1. DOMAIN journal.recs \subseteq Pages
    BY <1>1, RecordsType DEF PagerTypeOK, Journals
  <2> QED
    BY <1>1, <1>3, <1>4, <1>9, <2>1 DEF Agrees, RecordsOK
<1>13. FlagsOK'
  <2>1. \A q \in Pages : Flagged(q) => Flagged(q)'
    BY <1>1, PlaybackEffect DEF Flagged
  <2>2. /\ FreeNow \subseteq Pages /\ FreeAtBegin \subseteq Pages
    BY <1>1, FreeTypes DEF Pages
  <2> QED
    BY <1>1, <1>9, <1>10, <2>1, <2>2 DEF Agrees, FlagsOK, Goes
<1>14. \A q : NeedSync(q)' <=> NeedSync(q)
  BY <1>1 DEF NeedSync
<1>15. StmtOK'
  <2>1. ASSUME NEW q \in Undone
        PROVE  \/ cache'[q] # None /\ cache'[q].dirty
               \/ state' = "EXCLUSIVE" /\ ~NeedSync(q)'
    <3>1. q \in Pages
      BY <1>1, UndoneTypes
    <3>2. CASE q = pg
      BY <1>1, <1>2, <1>3, <1>14, <3>2, PlaybackEffect
    <3>3. CASE q # pg
      BY <1>1, <1>2, <1>14, <3>1, <3>3
    <3> QED
      BY <3>2, <3>3
  <2>2. \A q \in Undone \ todo' : Seen'[q] = Restored'[q]
    BY <1>1, <1>2, <1>5, <1>6, <1>7, UndoneTypes
  <2> QED
    BY <1>1, <1>10, <2>1, <2>2 DEF Agrees, StmtOK
<1>16. CleanOK'
  <2> SUFFICES ASSUME NEW q \in Pages, cache'[q] # None, ~cache'[q].dirty,
                      cache'[q].data # file'[q]
               PROVE  /\ q \in FreeNow'
                      /\ InStmt' => q \in FreeAtBegin'
                      /\ q \in FreeBefore' \/ (journal' # None /\ q \in journal'.saved)
    BY DEF CleanOK
  <2>1. q # pg
    BY <1>3, <1>4, PlaybackEffect
  <2>2. /\ q \in FreeNow /\ q \in FreeAtBegin
        /\ q \in FreeBefore \/ q \in journal.saved
    BY <1>1, <1>4, <2>1 DEF Agrees, CleanOK
  <2> QED
    BY <1>1, <1>9, <1>10, <2>2
<1>17. KeptOK' /\ DiskOK'
  BY <1>1, <1>3, <1>4, <1>9 DEF Agrees, KeptOK, DiskOK, MayBe, Goes
<1> QED
  BY <1>11, <1>12, <1>13, <1>15, <1>16, <1>17 DEF Agrees

LEMMA PlaybackAgrees ==
  ASSUME Base, Agrees, NEW pg \in Pages, PlaybackPage(pg)
  PROVE  Agrees' /\ Silent
BY UndoAgrees, StmtPlaybackAgrees DEF PlaybackPage

LEMMA BeginAgrees ==
  ASSUME Base, Agrees, Begin
  PROVE  Agrees' /\ Silent
<1>1. /\ UNCHANGED <<file, disk, stmt, cache, pc, todo, world, faults, changes>>
      /\ pc = "ready" /\ journal = None /\ stmt = None /\ cache[1] # None
      /\ journal' # None /\ state' = "RESERVED"
      /\ journal'.recs = NoRecs /\ DOMAIN journal'.recs = {}
      /\ journal'.saved = {} /\ journal'.synced = {}
      /\ 1 \in Pages /\ 1 \notin FreeNow
  <2>1. NoRecs \in Records /\ DOMAIN NoRecs = {}
    BY DEF NoRecs, Records
  <2>2. /\ journal' = [saved |-> {}, recs |-> NoRecs, synced |-> {}]
        /\ journal' \in Journals
    BY <2>1 DEF Begin, Journals
  <2>3. journal' # None
    BY <2>2, PagerAssumption
  <2>4. journal = None /\ stmt = None
    BY DEF Begin, Base, PagerTypeOK
  <2> QED
    BY <2>1, <2>2, <2>3, <2>4, FreeTypes DEF Begin, bounds
<1>2. /\ Seen' = Seen
      /\ Recovered' = [pg \in Pages |-> file[pg]]
      /\ Recovered = [pg \in Pages |-> file[pg]]
  BY <1>1 DEF Seen, Recovered
<1>3. FreeNow' = FreeNow /\ FreeBefore' = FreeBefore
  BY <1>2 DEF FreeNow, FreeBefore
<1>4. FreeNow = FreeBefore
  <2>1. ~cache[1].dirty
    BY <1>1 DEF Base, PagerTypeOK
  <2>2. Seen[1] = file[1]
    BY <1>1, <2>1, CleanPage DEF Agrees
  <2> QED
    BY <1>1, <1>2, <2>2 DEF FreeNow, FreeBefore
<1>5. Silent
  BY <1>1, <1>2 DEF Silent, Current, Mark, Recoverable
<1>6. RecordsOK' /\ FlagsOK' /\ StmtOK'
  BY <1>1, <1>3, <1>4 DEF RecordsOK, FlagsOK, StmtOK, InStmt
<1>7. CleanOK'
  BY <1>1, <1>3 DEF Agrees, CleanOK, InStmt
<1>8. KeptOK' /\ DiskOK'
  BY <1>1, <1>3 DEF Agrees, KeptOK, DiskOK, MayBe
<1> QED
  BY <1>5, <1>6, <1>7, <1>8 DEF Agrees

LEMMA BeginStmtAgrees ==
  ASSUME Base, Agrees, BeginStmt
  PROVE  /\ Agrees'
         /\ Recoverable' = Recoverable /\ Current' = Current /\ Mark' = Current
<1>1. /\ UNCHANGED <<file, disk, journal, cache, state, always, pc, todo,
                     world, faults, changes>>
      /\ pc = "ready" /\ journal # None /\ stmt = None
      /\ stmt' # None
      /\ DOMAIN stmt'.recs = {} /\ stmt'.saved = {}
      /\ stmt'.before = DOMAIN journal.recs
  <2>1. NoRecs \in Records /\ DOMAIN NoRecs = {}
    BY DEF NoRecs, Records
  <2>2. journal \in Journals /\ journal.recs \in Records
    BY DEF BeginStmt, InTransaction, Base, PagerTypeOK, Journals
  <2>3. /\ stmt' = [saved |-> {}, recs |-> NoRecs, before |-> DOMAIN journal.recs]
        /\ stmt' \in StmtJournals
    BY <2>1, <2>2, RecordsType DEF BeginStmt, StmtJournals
  <2>4. stmt' # None
    BY <2>3, PagerAssumption
  <2> QED
    BY <2>1, <2>3, <2>4 DEF BeginStmt, InTransaction, files, bounds
<1>2. /\ Seen' = Seen /\ Recovered' = Recovered
      /\ Restored' = Seen
      /\ Undone' = {}
  BY <1>1 DEF Seen, Recovered, Restored, Undone
<1>3. FreeNow' = FreeNow /\ FreeBefore' = FreeBefore /\ FreeAtBegin' = FreeNow
  BY <1>2 DEF FreeNow, FreeBefore, FreeAtBegin
<1>4. /\ Recoverable' = Recoverable /\ Current' = Current
      /\ Mark' = Current
  BY <1>1, <1>2 DEF Current, Mark, Recoverable, AtBegin
<1>5. RecordsOK'
  BY <1>1, <1>3 DEF Agrees, RecordsOK
<1>6. FlagsOK'
  <2>1. \A pg : Flagged(pg)' <=> Flagged(pg)
    BY <1>1 DEF Flagged
  <2> QED
    BY <1>1, <1>3, <2>1 DEF Agrees, FlagsOK, Goes
<1>7. StmtOK'
  BY <1>1, <1>2 DEF StmtOK
<1>8. CleanOK'
  BY <1>1, <1>3 DEF Agrees, CleanOK
<1>9. KeptOK' /\ DiskOK'
  BY <1>1, <1>3 DEF Agrees, KeptOK, DiskOK, MayBe, Goes
<1> QED
  BY <1>4, <1>5, <1>6, <1>7, <1>8, <1>9 DEF Agrees

\* The end of a statement.
LEMMA EndStmtAgrees ==
  ASSUME Base, Agrees, CommitStmt \/ StmtRolledBack
  PROVE  /\ Agrees'
         /\ Recoverable' = Recoverable /\ Current' = Current /\ Mark' = None
         /\ pc = "stmt" => Mark = None
<1>1. /\ UNCHANGED <<file, disk, journal, cache, state, always, todo,
                     world, faults, changes>>
      /\ pc \in {"ready", "stmt"} /\ pc' = "ready" /\ journal # None /\ stmt # None
      /\ stmt' = None
      /\ pc = "stmt" => todo = {}
  BY DEF CommitStmt, StmtRolledBack, InTransaction, files, bounds, Base,
    PlaceOK, PagerTypeOK
<1>2. /\ Seen' = Seen /\ Recovered' = Recovered
  BY <1>1 DEF Seen, Recovered
<1>3. FreeNow' = FreeNow /\ FreeBefore' = FreeBefore
  BY <1>2 DEF FreeNow, FreeBefore
<1>4. pc = "stmt" => Restored = Seen
  <2> SUFFICES ASSUME pc = "stmt" PROVE Restored = Seen
    OBVIOUS
  <2>1. \A pg \in Pages : Restored[pg] = Seen[pg]
    <3>1. \A pg \in Undone : Restored[pg] = Seen[pg]
      BY <1>1 DEF Agrees, StmtOK, InStmt, Goes
    <3>2. \A pg \in Pages \ Undone : Restored[pg] = Seen[pg]
      BY DEF Restored, Undone
    <3> QED
      BY <3>1, <3>2
  <2> QED
    BY <2>1 DEF Restored, Seen
<1>5. /\ Recoverable' = Recoverable /\ Current' = Current /\ Mark' = None
      /\ pc = "stmt" => Mark = None
  BY <1>1, <1>2, <1>4 DEF Current, Mark, Recoverable, AtBegin
<1>6. RecordsOK' /\ StmtOK'
  BY <1>1, <1>3 DEF Agrees, RecordsOK, StmtOK, InStmt
<1>7. FlagsOK'
  <2>1. \A pg : Flagged(pg)' <=> Flagged(pg)
    BY <1>1 DEF Flagged
  <2> QED
    BY <1>1, <1>3, <2>1 DEF Agrees, FlagsOK, Goes
<1>8. CleanOK'
  BY <1>1, <1>3 DEF Agrees, CleanOK, InStmt
<1>9. KeptOK' /\ DiskOK'
  BY <1>1, <1>3 DEF Agrees, KeptOK, DiskOK, MayBe, Goes
<1> QED
  BY <1>5, <1>6, <1>7, <1>8, <1>9 DEF Agrees

LEMMA RollbackStmtAgrees ==
  ASSUME Base, Agrees, RollbackStmt
  PROVE  /\ Agrees'
         /\ Recoverable' = Recoverable /\ Current' = Mark /\ Mark' = None
         /\ Mark = AtBegin
<1>1. /\ UNCHANGED <<file, disk, journal, stmt, cache, state, always,
                     world, faults, changes>>
      /\ pc = "ready" /\ pc' = "stmt" /\ journal # None /\ stmt # None
      /\ todo' = Undone
  BY DEF RollbackStmt, InTransaction, files, memory, bounds, Undone
<1>2. /\ Seen' = Seen /\ Recovered' = Recovered /\ Restored' = Restored
      /\ Undone' = Undone
  BY <1>1 DEF Seen, Recovered, Restored, Undone
<1>3. FreeNow' = FreeNow /\ FreeBefore' = FreeBefore /\ FreeAtBegin' = FreeAtBegin
  BY <1>2 DEF FreeNow, FreeBefore, FreeAtBegin
<1>4. /\ Recoverable' = Recoverable /\ Current' = Mark /\ Mark' = None
      /\ Mark = AtBegin
  BY <1>1, <1>2 DEF Current, Mark, Recoverable, AtBegin
<1>5. RecordsOK'
  BY <1>1, <1>3 DEF Agrees, RecordsOK
<1>6. FlagsOK'
  <2>1. \A pg : Flagged(pg)' <=> Flagged(pg)
    BY <1>1 DEF Flagged
  <2> QED
    BY <1>1, <1>3, <2>1 DEF Agrees, FlagsOK, Goes
<1>7. StmtOK'
  <2>1. \A pg : NeedSync(pg)' <=> NeedSync(pg)
    BY <1>1 DEF NeedSync
  <2> QED
    BY <1>1, <1>2, <1>3, <2>1 DEF Agrees, StmtOK, InStmt, Goes
<1>8. CleanOK'
  BY <1>1, <1>3 DEF Agrees, CleanOK, InStmt, Goes
<1>9. KeptOK' /\ DiskOK'
  BY <1>1, <1>3 DEF Agrees, KeptOK, DiskOK, MayBe, Goes
<1> QED
  BY <1>4, <1>5, <1>6, <1>7, <1>8, <1>9 DEF Agrees

-----------------------------------------------------------------------------
(* The ends of a transaction, rollback and recovery.                       *)

\* Between the transactions: what is cached is in the file or free.
LEMMA ReadyAgrees ==
  ASSUME Base, file' = file, disk' = disk, world' = world,
         journal' = None, stmt' = None, state' # "EXCLUSIVE", pc' = "ready",
         \A pg \in Pages :
           cache'[pg] # None => cache'[pg].data = file[pg] \/ pg \in file[1],
         MayBe("power")' =>
           \A pg \in Pages : disk[pg] = {file[pg]} \/ pg \in file[1]
  PROVE  /\ Agrees'
         /\ Recoverable' = Shown(file) /\ Current' = Shown(file) /\ Mark' = None
<1>1. 1 \notin file[1] /\ 1 \in Pages
  BY WorldTypes, PagerAssumption DEF Base, PagerTypeOK, Proper
<1>2. /\ Recovered'[1] = file[1]
      /\ \A pg \in Data : Recovered'[pg] = file[pg]
      /\ Seen'[1] = file[1]
      /\ \A pg \in Data : Seen'[pg] = file[pg] \/ pg \in file[1]
  BY <1>1 DEF Recovered, Seen, Pages
<1>3. FreeBefore' = file[1] /\ FreeNow' = file[1]
  BY <1>2 DEF FreeBefore, FreeNow
<1>4. Shown(Recovered') = Shown(file) /\ Shown(Seen') = Shown(file)
  <2> HIDE DEF Recovered, Seen
  <2> QED
    BY <1>2 DEF Shown
<1>5. Recoverable' = Shown(file) /\ Current' = Shown(file) /\ Mark' = None
  BY <1>4 DEF Recoverable, Current, Mark
<1>6. RecordsOK' /\ FlagsOK' /\ StmtOK' /\ KeptOK'
  BY DEF RecordsOK, FlagsOK, StmtOK, InStmt, KeptOK
<1>7. CleanOK'
  BY <1>3 DEF CleanOK, InStmt
<1>8. DiskOK'
  BY <1>3 DEF DiskOK
<1> QED
  BY <1>5, <1>6, <1>7, <1>8 DEF Agrees

LEMMA Unwritten ==
  ASSUME NEW c \in [Pages -> PgHdr \union {None}], Unwritelock(c)
  PROVE  /\ journal' = None /\ stmt' = None /\ state' = "SHARED" /\ pc' = "ready"
         /\ \A pg \in Pages : cache'[pg] # None =>
              c[pg] # None /\ cache'[pg].data = c[pg].data
BY DEF Unwritelock, PgHdr

\* What is seen when nothing is dirty and what is free is so in the file.
LEMMA CleanSeen ==
  ASSUME Base, CleanOK, pc \notin {"down", "undo"},
         \A pg \in Pages : cache[pg] = None \/ ~cache[pg].dirty
  PROVE  /\ Seen[1] = file[1]
         /\ \A pg \in Pages : Seen[pg] = file[pg] \/ pg \in file[1]
         /\ Shown(Seen) = Shown(file)
<1>1. 1 \notin FreeNow /\ 1 \in Pages
  BY FreeTypes
<1>2. \A pg \in Pages : Seen[pg] = file[pg] \/ pg \in FreeNow
  BY CleanPage
<1>3. Seen[1] = file[1]
  BY <1>1, <1>2
<1>4. \A pg \in Pages : Seen[pg] = file[pg] \/ pg \in file[1]
  BY <1>2, <1>3 DEF FreeNow
<1>5. Shown(Seen) = Shown(file)
  <2> HIDE DEF Seen
  <2> QED
    BY <1>3, <1>4 DEF Shown, Pages
<1> QED
  BY <1>3, <1>4, <1>5

LEMMA EndEmptyAgrees ==
  ASSUME Base, Agrees, EndEmpty
  PROVE  /\ Agrees'
         /\ Recoverable' = Recoverable /\ Current' = Current /\ Mark' = None
<1>1. /\ PagerTypeOK /\ pc = "ready" /\ journal # None
      /\ journal.saved = {} /\ DOMAIN journal.recs = {} /\ journal.synced = {}
      /\ Unwritelock(cache) /\ cache \in [Pages -> PgHdr \union {None}]
      /\ file' = file /\ disk' = disk /\ world' = world /\ faults' = faults
  BY DEF EndEmpty, InTransaction, Base, PagerTypeOK, bounds
<1>2. \A pg \in Pages : cache[pg] = None \/ ~cache[pg].dirty
  BY <1>1 DEF PagerTypeOK
<1>3. /\ \A pg \in Pages : Seen[pg] = file[pg] \/ pg \in file[1]
      /\ Shown(Seen) = Shown(file)
  BY <1>1, <1>2, CleanSeen DEF Agrees
<1>4. Recovered = [pg \in Pages |-> file[pg]] /\ 1 \in Pages
  BY <1>1, FreeTypes DEF Recovered
<1>5. FreeBefore = file[1] /\ Shown(Recovered) = Shown(file)
  BY <1>4 DEF FreeBefore, Shown, Pages
<1>6. Recoverable = Shown(file) /\ Current = Shown(file)
  BY <1>1, <1>3, <1>5 DEF Recoverable, Current
<1>7. MayBe("power")' =>
        \A pg \in Pages : disk[pg] = {file[pg]} \/ pg \in file[1]
  BY <1>1, <1>5 DEF MayBe, Agrees, DiskOK
<1>8. \A pg \in Pages :
        cache'[pg] # None => cache'[pg].data = file[pg] \/ pg \in file[1]
  BY <1>1, <1>3, Unwritten DEF Seen
<1> QED
  BY <1>1, <1>6, <1>7, <1>8, Unwritten, ReadyAgrees

\* After a fault there is no power failure any more.
LEMMA PowerOnce ==
  ASSUME PagerTypeOK, Orderly, faults # 0
  PROVE  ~MayBe("power")
BY WorldTypes DEF Orderly, MayBe

\* The commit, and the end of a rollback.
LEMMA DropCommits ==
  ASSUME Base, Agrees, DropJournal, pc = "synced"
  PROVE  /\ Agrees'
         /\ Recoverable' = Current /\ Current' = Current /\ Mark' = None
<1>1. /\ PagerTypeOK /\ journal # None /\ todo = {}
      /\ Unwritelock(cache) /\ cache \in [Pages -> PgHdr \union {None}]
      /\ file' = file /\ disk' = disk /\ world' = world
      /\ \A pg \in Pages : disk[pg] = {file[pg]}
      /\ \A pg \in Pages : cache[pg] = None \/ ~cache[pg].dirty
  BY DEF DropJournal, Base, PagerTypeOK, PlaceOK, bounds
<1>2. /\ \A pg \in Pages : Seen[pg] = file[pg] \/ pg \in file[1]
      /\ Shown(Seen) = Shown(file)
  BY <1>1, CleanSeen DEF Agrees
<1>3. Current = Shown(file)
  BY <1>2 DEF Current
<1>4. \A pg \in Pages :
        cache'[pg] # None => cache'[pg].data = file[pg] \/ pg \in file[1]
  BY <1>1, <1>2, Unwritten DEF Seen
<1> QED
  BY <1>1, <1>3, <1>4, Unwritten, ReadyAgrees

LEMMA DropUndoes ==
  ASSUME Base, Agrees, Orderly, DropJournal, pc = "undo"
  PROVE  Agrees' /\ Silent
<1> DEFINE c == IF world.cursors THEN cache ELSE Uncached
<1>1. /\ PagerTypeOK /\ journal # None /\ todo = {} /\ faults # 0
      /\ Unwritelock(c) /\ c \in [Pages -> PgHdr \union {None}]
      /\ file' = file /\ disk' = disk /\ world' = world /\ faults' = faults
      /\ \A pg \in journal.synced : file[pg] = journal.recs[pg]
      /\ \A pg \in Pages : c[pg] # None => c[pg].data = file[pg]
  <2>1. /\ PagerTypeOK /\ journal # None /\ todo = {} /\ faults # 0
        /\ Unwritelock(c)
        /\ file' = file /\ disk' = disk /\ world' = world /\ faults' = faults
    BY DEF DropJournal, Base, PlaceOK, bounds
  <2>2. \A pg \in journal.synced : file[pg] = journal.recs[pg]
    BY <2>1 DEF Agrees, RecordsOK
  <2>3. c \in [Pages -> PgHdr \union {None}]
    BY <2>1 DEF PagerTypeOK, Uncached
  <2>4. \A pg \in Pages : c[pg] # None => c[pg].data = file[pg]
    BY <2>1 DEF Agrees, KeptOK, Uncached
  <2> QED
    BY <2>1, <2>2, <2>3, <2>4
<1> HIDE DEF c
<1>2. Recovered = [pg \in Pages |-> file[pg]] /\ 1 \in Pages
  BY <1>1, FreeTypes DEF Recovered
<1>3. Recoverable = Shown(file)
  BY <1>2 DEF Recoverable, Shown, Pages
<1>4. Current = Shown(file) /\ Mark = None
  BY <1>3 DEF Current, Mark
<1>5. ~MayBe("power")'
  BY <1>1, PowerOnce DEF MayBe
<1>6. \A pg \in Pages :
        cache'[pg] # None => cache'[pg].data = file[pg] \/ pg \in file[1]
  BY <1>1, Unwritten
<1> QED
  BY <1>1, <1>3, <1>4, <1>5, <1>6, Unwritten, ReadyAgrees DEF Silent

LEMMA ResetAgrees ==
  ASSUME Base, Agrees, Reset
  PROVE  Agrees' /\ Silent
<1>1. /\ PagerTypeOK /\ pc = "ready" /\ journal = None /\ stmt = None
      /\ state # "EXCLUSIVE" /\ cache' = Uncached
      /\ UNCHANGED <<file, disk, journal, stmt, state, pc, world, faults>>
      /\ \A pg \in Pages : cache[pg] = None \/ ~cache[pg].dirty
  BY DEF Reset, files, bounds, Base, PagerTypeOK, PlaceOK
<1>2. Shown(Seen) = Shown(file)
  BY <1>1, CleanSeen DEF Agrees
<1>3. Recovered = [pg \in Pages |-> file[pg]] /\ 1 \in Pages
  BY <1>1, FreeTypes DEF Recovered
<1>4. FreeBefore = file[1] /\ Shown(Recovered) = Shown(file)
  BY <1>3 DEF FreeBefore, Shown, Pages
<1>5. Recoverable = Shown(file) /\ Current = Shown(file) /\ Mark = None
  BY <1>1, <1>2, <1>4 DEF Recoverable, Current, Mark
<1>6. MayBe("power")' =>
        \A pg \in Pages : disk[pg] = {file[pg]} \/ pg \in file[1]
  BY <1>1, <1>4 DEF MayBe, Agrees, DiskOK
<1>7. \A pg \in Pages : cache'[pg] = None
  BY <1>1 DEF Uncached
<1> QED
  BY <1>1, <1>5, <1>6, <1>7, ReadyAgrees DEF Silent

\* Before anything is written to the file it is what a recovery would find.
LEMMA ReloadAgrees ==
  ASSUME Base, Agrees, Orderly, Reload
  PROVE  /\ Agrees'
         /\ Recoverable' = Recoverable /\ Current' = Recoverable /\ Mark' = None
<1> DEFINE c == IF world.cursors THEN Reloaded ELSE Uncached
<1>1. /\ PagerTypeOK /\ pc = "ready" /\ journal # None /\ state = "RESERVED"
      /\ file' = file /\ disk' = disk /\ world' = world /\ faults' = faults + 1
      /\ Unwritelock(c) /\ faults \in Nat
      /\ 1 \notin FreeBefore /\ 1 \in Pages
  BY WorldTypes, FreeTypes DEF Base, Reload, InTransaction, Fault
<1>2. c \in [Pages -> PgHdr \union {None}]
  <2>1. \A pg \in Pages : cache[pg] # None /\ cache[pg].dirty =>
          [cache[pg] EXCEPT !.data = file[pg]] \in PgHdr
    BY <1>1 DEF PagerTypeOK, PgHdr
  <2> QED
    BY <1>1, <2>1 DEF Reloaded, Uncached, PagerTypeOK
<1>3. \A pg \in Pages : c[pg] # None => c[pg].data = file[pg]
  <2> SUFFICES ASSUME NEW pg \in Pages, c[pg] # None
               PROVE  c[pg].data = file[pg]
    OBVIOUS
  <2>1. world.cursors /\ c[pg] = Reloaded[pg]
    BY DEF Uncached
  <2>2. FreeNow = {}
    BY <2>1, FreeTypes DEF Orderly
  <2>3. CASE cache[pg] # None /\ cache[pg].dirty
    <3>1. cache[pg] \in PgHdr
      BY <1>1, <2>3 DEF PagerTypeOK
    <3>2. c[pg] = [cache[pg] EXCEPT !.data = file[pg]]
      BY <2>1, <2>3 DEF Reloaded
    <3> QED
      BY <3>1, <3>2 DEF PgHdr
  <2>4. CASE ~(cache[pg] # None /\ cache[pg].dirty)
    <3>1. c[pg] = cache[pg]
      BY <2>1, <2>4 DEF Reloaded
    <3> QED
      BY <1>1, <2>2, <2>4, <3>1 DEF Agrees, CleanOK
  <2> QED
    BY <2>3, <2>4
<1> HIDE DEF c
<1>4. \A pg \in Pages : Recovered[pg] = file[pg] \/ pg \in FreeBefore
  BY <1>1 DEF Agrees, RecordsOK, Recovered, PagerTypeOK
<1>5. Recoverable = Shown(file)
  <2>1. Recovered[1] = file[1]
    BY <1>1, <1>4
  <2>2. Shown(Recovered) = Shown(file)
    <3> HIDE DEF Recovered
    <3> QED
      BY <1>4, <2>1, ShownSame DEF FreeBefore, Pages
  <2> QED
    BY <2>2 DEF Recoverable
<1>6. ~MayBe("power")'
  <2>1. faults' # 0 /\ faults' \in Nat
    BY <1>1
  <2> QED
    BY <1>1, <2>1, WorldTypes DEF Orderly, MayBe
<1>7. \A pg \in Pages :
        cache'[pg] # None => cache'[pg].data = file[pg] \/ pg \in file[1]
  BY <1>1, <1>2, <1>3, Unwritten
<1> QED
  BY <1>1, <1>2, <1>5, <1>6, <1>7, Unwritten, ReadyAgrees

\* The states in which a recovery is to do.
LEMMA FaultAgrees ==
  ASSUME Base, Agrees, Orderly, Rollback \/ Kill
  PROVE  /\ Agrees'
         /\ Recoverable' = Recoverable /\ Current' = Recoverable /\ Mark' = None
<1>1. /\ PagerTypeOK /\ UNCHANGED <<file, disk, journal, world>>
      /\ faults' = faults + 1 /\ faults \in Nat
      /\ pc' \in {"undo", "down"} /\ state' # "RESERVED"
      /\ pc' = "undo" => Rollback
      /\ pc' = "down" => cache' = Uncached /\ stmt' = None
  BY WorldTypes DEF Base, Rollback, Kill, Fault, files, memory, Stop, Playback
<1>2. Recovered' = Recovered
  BY <1>1 DEF Recovered
<1>3. FreeBefore' = FreeBefore
  BY <1>2 DEF FreeBefore
<1>4. Recoverable' = Recoverable /\ Current' = Recoverable /\ Mark' = None
  BY <1>1, <1>2 DEF Recoverable, Current, Mark
<1>5. RecordsOK'
  BY <1>1, <1>3 DEF Agrees, RecordsOK, Rollback, Playback
<1>6. FlagsOK' /\ StmtOK' /\ CleanOK'
  BY <1>1 DEF FlagsOK, StmtOK, InStmt, Goes, CleanOK
<1>7. KeptOK'
  <2> SUFFICES ASSUME world.cursors, pc' = "undo", NEW pg \in Pages,
                      cache'[pg] # None
               PROVE  IF cache'[pg].dirty THEN pg \in todo'
                      ELSE cache'[pg].data = file'[pg]
    BY <1>1 DEF KeptOK, Goes
  <2>1. /\ pc = "commit" /\ cache' = cache /\ todo' = journal.synced
        /\ journal # None
    BY <1>1 DEF Rollback, Playback, memory, Agrees, KeptOK, Goes, InTransaction,
      Base, PlaceOK
  <2>2. FreeBefore = {} /\ FreeNow = {}
    BY FreeTypes DEF Orderly
  <2>3. cache[pg].dirty => pg \in journal.synced
    BY <1>1, <2>1, <2>2 DEF Base, PlaceOK, PagerTypeOK, Agrees, RecordsOK
  <2>4. ~cache[pg].dirty => cache[pg].data = file[pg]
    BY <2>1, <2>2 DEF Agrees, CleanOK
  <2> QED
    BY <1>1, <2>1, <2>3, <2>4
<1>8. DiskOK'
  <2>1. faults' # 0 /\ faults' \in Nat
    BY <1>1
  <2>2. ~MayBe("power")'
    BY <1>1, <2>1, WorldTypes DEF Orderly, MayBe
  <2> QED
    BY <2>2 DEF DiskOK
<1> QED
  BY <1>4, <1>5, <1>6, <1>7, <1>8 DEF Agrees

\* What the power failure takes is in the journal, or free.
LEMMA PowerAgrees ==
  ASSUME Base, Agrees, PowerFailure
  PROVE  /\ Agrees'
         /\ Recoverable' = Recoverable /\ Current' = Recoverable /\ Mark' = None
<1>1. /\ PagerTypeOK /\ world' = world
      /\ cache' = Uncached /\ stmt' = None /\ state' = "UNLOCK" /\ pc' = "down"
      /\ MayBe("power")
      /\ 1 \notin FreeBefore /\ 1 \in Pages
  BY FreeTypes DEF Base, PowerFailure, Fault, Stop
<1>2. /\ disk' = [pg \in Pages |-> {file'[pg]}]
      /\ \A pg \in Pages : file'[pg] \in disk[pg]
  BY <1>1, PowerFile
<1>3. \A pg \in Pages : \/ file'[pg] = file[pg]
                        \/ pg \in FreeBefore
                        \/ journal # None /\ pg \in journal.synced
  BY <1>1, <1>2 DEF Agrees, DiskOK
<1>4. /\ journal' # None => /\ journal # None /\ journal'.synced = journal.synced
                            /\ DOMAIN journal'.recs = journal.synced
                            /\ \A pg \in journal.synced :
                                 journal'.recs[pg] = journal.recs[pg]
      /\ journal' = None => journal = None \/ journal.synced = {}
  BY <1>1, PowerJournal
<1>5. \A pg \in Pages : Recovered'[pg] = Recovered[pg] \/ pg \in FreeBefore
  <2>1. CASE journal' = None
    BY <1>3, <1>4, <2>1 DEF Recovered
  <2>2. CASE journal' # None
    BY <1>3, <1>4, <2>2 DEF Recovered
  <2> QED
    BY <2>1, <2>2
<1>6. FreeBefore' = FreeBefore
  BY <1>1, <1>5 DEF FreeBefore
<1>7. Recoverable' = Recoverable
  <2>1. Shown(Recovered') = Shown(Recovered)
    <3> HIDE DEF Recovered
    <3> QED
      BY <1>5, <1>6, ShownSame DEF FreeBefore, Pages
  <2> QED
    BY <2>1 DEF Recoverable
<1>8. Current' = Recoverable /\ Mark' = None
  BY <1>1, <1>7 DEF Current, Mark
<1>9. RecordsOK'
  BY <1>1, <1>4 DEF RecordsOK
<1>10. FlagsOK' /\ StmtOK' /\ CleanOK' /\ KeptOK'
  BY <1>1 DEF FlagsOK, StmtOK, InStmt, Goes, CleanOK, KeptOK
<1>11. DiskOK'
  BY <1>2 DEF DiskOK
<1> QED
  BY <1>7, <1>8, <1>9, <1>10, <1>11 DEF Agrees

LEMMA OpenAgrees ==
  ASSUME Base, Agrees, Orderly, Open
  PROVE  Agrees' /\ Silent
<1>1. /\ PagerTypeOK /\ pc = "down" /\ cache = Uncached /\ stmt = None
      /\ UNCHANGED <<file, disk, journal, stmt, cache, world, faults>>
      /\ faults # 0
      /\ \A pg \in Pages : cache[pg] = None
  BY DEF Open, files, bounds, Base, PlaceOK, Uncached
<1>2. ~MayBe("power") /\ ~MayBe("power")'
  BY <1>1, PowerOnce DEF MayBe
<1>3. CASE journal = None
  <2>1. Recovered = [pg \in Pages |-> file[pg]] /\ 1 \in Pages
    BY <1>3, FreeTypes DEF Recovered
  <2>2. Recoverable = Shown(file)
    BY <2>1 DEF Recoverable, Shown, Pages
  <2>3. Current = Shown(file) /\ Mark = None
    BY <1>1, <2>2 DEF Current, Mark
  <2>4. state' # "EXCLUSIVE" /\ pc' = "ready"
    BY <1>3 DEF Open
  <2> QED
    BY <1>1, <1>2, <1>3, <2>2, <2>3, <2>4, ReadyAgrees DEF Silent
<1>4. CASE journal # None
  <2>1. pc' = "undo" /\ state' = "EXCLUSIVE" /\ todo' = journal.synced
    BY <1>4 DEF Open, Playback
  <2>2. Recovered' = Recovered
    BY <1>1 DEF Recovered
  <2>3. FreeBefore' = FreeBefore
    BY <2>2 DEF FreeBefore
  <2>4. Silent
    BY <1>1, <2>1, <2>2 DEF Silent, Current, Mark, Recoverable
  <2>5. RecordsOK'
    BY <1>1, <2>1, <2>3 DEF Agrees, RecordsOK
  <2>6. FlagsOK' /\ StmtOK' /\ CleanOK' /\ KeptOK' /\ DiskOK'
    BY <1>1, <1>2, <2>1 DEF FlagsOK, StmtOK, InStmt, Goes, CleanOK, KeptOK, DiskOK
  <2> QED
    BY <2>4, <2>5, <2>6 DEF Agrees
<1> QED
  BY <1>3, <1>4

\* The first state.
LEMMA InitAgrees == Init => Agrees /\ Abstract!Init
<1> SUFFICES ASSUME Init PROVE Agrees /\ Abstract!Init
  OBVIOUS
<1>1. /\ Base /\ journal = None /\ stmt = None /\ pc = "ready" /\ state = "SHARED"
      /\ \A pg \in Pages : cache[pg] = None /\ disk[pg] = {file[pg]}
      /\ 1 \in Pages
  BY InitBase, WorldTypes DEF Init, Uncached, Base
<1>2. Agrees
  BY <1>1 DEF Agrees, RecordsOK, FlagsOK, StmtOK, CleanOK, KeptOK, DiskOK, InStmt
<1>3. /\ \A pg \in Data : Recovered[pg] = file[pg] /\ Seen[pg] = file[pg]
      /\ Recovered[1] = file[1] /\ Seen[1] = file[1]
  BY <1>1 DEF Recovered, Seen, Pages
<1>4. Recoverable = Shown(file) /\ Shown(Seen) = Shown(file)
  <2> HIDE DEF Recovered, Seen
  <2> QED
    BY <1>3 DEF Recoverable, Shown
<1>5. Shown(file) \in [Data -> Values \union {None}]
  <2>1. \A pg \in Data : file[pg] \in Values
    BY <1>1, PagerAssumption DEF Base, PagerTypeOK, Proper, Pages
  <2> QED
    BY <2>1 DEF Shown
<1> QED
  BY <1>1, <1>2, <1>4, <1>5 DEF Abstract!Init, Abstract!Contents

-----------------------------------------------------------------------------
(* The theorems.                                                           *)

\* What a step is for Transactions.
Step ==
  \/ Silent
  \/ /\ Recoverable' = Recoverable
     /\ \/ /\ \E pg \in Data, v \in Values \union {None} :
                Current' = [Current EXCEPT ![pg] = v]
           /\ Mark' = Mark
        \/ Current' = Current /\ Mark' = Current
        \/ Mark # None /\ Current' = Mark /\ Mark' = None
        \/ Current' = Current /\ Mark' = None
        \/ Current' = Recoverable /\ Mark' = None
  \/ /\ pc = "synced"
     /\ Recoverable' = Current /\ Current' = Current /\ Mark' = None

\* A change of a page.
LEMMA WriteStep ==
  ASSUME Base, InTransaction, pc' = pc, NEW pg \in Data,
         NEW v \in Values \union {None},
         Recoverable' = Recoverable,
         stmt = None => stmt' = None,
         stmt # None => stmt' # None /\ AtBegin' = AtBegin,
         Shown(Seen)' = [Shown(Seen) EXCEPT ![pg] = v]
  PROVE  Step
<1>1. Current' = [Current EXCEPT ![pg] = v]
  BY DEF Current, InTransaction
<1>2. Mark' = Mark
  BY DEF Mark, InTransaction
<1> QED
  BY <1>1, <1>2 DEF Step

LEMMA ChangeAgrees ==
  ASSUME Base, Agrees,
         \/ \E pg \in Data, v \in Values : Update(pg, v)
         \/ \E pg \in world.leaves : Free(pg) \/ \E v \in Values : Allocate(pg, v)
  PROVE  Agrees' /\ Step
<1>1. ASSUME NEW pg \in Data, NEW v \in Values, Update(pg, v)
      PROVE  Agrees' /\ Step
  BY <1>1, UpdateAgrees, WriteStep DEF Update
<1>2. world.leaves \subseteq Data
  BY WorldTypes DEF Base
<1>3. ASSUME NEW pg \in world.leaves, Free(pg)
      PROVE  Agrees' /\ Step
  <2>1. /\ Agrees'
        /\ Recoverable' = Recoverable
        /\ stmt = None => stmt' = None
        /\ stmt # None => stmt' # None /\ AtBegin' = AtBegin
        /\ Shown(Seen)' = [Shown(Seen) EXCEPT ![pg] = None]
    BY <1>3, FreeAgrees
  <2>2. InTransaction /\ pc' = pc /\ pg \in Data /\ None \in Values \union {None}
    BY <1>2, <1>3 DEF Free
  <2> QED
    BY <2>1, <2>2, WriteStep
<1>4. ASSUME NEW pg \in world.leaves, NEW v \in Values, Allocate(pg, v)
      PROVE  Agrees' /\ Step
  BY <1>2, <1>4, AllocateAgrees, WriteStep DEF Allocate
<1> QED
  BY <1>1, <1>3, <1>4

\* What is seen when the statement is rolled back is the content of pages.
LEMMA MarkType ==
  ASSUME PagerTypeOK, stmt # None
  PROVE  AtBegin # None
<1>1. journal # None /\ Proper(Seen) /\ Proper(journal.recs) /\ Proper(stmt.recs)
  BY DEF PagerTypeOK
<1>2. \A pg \in Data : Restored[pg] \in Values
  BY <1>1, PagerAssumption DEF Restored, Proper, Pages, Seen
<1>3. AtBegin \in [Data -> Values \union {None}]
  <2> HIDE DEF Restored
  <2> QED
    BY <1>2 DEF AtBegin, Shown
<1> QED
  BY <1>3, PagerAssumption

LEMMA NextAgrees ==
  ASSUME Base, Agrees, Orderly, Next
  PROVE  Agrees' /\ Step
<1> USE DEF Next
<1>1. CASE \E pg \in Pages : Get(pg) \/ WritePage(pg) \/ PlaybackPage(pg)
  BY <1>1, GetAgrees, WritePageAgrees, PlaybackAgrees DEF Step
<1>2. CASE \/ \E pg \in Data, v \in Values : Update(pg, v)
           \/ \E pg \in world.leaves :
                Free(pg) \/ \E v \in Values : Allocate(pg, v)
  BY <1>2, ChangeAgrees
<1>3. CASE \E pg \in world.spilled : Recycle(pg)
  BY <1>3, RecycleAgrees DEF Step
<1>4. CASE Begin \/ Commit \/ SyncFile \/ Reset \/ Open
  BY <1>4, BeginAgrees, CommitAgrees, SyncFileAgrees, ResetAgrees, OpenAgrees
    DEF Step
<1>5. CASE DropJournal
  <2>1. CASE pc = "synced"
    BY <1>5, <2>1, DropCommits DEF Step
  <2>2. CASE pc = "undo"
    BY <1>5, <2>2, DropUndoes DEF Step
  <2> QED
    BY <1>5, <2>1, <2>2 DEF DropJournal
<1>6. CASE EndEmpty
  BY <1>6, EndEmptyAgrees DEF Step
<1>7. CASE Reload \/ Rollback \/ Kill \/ PowerFailure
  BY <1>7, ReloadAgrees, FaultAgrees, PowerAgrees DEF Step
<1>8. CASE BeginStmt
  BY <1>8, BeginStmtAgrees DEF Step
<1>9. CASE CommitStmt \/ StmtRolledBack
  BY <1>9, EndStmtAgrees DEF Step
<1>10. CASE RollbackStmt
  <2>1. Mark # None
    BY <1>10, RollbackStmtAgrees, MarkType DEF RollbackStmt, Base
  <2> QED
    BY <1>10, <2>1, RollbackStmtAgrees DEF Step
<1> QED
  BY <1>1, <1>2, <1>3, <1>4, <1>5, <1>6, <1>7, <1>8, <1>9, <1>10

\* The circumstances do not change.
LEMMA OrderlyKept ==
  ASSUME Next \/ UNCHANGED vars
  PROVE  Orderly' <=> Orderly
<1>1. world' = world
  BY DEF Next, vars, bounds, Get, WritePage, PlaybackPage, Update, Free, Allocate,
    Change, Fault, Recycle, Begin, Commit, SyncFile, DropJournal, EndEmpty, Reset,
    Reload, Rollback, BeginStmt, CommitStmt, RollbackStmt, StmtRolledBack, Kill,
    PowerFailure, Open
<1> QED
  BY <1>1 DEF Orderly

LEMMA StutterAgrees == Agrees /\ UNCHANGED vars => Agrees'
<1> SUFFICES ASSUME Agrees, UNCHANGED vars PROVE Agrees'
  OBVIOUS
<1>1. /\ UNCHANGED <<world, file, disk, journal, stmt, cache, state, always, pc,
                     todo, faults>>
  BY DEF vars, files, memory, bounds
<1>2. Recovered' = Recovered /\ Seen' = Seen /\ Restored' = Restored
  BY <1>1 DEF Recovered, Seen, Restored
<1>3. /\ FreeBefore' = FreeBefore /\ FreeNow' = FreeNow /\ FreeAtBegin' = FreeAtBegin
      /\ Undone' = Undone /\ (Goes' <=> Goes) /\ (InStmt' <=> InStmt)
      /\ \A pg : (Flagged(pg)' <=> Flagged(pg)) /\ (NeedSync(pg)' <=> NeedSync(pg))
      /\ \A f : MayBe(f)' <=> MayBe(f)
  BY <1>1, <1>2 DEF FreeBefore, FreeNow, FreeAtBegin, Undone, Goes, InStmt,
    Flagged, NeedSync, MayBe
<1>4. RecordsOK' /\ FlagsOK'
  BY <1>1, <1>3 DEF Agrees, RecordsOK, FlagsOK
<1>5. StmtOK' /\ CleanOK'
  BY <1>1, <1>2, <1>3 DEF Agrees, StmtOK, CleanOK
<1>6. KeptOK' /\ DiskOK'
  BY <1>1, <1>3 DEF Agrees, KeptOK, DiskOK
<1> QED
  BY <1>4, <1>5, <1>6 DEF Agrees

LEMMA PInvInductive == PInv /\ [Next]_vars => PInv'
<1>1. ASSUME PInv, Next PROVE PInv'
  BY <1>1, NextBase, NextAgrees, OrderlyKept DEF PInv
<1>2. ASSUME PInv, UNCHANGED vars PROVE PInv'
  BY <1>2, StutterBase, StutterAgrees, OrderlyKept DEF PInv
<1> QED
  BY <1>1, <1>2

LEMMA PInvHolds == Spec => []PInv
<1>1. Init => PInv
  BY InitBase, InitAgrees DEF PInv
<1> QED
  BY <1>1, PInvInductive, PTL DEF Spec

(* The flags of the pages agree with the journal, and between the          *)
(* transactions the cache holds what the file does, also after a rollback  *)
(* under a cursor (pager.c:3123).                                          *)
THEOREM CacheIsRight == Spec => []CacheAgrees
<1>1. PInv => CacheAgrees
  <2> SUFFICES ASSUME PInv PROVE CacheAgrees
    OBVIOUS
  <2>1. PagerTypeOK
    BY DEF PInv, Base
  <2>2. ASSUME Orderly, pc = "ready", journal = None,
               NEW pg \in Pages \ (file[1] \ {1}), cache[pg] # None
        PROVE  cache[pg].data = file[pg]
    <3>1. Base /\ CleanOK
      BY <2>2 DEF PInv, Agrees
    <3>2. \A q \in Pages : cache[q] = None \/ ~cache[q].dirty
      BY <2>1, <2>2 DEF PagerTypeOK
    <3>3. Seen[1] = file[1] /\ (Seen[pg] = file[pg] \/ pg \in file[1])
      BY <2>2, <3>1, <3>2, CleanSeen
    <3>4. Seen[pg] = cache[pg].data
      BY <2>2 DEF Seen
    <3> QED
      BY <2>2, <3>3, <3>4
  <2> QED
    BY <2>1, <2>2 DEF CacheAgrees
<1> QED
  BY <1>1, PInvHolds, PTL

\* A step of the pager is a step of Transactions, or changes nothing there.
LEMMA StepRefines ==
  ASSUME PInv, Orderly, [Next]_vars
  PROVE  /\ [Abstract!Next]_Abstract!vars
         /\ [Recoverable' # Recoverable => pc = "synced"]_vars
<1>1. CASE Next
  <2>1. Step
    BY <1>1, NextAgrees DEF PInv
  <2>2. Recoverable' # Recoverable => pc = "synced"
    BY <2>1 DEF Step, Silent
  <2>3. [Abstract!Next]_Abstract!vars
    <3> HIDE DEF Recoverable, AtBegin, Seen
    <3> QED
      BY <2>1 DEF Step, Silent, Current, Mark, Abstract!Next, Abstract!vars,
        Abstract!Write, Abstract!BeginStmt, Abstract!RollbackStmt,
        Abstract!CommitStmt, Abstract!Commit, Abstract!Rollback
  <2> QED
    BY <2>2, <2>3
<1>2. CASE UNCHANGED vars
  <2>1. UNCHANGED <<file, journal, stmt, cache, pc>>
    BY <1>2 DEF vars, files, memory
  <2>2. Recovered' = Recovered /\ Seen' = Seen /\ Restored' = Restored
    BY <2>1 DEF Recovered, Seen, Restored
  <2>3. Recoverable' = Recoverable /\ AtBegin' = AtBegin /\ Shown(Seen)' = Shown(Seen)
    BY <2>2 DEF Recoverable, AtBegin
  <2>4. UNCHANGED Abstract!vars
    <3> HIDE DEF Recoverable, AtBegin, Seen
    <3> QED
      BY <2>1, <2>3 DEF Abstract!vars
  <2> QED
    BY <1>2, <2>4
<1> QED
  BY <1>1, <1>2

(* No step breaks the atomicity of the transactions and of the statements  *)
(* in them, and only the deletion of the journal at the end of a commit    *)
(* changes what a recovery would find ("implements atomic commit and       *)
(* rollback", pager.c:14-16).                                              *)
THEOREM PagerIsAtomic == Spec => TransactionsAreAtomic
<1>1. PInv /\ [Next]_vars =>
        [Orderly => /\ [Abstract!Next]_Abstract!vars
                    /\ Recoverable' # Recoverable => pc = "synced"]_vars
  BY StepRefines
<1> QED
  BY <1>1, PInvHolds, PTL DEF Spec, TransactionsAreAtomic

(* The pager implements Transactions in every orderly world: it starts as  *)
(* a file does between two transactions, and each of its steps is a step   *)
(* of a file with atomic transactions and statements, or changes nothing   *)
(* that can be seen or recovered.                                          *)
THEOREM PagerImplementsTransactions == Spec /\ Orderly => Abstract!Spec
<1>1. Init => Abstract!Init
  BY InitAgrees
<1>2. Orderly /\ [Next]_vars => Orderly'
  BY OrderlyKept
<1>3. PInv /\ Orderly /\ [Next]_vars => [Abstract!Next]_Abstract!vars
  BY StepRefines
<1> QED
  BY <1>1, <1>2, <1>3, PInvHolds, PTL DEF Spec, Abstract!Spec
=============================================================================
