-------------------------- MODULE Processes_proofs --------------------------
(***************************************************************************)
(* Proofs about three protocols of several agents: processes on one        *)
(* database file (PagerLocks), for any number of processes, pages, kills   *)
(* and failing writes; the databases of one application that replace one   *)
(* another (DatabaseSwitch), for any number of databases; and the test and *)
(* the application it started (Tester), for any script.                    *)
(***************************************************************************)
EXTENDS PagerLocks, DatabaseSwitch, Tester, FiniteSetTheorems,
        SequenceTheorems, WellFoundedInduction, TLAPS

-----------------------------------------------------------------------------
(* Processes that share a database file.                                   *)

(* The places of a transaction: what it holds grows from one to the next.  *)
Before  == {"idle", "getShared", "dropPending"}
Finding == {"exists", "probe", "endProbe", "yield", "seize", "open"}
Ready   == {"dirty", "pend", "upgrade", "write"}
Ending  == {"unlock", "relock"}

(* What the pager of p believes to hold.                                   *)
StateIs(p) ==
  /\ pc[p] \in {"getShared", "dropPending"} => state[p] = "UNLOCK"
  /\ pc[p] = "idle" => state[p] \in {"UNLOCK", "SHARED"}
  /\ pc[p] \in {"exists", "probe", "endProbe", "yield", "seize", "reading",
                "release"} => state[p] = "SHARED"
  /\ pc[p] \in {"create", "dirty", "pend", "upgrade"} => state[p] = "RESERVED"
  /\ pc[p] \in {"open", "write", "relock"} => state[p] = "EXCLUSIVE"
  /\ pc[p] \in {"undo", "unlock"} =>
       state[p] = IF exclusive = p THEN "EXCLUSIVE" ELSE "RESERVED"

(* What it really holds.                                                   *)
PendingIs(p) ==
  /\ pc[p] \in {"getShared", "dropPending", "upgrade", "write"} => pending = p
  /\ pending = p => pc[p] \in {"getShared", "dropPending", "upgrade", "write",
                               "undo", "unlock", "relock"}

ReservedIs(p) ==
  /\ pc[p] \in {"endProbe", "create"} \union Ready => reserved = p
  /\ pc[p] \in {"undo", "unlock"} /\ exclusive # p => reserved = p
  /\ reserved = p =>
       pc[p] \in {"endProbe", "create", "undo"} \union Ready \union Ending

ExclusiveIs(p) ==
  /\ pc[p] \in {"open", "write"} => exclusive = p
  /\ exclusive = p => pc[p] \in {"open", "write", "undo", "unlock"}

JournalIs(p) ==
  /\ pc[p] \in {"undo"} \union Ready <=> opener = p
  /\ opener = p => journal # None
  /\ new[p] # None <=> pc[p] \in Ready
  /\ todo[p] # {} => pc[p] \in {"write", "undo"} /\ exclusive = p
  /\ pc[p] \in {"create"} \union Ready =>
       \A pg \in Pages : view[p][pg] \in Nat /\ view[p][pg] < MaxVersion

HoldsOK ==
  \A p \in Procs : /\ StateIs(p) /\ PendingIs(p) /\ ReservedIs(p)
                   /\ ExclusiveIs(p) /\ JournalIs(p)

(* The range is locked by readers or by one process alone; a process that  *)
(* does not use the file has done nothing.                                 *)
RangeOK ==
  /\ exclusive # None => readers = {}
  /\ \A p \in Procs :
       p \notin world.procs => pc[p] = "idle" /\ view[p] = Unread

(* In an orderly world a journal is that of a process under way, a process *)
(* that looks at the file has locked it for reading, and one that has made *)
(* a journal keeps the byte RESERVED to the end.                           *)
OrderlyOK ==
  Orderly =>
    /\ journal # None => opener # None
    /\ \A p \in Procs :
         /\ pc[p] \in {"exists", "probe", "endProbe", "yield", "reading",
                       "create", "dirty", "pend"} => p \in readers
         /\ pc[p] \in {"undo"} \union Ready \union Ending =>
              reserved = p /\ view[p] # Unread
         /\ pc[p] \in Before \union Finding => view[p] = Unread
         /\ pc[p] = "idle" => state[p] = "UNLOCK"

(* The file, where it is orderly or there is but one process: its pages    *)
(* are those of the version last committed, but for the pages that a       *)
(* transaction has written and nobody has yet played back; the journal     *)
(* holds that version; and a process that reads or begins to write meets   *)
(* no other page.                                                          *)
FileOK ==
  /\ Committed \in Nat
  /\ \A pg \in Pages : db[pg] \in {Committed, Committed + 1}
  /\ journal # None => journal.orig = Whole(Committed)
  /\ journal = None \/ ~journal.synced => db = Whole(Committed)

PageOK(p) ==
  /\ pc[p] \in {"reading", "create", "dirty", "pend", "upgrade"} =>
       db = Whole(Committed)
  /\ pc[p] = "reading" /\ journal # None => opener # None
  /\ pc[p] \in Ending => journal = None
  /\ pc[p] \in {"pend", "upgrade", "write"} => journal.synced
  /\ pc[p] = "write" => \A pg \in Pages \ todo[p] : db[pg] = Committed + 1
  /\ pc[p] = "undo" => \A pg \in Pages \ todo[p] : db[pg] = Committed

ViewOK(p) ==
  /\ \A pg \in Pages : InUse(p)[pg] \in {None, Committed}
  /\ pc[p] \in {"create"} \union Ready => view[p] = Whole(Committed)
  /\ new[p] # None => new[p] = Committed + 1

DataOK ==
  Orderly \/ Alone =>
    FileOK /\ \A p \in Procs : PageOK(p) /\ ViewOK(p)

LInv == PagerLocksTypeOK /\ HoldsOK /\ RangeOK /\ OrderlyOK /\ DataOK

-----------------------------------------------------------------------------
(* While a process has locked the range alone and writes, another one has  *)
(* no page in use and is not on the way to read or write one.              *)
LEMMA Exclusion ==
  ASSUME LInv, Orderly \/ Alone, NEW p \in Procs, NEW q \in Procs, p # q,
         exclusive = p, pc[p] \in {"write", "undo"}
  PROVE  InUse(q) = Unread /\ pc[q] \in Before \union Finding \union {"release"}
<1>1. CASE Alone
  BY <1>1 DEF Alone, LInv, RangeOK, InUse, Before
<1>2. CASE Orderly
  <2>1. readers = {} /\ reserved = p
    BY <1>2, PagerLocksAssumption DEF LInv, RangeOK, OrderlyOK, Ready
  <2>2. pc[q] \notin {"reading"} \union Ready \union Ending
                     \union {"create", "undo"}
    BY <1>2, <2>1 DEF LInv, OrderlyOK
  <2>3. pc[q] \in Before \union Finding \union {"release"}
    BY <2>2 DEF LInv, PagerLocksTypeOK, Before, Finding, Ready, Ending
  <2> QED
    BY <1>2, <2>3 DEF LInv, OrderlyOK, InUse
<1> QED
  BY <1>1, <1>2

(* The byte PENDING is locked for a moment; nothing else depends on whose  *)
(* it is while no writer has it.                                           *)
LEMMA GetPendingKeeps ==
  ASSUME LInv, NEW p \in world.procs, GetPending(p)
  PROVE  LInv'
<1> p \in Procs
  BY PagerLocksAssumption DEF LInv, PagerLocksTypeOK
<1>1. /\ pc[p] = "idle"
      /\ state[p] = "UNLOCK"
      /\ pending = None
      /\ pending' = p
      /\ pc' = [pc EXCEPT ![p] = "getShared"]
      /\ UNCHANGED <<reserved, readers, exclusive, state, db, journal, opener,
                     view, new, todo, crashes, errors, world>>
  BY DEF GetPending, Goto, files, cache, bounds
<1>2. PagerLocksTypeOK'
  BY <1>1 DEF LInv, PagerLocksTypeOK
<1>3. HoldsOK'
  BY <1>1, PagerLocksAssumption DEF LInv, PagerLocksTypeOK, HoldsOK, StateIs, PendingIs,
     ReservedIs, ExclusiveIs, JournalIs, Ready, Ending
<1>4. RangeOK'
  BY <1>1 DEF LInv, RangeOK
<1>5. OrderlyOK'
  BY <1>1 DEF LInv, OrderlyOK, Orderly, Before, Ready, Ending
<1>6. DataOK'
  BY <1>1, <1>3 DEF LInv, DataOK, FileOK, PageOK, ViewOK, Committed, InUse, Alone,
     Orderly, HoldsOK, ReservedIs, Ending
<1>7. QED
  BY <1>2, <1>3, <1>4, <1>5, <1>6 DEF LInv

(* A reader comes into the range only while nobody has locked it alone.    *)
LEMMA GetSharedKeeps ==
  ASSUME LInv, NEW p \in world.procs, GetShared(p)
  PROVE  LInv'
<1> p \in Procs
  BY PagerLocksAssumption DEF LInv, PagerLocksTypeOK
<1>1. CASE exclusive = None
  <2>1. /\ pc[p] = "getShared"
        /\ exclusive = None
        /\ readers' = readers \union {p}
        /\ pc' = [pc EXCEPT ![p] = "dropPending"]
        /\ UNCHANGED <<pending, reserved, exclusive, state, db, journal,
                       opener, view, new, todo, crashes, errors, world>>
    BY <1>1 DEF GetShared, Goto, files, cache, bounds
  <2>2. PagerLocksTypeOK'
    BY <2>1 DEF LInv, PagerLocksTypeOK
  <2>3. HoldsOK'
    BY <2>1 DEF LInv, HoldsOK, StateIs, PendingIs, ReservedIs, ExclusiveIs, JournalIs,
       Ready, Ending
  <2>4. RangeOK'
    BY <2>1 DEF LInv, RangeOK
  <2>5. OrderlyOK'
    BY <2>1 DEF LInv, OrderlyOK, Orderly, Before, Ready, Ending
  <2>6. DataOK'
    BY <2>1, <2>3 DEF LInv, DataOK, FileOK, PageOK, ViewOK, Committed, InUse, Alone,
       Orderly, HoldsOK, ReservedIs, Ending
  <2>7. QED
    BY <2>2, <2>3, <2>4, <2>5, <2>6 DEF LInv
<1>2. CASE exclusive # None
  <2>1. /\ pc[p] = "getShared"
        /\ exclusive # None
        /\ pc' = [pc EXCEPT ![p] = "dropPending"]
        /\ UNCHANGED <<pending, reserved, readers, exclusive, state, db,
                       journal, opener, view, new, todo, crashes, errors,
                       world>>
    BY <1>2 DEF GetShared, Goto, files, cache, bounds
  <2>2. PagerLocksTypeOK'
    BY <2>1 DEF LInv, PagerLocksTypeOK
  <2>3. HoldsOK'
    BY <2>1 DEF LInv, HoldsOK, StateIs, PendingIs, ReservedIs, ExclusiveIs, JournalIs,
       Ready, Ending
  <2>4. RangeOK'
    BY <2>1 DEF LInv, RangeOK
  <2>5. OrderlyOK'
    BY <2>1 DEF LInv, OrderlyOK, Orderly, Before, Ready, Ending
  <2>6. DataOK'
    BY <2>1, <2>3 DEF LInv, DataOK, FileOK, PageOK, ViewOK, Committed, InUse, Alone,
       Orderly, HoldsOK, ReservedIs, Ending
  <2>7. QED
    BY <2>2, <2>3, <2>4, <2>5, <2>6 DEF LInv
<1> QED
  BY <1>1, <1>2

(* With the range the pager believes to be a reader, and it is one;        *)
(* without it, to hold nothing.                                            *)
LEMMA DropPendingKeeps ==
  ASSUME LInv, NEW p \in world.procs, DropPending(p)
  PROVE  LInv'
<1> p \in Procs
  BY PagerLocksAssumption DEF LInv, PagerLocksTypeOK
<1>1. CASE p \in readers
  <2>1. /\ pc[p] = "dropPending"
        /\ p \in readers
        /\ pending' = None
        /\ state' = [state EXCEPT ![p] = "SHARED"]
        /\ pc' = [pc EXCEPT ![p] = "exists"]
        /\ UNCHANGED <<reserved, readers, exclusive, db, journal, opener,
                       view, new, todo, crashes, errors, world>>
    BY <1>1 DEF DropPending, Goto, Believe, files, cache, bounds
  <2>2. PagerLocksTypeOK'
    BY <2>1 DEF LInv, PagerLocksTypeOK
  <2>3. HoldsOK'
    BY <2>1, PagerLocksAssumption DEF LInv, PagerLocksTypeOK, HoldsOK, StateIs,
       PendingIs, ReservedIs, ExclusiveIs, JournalIs, Ready, Ending
  <2>4. RangeOK'
    BY <2>1 DEF LInv, RangeOK
  <2>5. OrderlyOK'
    BY <2>1 DEF LInv, OrderlyOK, Orderly, Before, Ready, Ending
  <2>6. DataOK'
    BY <2>1, <2>3 DEF LInv, DataOK, FileOK, PageOK, ViewOK, Committed, InUse, Alone,
       Orderly, HoldsOK, ReservedIs, Ending
  <2>7. QED
    BY <2>2, <2>3, <2>4, <2>5, <2>6 DEF LInv
<1>2. CASE p \notin readers
  <2>1. /\ pc[p] = "dropPending"
        /\ p \notin readers
        /\ pending' = None
        /\ pc' = [pc EXCEPT ![p] = "idle"]
        /\ UNCHANGED <<reserved, readers, exclusive, state, db, journal,
                       opener, view, new, todo, crashes, errors, world>>
    BY <1>2 DEF DropPending, Goto, files, cache, bounds
  <2>2. PagerLocksTypeOK'
    BY <2>1 DEF LInv, PagerLocksTypeOK
  <2>3. HoldsOK'
    BY <2>1, PagerLocksAssumption DEF LInv, PagerLocksTypeOK, HoldsOK, StateIs,
       PendingIs, ReservedIs, ExclusiveIs, JournalIs, Ready, Ending
  <2>4. RangeOK'
    BY <2>1 DEF LInv, RangeOK
  <2>5. OrderlyOK'
    BY <2>1 DEF LInv, OrderlyOK, Orderly, Before, HoldsOK, StateIs, Ready, Ending
  <2>6. DataOK'
    BY <2>1, <2>3 DEF LInv, DataOK, FileOK, PageOK, ViewOK, Committed, InUse, Alone,
       Orderly, HoldsOK, ReservedIs, Ending
  <2>7. QED
    BY <2>2, <2>3, <2>4, <2>5, <2>6 DEF LInv
<1> QED
  BY <1>1, <1>2

(* A process whose cursor has stayed open looks for a journal again, with  *)
(* what it holds.                                                          *)
LEMMA GetAgainKeeps ==
  ASSUME LInv, NEW p \in world.procs, GetAgain(p)
  PROVE  LInv'
<1> p \in Procs
  BY PagerLocksAssumption DEF LInv, PagerLocksTypeOK
<1>1. /\ pc[p] = "idle"
      /\ state[p] = "SHARED"
      /\ pc' = [pc EXCEPT ![p] = "exists"]
      /\ UNCHANGED <<pending, reserved, readers, exclusive, state, db,
                     journal, opener, view, new, todo, crashes, errors,
                     world>>
  BY DEF GetAgain, Goto, locks, files, cache, bounds
<1>2. PagerLocksTypeOK'
  BY <1>1 DEF LInv, PagerLocksTypeOK
<1>3. HoldsOK'
  BY <1>1 DEF LInv, HoldsOK, StateIs, PendingIs, ReservedIs, ExclusiveIs, JournalIs,
     Ready, Ending
<1>4. RangeOK'
  BY <1>1 DEF LInv, RangeOK
<1>5. OrderlyOK'
  BY <1>1 DEF LInv, OrderlyOK, Orderly
<1>6. DataOK'
  BY <1>1, <1>3 DEF LInv, DataOK, FileOK, PageOK, ViewOK, Committed, InUse, Alone,
     Orderly, HoldsOK, ReservedIs, Ending
<1>7. QED
  BY <1>2, <1>3, <1>4, <1>5, <1>6 DEF LInv

(* Where there is no journal the pages in the file are committed ones.     *)
LEMMA ExistsKeeps ==
  ASSUME LInv, NEW p \in world.procs, Exists(p)
  PROVE  LInv'
<1> p \in Procs
  BY PagerLocksAssumption DEF LInv, PagerLocksTypeOK
<1>1. CASE journal = None
  <2>1. /\ pc[p] = "exists"
        /\ journal = None
        /\ pc' = [pc EXCEPT ![p] = "reading"]
        /\ UNCHANGED <<pending, reserved, readers, exclusive, state, db,
                       journal, opener, view, new, todo, crashes, errors,
                       world>>
    BY <1>1 DEF Exists, Goto, locks, files, cache, bounds
  <2>2. PagerLocksTypeOK'
    BY <2>1 DEF LInv, PagerLocksTypeOK
  <2>3. HoldsOK'
    BY <2>1 DEF LInv, HoldsOK, StateIs, PendingIs, ReservedIs, ExclusiveIs, JournalIs,
       Ready, Ending
  <2>4. RangeOK'
    BY <2>1 DEF LInv, RangeOK
  <2>5. OrderlyOK'
    BY <2>1 DEF LInv, OrderlyOK, Orderly, Finding, Ready, Ending
  <2>6. DataOK'
    BY <2>1, <2>3 DEF LInv, DataOK, FileOK, PageOK, ViewOK, Committed, InUse, Alone,
       Orderly, HoldsOK, ReservedIs, Ending
  <2>7. QED
    BY <2>2, <2>3, <2>4, <2>5, <2>6 DEF LInv
<1>2. CASE journal # None
  <2>1. /\ pc[p] = "exists"
        /\ journal # None
        /\ pc' = [pc EXCEPT ![p] = "probe"]
        /\ UNCHANGED <<pending, reserved, readers, exclusive, state, db,
                       journal, opener, view, new, todo, crashes, errors,
                       world>>
    BY <1>2 DEF Exists, Goto, locks, files, cache, bounds
  <2>2. PagerLocksTypeOK'
    BY <2>1 DEF LInv, PagerLocksTypeOK
  <2>3. HoldsOK'
    BY <2>1 DEF LInv, HoldsOK, StateIs, PendingIs, ReservedIs, ExclusiveIs, JournalIs,
       Ready, Ending
  <2>4. RangeOK'
    BY <2>1 DEF LInv, RangeOK
  <2>5. OrderlyOK'
    BY <2>1 DEF LInv, OrderlyOK, Orderly, Finding, Ready, Ending
  <2>6. DataOK'
    BY <2>1, <2>3 DEF LInv, DataOK, FileOK, PageOK, ViewOK, Committed, InUse, Alone,
       Orderly, HoldsOK, ReservedIs, Ending
  <2>7. QED
    BY <2>2, <2>3, <2>4, <2>5, <2>6 DEF LInv
<1> QED
  BY <1>1, <1>2

(* The byte RESERVED is free or taken; a journal whose writer is at work   *)
(* has it taken.                                                           *)
LEMMA ProbeKeeps ==
  ASSUME LInv, NEW p \in world.procs, Probe(p)
  PROVE  LInv'
<1> p \in Procs
  BY PagerLocksAssumption DEF LInv, PagerLocksTypeOK
<1>1. CASE reserved = None
  <2>1. /\ pc[p] = "probe"
        /\ reserved = None
        /\ reserved' = p
        /\ pc' = [pc EXCEPT ![p] = "endProbe"]
        /\ UNCHANGED <<pending, readers, exclusive, state, db, journal,
                       opener, view, new, todo, crashes, errors, world>>
    BY <1>1 DEF Probe, Goto, files, cache, bounds
  <2>2. PagerLocksTypeOK'
    BY <2>1 DEF LInv, PagerLocksTypeOK
  <2>3. HoldsOK'
    BY <2>1, PagerLocksAssumption DEF LInv, PagerLocksTypeOK, HoldsOK, StateIs,
       PendingIs, ReservedIs, ExclusiveIs, JournalIs, Ready
  <2>4. RangeOK'
    BY <2>1 DEF LInv, RangeOK
  <2>5. OrderlyOK'
    BY <2>1, PagerLocksAssumption DEF LInv, OrderlyOK, Orderly, Finding, Ready, Ending
  <2>6. DataOK'
    BY <2>1, <2>3 DEF LInv, DataOK, FileOK, PageOK, ViewOK, Committed, InUse, Alone,
       Orderly, HoldsOK, JournalIs, Ending
  <2>7. QED
    BY <2>2, <2>3, <2>4, <2>5, <2>6 DEF LInv
<1>2. CASE reserved # None
  <2>1. /\ pc[p] = "probe"
        /\ reserved # None
        /\ pc' = [pc EXCEPT ![p] = "reading"]
        /\ UNCHANGED <<pending, reserved, readers, exclusive, state, db,
                       journal, opener, view, new, todo, crashes, errors,
                       world>>
    BY <1>2 DEF Probe, Goto, files, cache, bounds
  <2>2. PagerLocksTypeOK'
    BY <2>1 DEF LInv, PagerLocksTypeOK
  <2>3. HoldsOK'
    BY <2>1 DEF LInv, HoldsOK, StateIs, PendingIs, ReservedIs, ExclusiveIs, JournalIs,
       Ready, Ending
  <2>4. RangeOK'
    BY <2>1 DEF LInv, RangeOK
  <2>5. OrderlyOK'
    BY <2>1 DEF LInv, OrderlyOK, Orderly, Finding, Ready, Ending
  <2>6. DataOK'
    BY <2>1, <2>5 DEF LInv, Whole, DataOK, FileOK, PageOK, ViewOK, Committed, InUse,
       Alone, OrderlyOK, Orderly, RangeOK, PagerLocksTypeOK, Version, Pages2Version,
       HoldsOK, ReservedIs, ExclusiveIs, JournalIs, Ready
  <2>7. QED
    BY <2>2, <2>3, <2>4, <2>5, <2>6 DEF LInv
<1> QED
  BY <1>1, <1>2

(* Only in a world with kills is there a journal to delete here.           *)
LEMMA EndProbeKeeps ==
  ASSUME LInv, NEW p \in world.procs, EndProbe(p)
  PROVE  LInv'
<1> p \in Procs
  BY PagerLocksAssumption DEF LInv, PagerLocksTypeOK
<1>1. CASE db = Empty /\ opener = None
  <2>1. /\ pc[p] = "endProbe"
        /\ db = Empty
        /\ opener = None
        /\ reserved' = None
        /\ pc' = [pc EXCEPT ![p] = "reading"]
        /\ journal' = None
        /\ UNCHANGED <<pending, readers, exclusive, state, db, opener, view,
                       new, todo, crashes, errors, world>>
    BY <1>1 DEF EndProbe, Goto, cache, bounds
  <2>2. PagerLocksTypeOK'
    BY <2>1 DEF LInv, PagerLocksTypeOK
  <2>3. HoldsOK'
    BY <2>1, PagerLocksAssumption DEF LInv, PagerLocksTypeOK, HoldsOK, StateIs,
       PendingIs, ReservedIs, ExclusiveIs, JournalIs, Ready
  <2>4. RangeOK'
    BY <2>1 DEF LInv, RangeOK
  <2>5. OrderlyOK'
    BY <2>1 DEF LInv, OrderlyOK, Orderly, Finding, HoldsOK, ReservedIs, Ready, Ending
  <2>6. DataOK'
    BY <2>1, <2>3, PagerLocksAssumption DEF LInv, Whole, Empty, DataOK, FileOK, PageOK,
       ViewOK, Committed, InUse, Alone, OrderlyOK, Orderly, RangeOK, HoldsOK, ReservedIs
  <2>7. QED
    BY <2>2, <2>3, <2>4, <2>5, <2>6 DEF LInv
<1>2. CASE db = Empty /\ opener # None
  <2>1. /\ pc[p] = "endProbe"
        /\ db = Empty
        /\ opener # None
        /\ reserved' = None
        /\ pc' = [pc EXCEPT ![p] = "reading"]
        /\ UNCHANGED <<pending, readers, exclusive, state, db, journal,
                       opener, view, new, todo, crashes, errors, world>>
    BY <1>2 DEF EndProbe, Goto, cache, bounds
  <2>2. PagerLocksTypeOK'
    BY <2>1 DEF LInv, PagerLocksTypeOK
  <2>3. HoldsOK'
    BY <2>1, PagerLocksAssumption DEF LInv, PagerLocksTypeOK, HoldsOK, StateIs,
       PendingIs, ReservedIs, ExclusiveIs, JournalIs, Ready
  <2>4. RangeOK'
    BY <2>1 DEF LInv, RangeOK
  <2>5. OrderlyOK'
    BY <2>1 DEF LInv, OrderlyOK, Orderly, Finding, HoldsOK, ReservedIs, Ready, Ending
  <2>6. DataOK'
    BY <2>1, <2>3, PagerLocksAssumption DEF LInv, Whole, Empty, DataOK, FileOK, PageOK,
       ViewOK, Committed, InUse, Alone, Orderly, HoldsOK, ReservedIs, Ending
  <2>7. QED
    BY <2>2, <2>3, <2>4, <2>5, <2>6 DEF LInv
<1>3. CASE db # Empty
  <2>1. /\ pc[p] = "endProbe"
        /\ db # Empty
        /\ reserved' = None
        /\ pc' = [pc EXCEPT ![p] = "yield"]
        /\ UNCHANGED <<pending, readers, exclusive, state, db, journal,
                       opener, view, new, todo, crashes, errors, world>>
    BY <1>3 DEF EndProbe, Goto, cache, bounds
  <2>2. PagerLocksTypeOK'
    BY <2>1 DEF LInv, PagerLocksTypeOK
  <2>3. HoldsOK'
    BY <2>1, PagerLocksAssumption DEF LInv, PagerLocksTypeOK, HoldsOK, StateIs,
       PendingIs, ReservedIs, ExclusiveIs, JournalIs, Ready
  <2>4. RangeOK'
    BY <2>1 DEF LInv, RangeOK
  <2>5. OrderlyOK'
    BY <2>1 DEF LInv, OrderlyOK, Orderly, Finding, HoldsOK, ReservedIs, Ready, Ending
  <2>6. DataOK'
    BY <2>1, <2>3, PagerLocksAssumption DEF LInv, DataOK, FileOK, PageOK, ViewOK,
       Committed, InUse, Alone, Orderly, HoldsOK, ReservedIs, Ending
  <2>7. QED
    BY <2>2, <2>3, <2>4, <2>5, <2>6 DEF LInv
<1> QED
  BY <1>1, <1>2, <1>3

(* For a moment the process has no lock; it has read nothing yet.          *)
LEMMA YieldKeeps ==
  ASSUME LInv, NEW p \in world.procs, Yield(p)
  PROVE  LInv'
<1> p \in Procs
  BY PagerLocksAssumption DEF LInv, PagerLocksTypeOK
<1>1. /\ pc[p] = "yield"
      /\ readers' = readers \ {p}
      /\ pc' = [pc EXCEPT ![p] = "seize"]
      /\ UNCHANGED <<pending, reserved, exclusive, state, db, journal, opener,
                     view, new, todo, crashes, errors, world>>
  BY DEF Yield, Goto, files, cache, bounds
<1>2. PagerLocksTypeOK'
  BY <1>1 DEF LInv, PagerLocksTypeOK
<1>3. HoldsOK'
  BY <1>1 DEF LInv, HoldsOK, StateIs, PendingIs, ReservedIs, ExclusiveIs, JournalIs,
     Ready, Ending
<1>4. RangeOK'
  BY <1>1 DEF LInv, RangeOK
<1>5. OrderlyOK'
  BY <1>1 DEF LInv, OrderlyOK, Orderly, Finding, PagerLocksTypeOK, Ready, Ending
<1>6. DataOK'
  BY <1>1, <1>3 DEF LInv, DataOK, FileOK, PageOK, ViewOK, Committed, InUse, Alone,
     Orderly, HoldsOK, ReservedIs, Ending
<1>7. QED
  BY <1>2, <1>3, <1>4, <1>5, <1>6 DEF LInv

(* The range is taken alone, or all is given back.                         *)
LEMMA SeizeKeeps ==
  ASSUME LInv, NEW p \in world.procs, Seize(p)
  PROVE  LInv'
<1> p \in Procs
  BY PagerLocksAssumption DEF LInv, PagerLocksTypeOK
<1>1. CASE readers = {} /\ exclusive = None
  <2>1. /\ pc[p] = "seize"
        /\ readers = {}
        /\ exclusive = None
        /\ exclusive' = p
        /\ state' = [state EXCEPT ![p] = "EXCLUSIVE"]
        /\ pc' = [pc EXCEPT ![p] = "open"]
        /\ UNCHANGED <<pending, reserved, readers, db, journal, opener, view,
                       new, todo, crashes, errors, world>>
    BY <1>1 DEF Seize, Goto, Believe, files, cache, bounds
  <2>2. PagerLocksTypeOK'
    BY <2>1 DEF LInv, PagerLocksTypeOK
  <2>3. HoldsOK'
    BY <2>1, PagerLocksAssumption DEF LInv, PagerLocksTypeOK, HoldsOK, StateIs,
       PendingIs, ReservedIs, ExclusiveIs, JournalIs, Ready, Ending
  <2>4. RangeOK'
    BY <2>1 DEF LInv, RangeOK
  <2>5. OrderlyOK'
    BY <2>1 DEF LInv, OrderlyOK, Orderly, Finding, Ready, Ending
  <2>6. DataOK'
    BY <2>1, <2>3 DEF LInv, DataOK, FileOK, PageOK, ViewOK, Committed, InUse, Alone,
       Orderly, HoldsOK, ReservedIs, Ending
  <2>7. QED
    BY <2>2, <2>3, <2>4, <2>5, <2>6 DEF LInv
<1>2. CASE ~(readers = {} /\ exclusive = None)
  <2>1. /\ pc[p] = "seize"
        /\ pending' = Freed(pending, p)
        /\ reserved' = Freed(reserved, p)
        /\ readers' = readers \ {p}
        /\ exclusive' = Freed(exclusive, p)
        /\ state' = [state EXCEPT ![p] = "UNLOCK"]
        /\ pc' = [pc EXCEPT ![p] = "idle"]
        /\ UNCHANGED <<db, journal, opener, view, new, todo, crashes, errors,
                       world>>
    BY <1>2 DEF Seize, Goto, Believe, files, cache, bounds, UnlockAll
  <2>2. PagerLocksTypeOK'
    BY <2>1 DEF LInv, Freed, PagerLocksTypeOK
  <2>3. HoldsOK'
    BY <2>1, PagerLocksAssumption DEF LInv, Freed, PagerLocksTypeOK, HoldsOK, StateIs,
       PendingIs, ReservedIs, ExclusiveIs, JournalIs, Ready
  <2>4. RangeOK'
    BY <2>1 DEF LInv, Freed, RangeOK
  <2>5. OrderlyOK'
    BY <2>1 DEF LInv, Freed, OrderlyOK, Orderly, Finding, PagerLocksTypeOK, Ready,
       Ending
  <2>6. DataOK'
    BY <2>1, <2>3 DEF LInv, Freed, DataOK, FileOK, PageOK, ViewOK, Committed, InUse,
       Alone, Orderly, HoldsOK, ReservedIs, Ending
  <2>7. QED
    BY <2>2, <2>3, <2>4, <2>5, <2>6 DEF LInv
<1> QED
  BY <1>1, <1>2

(* The journal of nobody is played back; of an empty page nothing stays.   *)
LEMMA OpenHotKeeps ==
  ASSUME LInv, NEW p \in world.procs, OpenHot(p)
  PROVE  LInv'
<1> p \in Procs
  BY PagerLocksAssumption DEF LInv, PagerLocksTypeOK
<1>1. CASE ~(journal # None /\ opener = None)
  <2>1. /\ pc[p] = "open"
        /\ pending' = Freed(pending, p)
        /\ reserved' = Freed(reserved, p)
        /\ readers' = readers \ {p}
        /\ exclusive' = Freed(exclusive, p)
        /\ state' = [state EXCEPT ![p] = "UNLOCK"]
        /\ pc' = [pc EXCEPT ![p] = "idle"]
        /\ UNCHANGED <<db, journal, opener, view, new, todo, crashes, errors,
                       world>>
    BY <1>1 DEF OpenHot, Goto, Believe, bounds, UnlockAll
  <2>2. PagerLocksTypeOK'
    BY <2>1 DEF LInv, Freed, PagerLocksTypeOK
  <2>3. HoldsOK'
    BY <2>1, PagerLocksAssumption DEF LInv, Freed, PagerLocksTypeOK, HoldsOK, StateIs,
       PendingIs, ReservedIs, ExclusiveIs, JournalIs, Ready
  <2>4. RangeOK'
    BY <2>1 DEF LInv, Freed, RangeOK
  <2>5. OrderlyOK'
    BY <2>1 DEF LInv, Freed, OrderlyOK, Orderly, Finding, PagerLocksTypeOK, Ready,
       Ending
  <2>6. DataOK'
    BY <2>1, <2>3 DEF LInv, Freed, DataOK, FileOK, PageOK, ViewOK, Committed, InUse,
       Alone, Orderly, HoldsOK, ReservedIs, Ending
  <2>7. QED
    BY <2>2, <2>3, <2>4, <2>5, <2>6 DEF LInv
<1>2. CASE journal # None /\ opener = None
  <2>1. /\ pc[p] = "open"
        /\ journal # None
        /\ opener = None
        /\ db' = [pg \in Pages |-> IF journal.orig[pg] = 0 THEN 0 ELSE db[pg]]
        /\ todo' = [todo EXCEPT ![p] = IF journal.synced THEN Pages ELSE {}]
        /\ pc' = [pc EXCEPT ![p] = "undo"]
        /\ opener' = p
        /\ UNCHANGED <<pending, reserved, readers, exclusive, state, journal,
                       view, new, crashes, errors, world>>
    BY <1>2 DEF OpenHot, Goto, locks, bounds, Playback
  <2>2. PagerLocksTypeOK'
    BY <2>1 DEF LInv, PagerLocksTypeOK, Pages2Version
  <2>3. HoldsOK'
    BY <2>1, PagerLocksAssumption DEF LInv, PagerLocksTypeOK, HoldsOK, StateIs,
       PendingIs, ReservedIs, ExclusiveIs, JournalIs, Ready
  <2>4. RangeOK'
    BY <2>1 DEF LInv, RangeOK
  <2>5. OrderlyOK'
    BY <2>1 DEF LInv, OrderlyOK, Orderly
  <2>6. DataOK'
    BY <2>1, <2>3, PagerLocksAssumption DEF LInv, Whole, DataOK, FileOK, PageOK, ViewOK,
       Committed, InUse, Alone, OrderlyOK, Orderly, RangeOK, PagerLocksTypeOK, HoldsOK,
       StateIs, PendingIs, ReservedIs, Ending
  <2>7. QED
    BY <2>2, <2>3, <2>4, <2>5, <2>6 DEF LInv
<1> QED
  BY <1>1, <1>2

(* The page read is the committed one, for nobody writes to the file.      *)
LEMMA ReadKeeps ==
  ASSUME LInv, NEW p \in world.procs, NEW pg \in Pages, Read(p, pg)
  PROVE  LInv'
<1> p \in Procs
  BY PagerLocksAssumption DEF LInv, PagerLocksTypeOK
<1>1. /\ pc[p] = "reading"
      /\ view[p][pg] = None
      /\ view' = [view EXCEPT ![p][pg] = db[pg]]
      /\ UNCHANGED <<pending, reserved, readers, exclusive, state, pc, db,
                     journal, opener, new, todo, crashes, errors, world>>
  BY DEF Read, locks, files, bounds
<1>2. PagerLocksTypeOK'
  BY <1>1 DEF LInv, PagerLocksTypeOK, Pages2Version
<1>3. HoldsOK'
  BY <1>1, PagerLocksAssumption DEF LInv, HoldsOK, StateIs, PendingIs, ReservedIs,
     ExclusiveIs, JournalIs
<1>4. RangeOK'
  BY <1>1 DEF LInv, RangeOK
<1>5. OrderlyOK'
  BY <1>1, PagerLocksAssumption DEF LInv, OrderlyOK, Orderly, Before, Finding, HoldsOK,
     JournalIs, Ending
<1>6. DataOK'
  BY <1>1 DEF LInv, Whole, DataOK, FileOK, PageOK, ViewOK, Committed, InUse, Alone,
     Orderly
<1>7. QED
  BY <1>2, <1>3, <1>4, <1>5, <1>6 DEF LInv

(* The one who has RESERVED has read all pages, each of them committed.    *)
LEMMA ReserveKeeps ==
  ASSUME LInv, NEW p \in world.procs, Reserve(p)
  PROVE  LInv'
<1> p \in Procs
  BY PagerLocksAssumption DEF LInv, PagerLocksTypeOK
<1>1. /\ pc[p] = "reading"
      /\ state[p] = "SHARED"
      /\ \A pg \in Pages : view[p][pg] # None /\ view[p][pg] < MaxVersion
      /\ reserved = None
      /\ reserved' = p
      /\ state' = [state EXCEPT ![p] = "RESERVED"]
      /\ pc' = [pc EXCEPT ![p] = "create"]
      /\ UNCHANGED <<pending, readers, exclusive, db, journal, opener, view,
                     new, todo, crashes, errors, world>>
  BY DEF Reserve, Goto, Believe, files, cache, bounds
<1>2. PagerLocksTypeOK'
  BY <1>1 DEF LInv, PagerLocksTypeOK
<1>3. HoldsOK'
  BY <1>1, PagerLocksAssumption DEF LInv, PagerLocksTypeOK, Version, HoldsOK, StateIs,
     PendingIs, ReservedIs, ExclusiveIs, JournalIs, Ready
<1>4. RangeOK'
  BY <1>1 DEF LInv, RangeOK
<1>5. OrderlyOK'
  BY <1>1, PagerLocksAssumption DEF LInv, OrderlyOK, Orderly, Before, Finding, Ready,
     Ending
<1>6. DataOK'
  BY <1>1 DEF LInv, Whole, DataOK, FileOK, PageOK, ViewOK, Committed, InUse, Alone,
     Orderly, PagerLocksTypeOK, Ending
<1>7. QED
  BY <1>2, <1>3, <1>4, <1>5, <1>6 DEF LInv

(* The journal gets the pages as they were read, which are those of the    *)
(* file.                                                                   *)
LEMMA CreateKeeps ==
  ASSUME LInv, NEW p \in world.procs, Create(p)
  PROVE  LInv'
<1> p \in Procs
  BY PagerLocksAssumption DEF LInv, PagerLocksTypeOK
<1>1. CASE opener = None
  <2>1. /\ pc[p] = "create"
        /\ opener = None
        /\ pc' = [pc EXCEPT ![p] = "dirty"]
        /\ journal' = [orig |-> view[p], synced |-> FALSE]
        /\ opener' = p
        /\ new' = [new EXCEPT ![p] = view[p][1] + 1]
        /\ UNCHANGED <<pending, reserved, readers, exclusive, state, db, view,
                       todo, crashes, errors, world>>
    BY <1>1 DEF Create, Goto, locks, bounds
  <2>2. PagerLocksTypeOK'
    BY <2>1, PagerLocksAssumption DEF LInv, PagerLocksTypeOK, Version, Pages2Version,
       HoldsOK, JournalIs
  <2>3. HoldsOK'
    <3>1. view[p] \in Pages2Version /\ view[p][1] + 1 \in Nat
      <4>1. \A pg \in Pages : view[p][pg] \in Version
        BY <2>1, PagerLocksAssumption DEF LInv, HoldsOK, JournalIs, Version
      <4>2. view[p] \in [Pages -> Version \union {None}]
        BY DEF LInv, PagerLocksTypeOK
      <4> QED
        BY <4>1, <4>2, PagerLocksAssumption DEF Version, Pages2Version
    <3>2. journal' \in [orig : Pages2Version, synced : BOOLEAN]
      BY <2>1, <3>1
    <3>3. journal' # None /\ view[p][1] + 1 # None
      BY <3>1, <3>2, PagerLocksAssumption DEF Version, Pages2Version
    <3> QED
      BY <2>1, <3>3, PagerLocksAssumption DEF LInv, PagerLocksTypeOK, HoldsOK, StateIs,
         PendingIs, ReservedIs, ExclusiveIs, JournalIs, Ready
  <2>4. RangeOK'
    BY <2>1 DEF LInv, RangeOK
  <2>5. OrderlyOK'
    BY <2>1, PagerLocksAssumption DEF LInv, Unread, OrderlyOK, Orderly, Before, Finding,
       HoldsOK, ReservedIs, JournalIs
  <2>6. DataOK'
    <3> SUFFICES ASSUME Orderly \/ Alone
                 PROVE  FileOK' /\ \A q \in Procs : PageOK(q)' /\ ViewOK(q)'
      BY <2>1 DEF DataOK, Orderly, Alone
    <3>1. FileOK /\ \A q \in Procs : PageOK(q) /\ ViewOK(q)
      BY DEF LInv, DataOK
    <3>2. db = Whole(Committed) /\ view[p] = Whole(Committed) /\ Committed \in Nat
      BY <2>1, <3>1 DEF PageOK, ViewOK, FileOK
    <3>3. Committed' = Committed /\ journal' # None /\ ~journal'.synced
      BY <2>1, <2>3, <3>2, PagerLocksAssumption DEF Committed, Whole, HoldsOK,
         JournalIs, LInv
    <3>4. FileOK'
      BY <2>1, <3>1, <3>2, <3>3 DEF FileOK
    <3>5. ASSUME NEW q \in Procs PROVE PageOK(q)'
      <4>1. CASE q = p
        BY <2>1, <3>1, <3>3, <4>1 DEF PageOK, Ending, LInv
      <4>2. CASE q # p
        <5>1. pc[q] \notin {"undo"} \union Ready \union Ending
          <6>1. CASE Orderly
            BY <2>1, <4>2, <6>1 DEF LInv, HoldsOK, ReservedIs, OrderlyOK
          <6>2. CASE Alone
            BY <4>2, <6>2 DEF LInv, RangeOK, Alone, Ready, Ending
          <6> QED
            BY <6>1, <6>2
        <5> QED
          BY <2>1, <3>1, <3>3, <4>2, <5>1, PagerLocksAssumption DEF PageOK, Ready
      <4> QED
        BY <4>1, <4>2
    <3>6. ASSUME NEW q \in Procs PROVE ViewOK(q)'
      BY <2>1, <3>1, <3>3, PagerLocksAssumption DEF ViewOK, InUse, Whole, LInv
    <3> QED
      BY <3>4, <3>5, <3>6
  <2>7. QED
    BY <2>2, <2>3, <2>4, <2>5, <2>6 DEF LInv
<1>2. CASE opener # None
  <2>1. /\ pc[p] = "create"
        /\ opener # None
        /\ pending' = Freed(pending, p)
        /\ reserved' = Freed(reserved, p)
        /\ readers' = readers \ {p}
        /\ exclusive' = Freed(exclusive, p)
        /\ state' = [state EXCEPT ![p] = "UNLOCK"]
        /\ pc' = [pc EXCEPT ![p] = "idle"]
        /\ view' = [view EXCEPT ![p] = Unread]
        /\ UNCHANGED <<db, journal, opener, new, todo, crashes, errors, world>>
    BY <1>2 DEF Create, Goto, Believe, bounds, UnlockAll
  <2>2. PagerLocksTypeOK'
    BY <2>1 DEF LInv, Freed, Unread, PagerLocksTypeOK
  <2>3. HoldsOK'
    BY <2>1, PagerLocksAssumption DEF LInv, Freed, PagerLocksTypeOK, HoldsOK, StateIs,
       PendingIs, ReservedIs, ExclusiveIs, JournalIs, Ready
  <2>4. RangeOK'
    BY <2>1 DEF LInv, Freed, RangeOK
  <2>5. OrderlyOK'
    BY <2>1 DEF LInv, Freed, OrderlyOK, Orderly, PagerLocksTypeOK, Ready, Ending
  <2>6. DataOK'
    BY <2>1, <2>3, PagerLocksAssumption DEF LInv, Freed, Unread, DataOK, FileOK, PageOK,
       ViewOK, Committed, InUse, Alone, Orderly, HoldsOK, ReservedIs, Ending
  <2>7. QED
    BY <2>2, <2>3, <2>4, <2>5, <2>6 DEF LInv
<1> QED
  BY <1>1, <1>2

(* From now on the journal can be played back.                             *)
LEMMA SyncJournalKeeps ==
  ASSUME LInv, NEW p \in world.procs, SyncJournal(p)
  PROVE  LInv'
<1> p \in Procs
  BY PagerLocksAssumption DEF LInv, PagerLocksTypeOK
<1>1. /\ pc[p] = "dirty"
      /\ pc' = [pc EXCEPT ![p] = "pend"]
      /\ journal' = [journal EXCEPT !.synced = TRUE]
      /\ UNCHANGED <<pending, reserved, readers, exclusive, state, db, opener,
                     view, new, todo, crashes, errors, world>>
  BY DEF SyncJournal, Goto, locks, cache, bounds
<1>2. PagerLocksTypeOK'
  BY <1>1, PagerLocksAssumption DEF LInv, Unread, Whole, Empty, PagerLocksTypeOK,
     Version, Pages2Version, HoldsOK, StateIs, PendingIs, ReservedIs, ExclusiveIs,
     JournalIs, Ready, Ending
<1>3. HoldsOK'
  <2>1. journal \in [orig : Pages2Version, synced : BOOLEAN]
    BY <1>1 DEF LInv, PagerLocksTypeOK, HoldsOK, JournalIs, Ready
  <2>2. journal' # None
    BY <1>1, <2>1, PagerLocksAssumption DEF Version, Pages2Version
  <2> QED
    BY <1>1, <2>2 DEF LInv, HoldsOK, StateIs, PendingIs, ReservedIs, ExclusiveIs,
       JournalIs, Ready
<1>4. RangeOK'
  BY <1>1 DEF LInv, RangeOK
<1>5. OrderlyOK'
  BY <1>1 DEF LInv, OrderlyOK, Orderly, Before, Finding, HoldsOK, JournalIs, Ready
<1>6. DataOK'
  BY <1>1 DEF LInv, DataOK, FileOK, PageOK, ViewOK, Committed, InUse, Alone, Orderly,
     HoldsOK, JournalIs, Ready, Ending
<1>7. QED
  BY <1>2, <1>3, <1>4, <1>5, <1>6 DEF LInv

(* The byte PENDING keeps further readers out; those there are stay.       *)
LEMMA PendKeeps ==
  ASSUME LInv, NEW p \in world.procs, Pend(p)
  PROVE  LInv'
<1> p \in Procs
  BY PagerLocksAssumption DEF LInv, PagerLocksTypeOK
<1>1. /\ pc[p] = "pend"
      /\ pending = None
      /\ pending' = p
      /\ readers' = readers \ {p}
      /\ pc' = [pc EXCEPT ![p] = "upgrade"]
      /\ UNCHANGED <<reserved, exclusive, state, db, journal, opener, view,
                     new, todo, crashes, errors, world>>
  BY DEF Pend, Goto, files, cache, bounds
<1>2. PagerLocksTypeOK'
  BY <1>1 DEF LInv, PagerLocksTypeOK
<1>3. HoldsOK'
  BY <1>1, PagerLocksAssumption DEF LInv, PagerLocksTypeOK, HoldsOK, StateIs, PendingIs,
     ReservedIs, ExclusiveIs, JournalIs, Ready
<1>4. RangeOK'
  BY <1>1 DEF LInv, RangeOK
<1>5. OrderlyOK'
  BY <1>1 DEF LInv, OrderlyOK, Orderly, Before, Finding, PagerLocksTypeOK, Ready
<1>6. DataOK'
  BY <1>1, <1>3 DEF LInv, DataOK, FileOK, PageOK, ViewOK, Committed, InUse, Alone,
     Orderly, HoldsOK, ReservedIs, Ending
<1>7. QED
  BY <1>2, <1>3, <1>4, <1>5, <1>6 DEF LInv

(* When the last reader is gone the writer has the file to itself.         *)
LEMMA UpgradeKeeps ==
  ASSUME LInv, NEW p \in world.procs, Upgrade(p)
  PROVE  LInv'
<1> p \in Procs
  BY PagerLocksAssumption DEF LInv, PagerLocksTypeOK
<1>1. /\ pc[p] = "upgrade"
      /\ readers = {}
      /\ exclusive = None
      /\ exclusive' = p
      /\ state' = [state EXCEPT ![p] = "EXCLUSIVE"]
      /\ pc' = [pc EXCEPT ![p] = "write"]
      /\ todo' = [todo EXCEPT ![p] = Pages]
      /\ UNCHANGED <<pending, reserved, readers, db, journal, opener, view,
                     new, crashes, errors, world>>
  BY DEF Upgrade, Goto, Believe, files, bounds
<1>2. PagerLocksTypeOK'
  BY <1>1 DEF LInv, PagerLocksTypeOK
<1>3. HoldsOK'
  BY <1>1, PagerLocksAssumption DEF LInv, PagerLocksTypeOK, HoldsOK, StateIs, PendingIs,
     ReservedIs, ExclusiveIs, JournalIs, Ready
<1>4. RangeOK'
  BY <1>1 DEF LInv, RangeOK
<1>5. OrderlyOK'
  BY <1>1 DEF LInv, OrderlyOK, Orderly, Before, Finding, Ready
<1>6. DataOK'
  BY <1>1, <1>3 DEF LInv, DataOK, FileOK, PageOK, ViewOK, Committed, InUse, Alone,
     Orderly, PagerLocksTypeOK, HoldsOK, ReservedIs, Ending
<1>7. QED
  BY <1>2, <1>3, <1>4, <1>5, <1>6 DEF LInv

(* The file has not been written to: nothing is to be played back.         *)
LEMMA RollBackKeeps ==
  ASSUME LInv, NEW p \in world.procs, RollBack(p)
  PROVE  LInv'
<1> p \in Procs
  BY PagerLocksAssumption DEF LInv, PagerLocksTypeOK
<1>1. /\ pc[p] \in {"dirty", "pend", "upgrade"}
      /\ pc' = [pc EXCEPT ![p] = "undo"]
      /\ new' = [new EXCEPT ![p] = None]
      /\ UNCHANGED <<pending, reserved, readers, exclusive, state, db,
                     journal, opener, view, todo, crashes, errors, world>>
  BY DEF RollBack, Goto, locks, files, bounds
<1>2. PagerLocksTypeOK'
  BY <1>1 DEF LInv, PagerLocksTypeOK
<1>3. HoldsOK'
  BY <1>1 DEF LInv, PagerLocksTypeOK, HoldsOK, StateIs, PendingIs, ReservedIs,
     ExclusiveIs, JournalIs, Ready
<1>4. RangeOK'
  BY <1>1 DEF LInv, RangeOK
<1>5. OrderlyOK'
  BY <1>1 DEF LInv, OrderlyOK, Orderly, Before, Finding, Ready
<1>6. DataOK'
  BY <1>1, <1>3, PagerLocksAssumption DEF LInv, DataOK, FileOK, PageOK, ViewOK,
     Committed, InUse, Alone, Orderly, HoldsOK, StateIs, ReservedIs, Ending
<1>7. QED
  BY <1>2, <1>3, <1>4, <1>5, <1>6 DEF LInv

(* A page is written which the journal has, under the lock on everything.  *)
LEMMA WritePageKeeps ==
  ASSUME LInv, NEW p \in world.procs, NEW pg \in Pages, WritePage(p, pg)
  PROVE  LInv'
<1> p \in Procs
  BY PagerLocksAssumption DEF LInv, PagerLocksTypeOK
<1>1. /\ pc[p] = "write"
      /\ pg \in todo[p]
      /\ db' = [db EXCEPT ![pg] = new[p]]
      /\ todo' = [todo EXCEPT ![p] = @ \ {pg}]
      /\ UNCHANGED <<pending, reserved, readers, exclusive, state, pc,
                     journal, opener, view, new, crashes, errors, world>>
  BY DEF WritePage, locks, bounds
<1>2. PagerLocksTypeOK'
  BY <1>1 DEF LInv, PagerLocksTypeOK, Pages2Version, HoldsOK, JournalIs, Ready
<1>3. HoldsOK'
  BY <1>1 DEF LInv, HoldsOK, StateIs, PendingIs, ReservedIs, ExclusiveIs, JournalIs
<1>4. RangeOK'
  BY <1>1 DEF LInv, RangeOK
<1>5. OrderlyOK'
  BY <1>1 DEF LInv, OrderlyOK, Orderly
<1>6. DataOK'
  <2> SUFFICES ASSUME Orderly \/ Alone
               PROVE  FileOK' /\ \A q \in Procs : PageOK(q)' /\ ViewOK(q)'
    BY <1>1 DEF DataOK, Orderly, Alone
  <2>1. FileOK /\ \A q \in Procs : PageOK(q) /\ ViewOK(q)
    BY DEF LInv, DataOK
  <2>2. /\ journal # None /\ journal.synced
        /\ db'[pg] = Committed + 1
        /\ \A x \in Pages \ {pg} : db'[x] = db[x]
        /\ Committed' = Committed
    BY <1>1, <2>1 DEF PageOK, ViewOK, Committed, LInv, HoldsOK, JournalIs, Ready,
       PagerLocksTypeOK, Pages2Version
  <2>3. FileOK'
    BY <1>1, <2>1, <2>2 DEF FileOK
  <2>4. ASSUME NEW q \in Procs PROVE PageOK(q)'
    <3>1. CASE q = p
      BY <1>1, <2>1, <2>2, <3>1 DEF PageOK, LInv
    <3>2. CASE q # p
      BY <1>1, <2>1, <3>2, Exclusion DEF PageOK, Before, Finding, LInv, HoldsOK,
         ExclusiveIs
    <3> QED
      BY <3>1, <3>2
  <2>5. ASSUME NEW q \in Procs PROVE ViewOK(q)'
    BY <1>1, <2>1, <2>2 DEF ViewOK, InUse
  <2> QED
    BY <2>3, <2>4, <2>5
<1>7. QED
  BY <1>2, <1>3, <1>4, <1>5, <1>6 DEF LInv

(* All pages are to be played back.                                        *)
LEMMA WriteFailsKeeps ==
  ASSUME LInv, NEW p \in world.procs, WriteFails(p)
  PROVE  LInv'
<1> p \in Procs
  BY PagerLocksAssumption DEF LInv, PagerLocksTypeOK
<1>1. /\ pc[p] = "write"
      /\ errors < world.errors
      /\ db' = [pg \in Pages |-> IF journal.orig[pg] = 0 THEN 0 ELSE db[pg]]
      /\ todo' = [todo EXCEPT ![p] = IF journal.synced THEN Pages ELSE {}]
      /\ pc' = [pc EXCEPT ![p] = "undo"]
      /\ new' = [new EXCEPT ![p] = None]
      /\ errors' = errors + 1
      /\ UNCHANGED <<pending, reserved, readers, exclusive, state, journal,
                     opener, view, crashes, world>>
  BY DEF WriteFails, Goto, locks, Playback
<1>2. PagerLocksTypeOK'
  BY <1>1, PagerLocksAssumption DEF LInv, PagerLocksTypeOK, Pages2Version, HoldsOK,
     JournalIs, Ready
<1>3. HoldsOK'
  BY <1>1 DEF LInv, PagerLocksTypeOK, HoldsOK, StateIs, PendingIs, ReservedIs,
     ExclusiveIs, JournalIs, Ready
<1>4. RangeOK'
  BY <1>1 DEF LInv, RangeOK
<1>5. OrderlyOK'
  BY <1>1 DEF LInv, OrderlyOK, Orderly, Before, Finding, Ready
<1>6. DataOK'
  BY <1>1, <1>3, <1>5, PagerLocksAssumption DEF LInv, DataOK, FileOK, PageOK, ViewOK,
     Committed, InUse, Alone, Orderly, RangeOK, PagerLocksTypeOK, HoldsOK, ExclusiveIs,
     JournalIs, Ending
<1>7. QED
  BY <1>2, <1>3, <1>4, <1>5, <1>6 DEF LInv

(* A page gets back what the journal says.                                 *)
LEMMA PlaybackPageKeeps ==
  ASSUME LInv, NEW p \in world.procs, NEW pg \in Pages, PlaybackPage(p, pg)
  PROVE  LInv'
<1> p \in Procs
  BY PagerLocksAssumption DEF LInv, PagerLocksTypeOK
<1>1. /\ pc[p] = "undo"
      /\ pg \in todo[p]
      /\ db' = [db EXCEPT ![pg] = journal.orig[pg]]
      /\ todo' = [todo EXCEPT ![p] = @ \ {pg}]
      /\ UNCHANGED <<pending, reserved, readers, exclusive, state, pc,
                     journal, opener, view, new, crashes, errors, world>>
  BY DEF PlaybackPage, locks, bounds
<1>2. PagerLocksTypeOK'
  BY <1>1 DEF LInv, PagerLocksTypeOK, Pages2Version, HoldsOK, JournalIs
<1>3. HoldsOK'
  BY <1>1 DEF LInv, HoldsOK, StateIs, PendingIs, ReservedIs, ExclusiveIs, JournalIs
<1>4. RangeOK'
  BY <1>1 DEF LInv, RangeOK
<1>5. OrderlyOK'
  BY <1>1 DEF LInv, OrderlyOK, Orderly
<1>6. DataOK'
  <2> SUFFICES ASSUME Orderly \/ Alone
               PROVE  FileOK' /\ \A q \in Procs : PageOK(q)' /\ ViewOK(q)'
    BY <1>1 DEF DataOK, Orderly, Alone
  <2>1. FileOK /\ \A q \in Procs : PageOK(q) /\ ViewOK(q)
    BY DEF LInv, DataOK
  <2>2. /\ journal # None
        /\ db'[pg] = Committed
        /\ \A x \in Pages \ {pg} : db'[x] = db[x]
        /\ Committed' = Committed
    BY <1>1, <2>1 DEF FileOK, Whole, Committed, LInv, HoldsOK, JournalIs,
       PagerLocksTypeOK, Pages2Version
  <2>3. FileOK'
    BY <1>1, <2>1, <2>2 DEF FileOK, Whole, LInv, PagerLocksTypeOK, Version,
       Pages2Version
  <2>4. ASSUME NEW q \in Procs PROVE PageOK(q)'
    <3>1. CASE q = p
      BY <1>1, <2>1, <2>2, <3>1 DEF PageOK, LInv
    <3>2. CASE q # p
      BY <1>1, <2>1, <3>2, Exclusion DEF PageOK, Before, Finding, LInv, HoldsOK,
         JournalIs
    <3> QED
      BY <3>1, <3>2
  <2>5. ASSUME NEW q \in Procs PROVE ViewOK(q)'
    BY <1>1, <2>1, <2>2 DEF ViewOK, InUse
  <2> QED
    BY <2>3, <2>4, <2>5
<1>7. QED
  BY <1>2, <1>3, <1>4, <1>5, <1>6 DEF LInv

(* Written or played back as a whole, the file has the pages of one        *)
(* version.                                                                *)
LEMMA DropJournalKeeps ==
  ASSUME LInv, NEW p \in world.procs, DropJournal(p)
  PROVE  LInv'
<1> p \in Procs
  BY PagerLocksAssumption DEF LInv, PagerLocksTypeOK
<1>1. CASE pc[p] = "write"
  <2>1. /\ pc[p] = "write"
        /\ todo[p] = {}
        /\ pc' = [pc EXCEPT ![p] = "unlock"]
        /\ journal' = None
        /\ opener' = None
        /\ view' = [view EXCEPT ![p] = IF new[p] = None THEN @ ELSE Whole(new[p])]
        /\ new' = [new EXCEPT ![p] = None]
        /\ UNCHANGED <<pending, reserved, readers, exclusive, state, db, todo,
                       crashes, errors, world>>
    BY <1>1 DEF DropJournal, Goto, locks, bounds
  <2>2. PagerLocksTypeOK'
    BY <2>1 DEF LInv, Whole, PagerLocksTypeOK
  <2>3. HoldsOK'
    BY <2>1, PagerLocksAssumption DEF LInv, PagerLocksTypeOK, HoldsOK, StateIs,
       PendingIs, ReservedIs, ExclusiveIs, JournalIs, Ready, Ending
  <2>4. RangeOK'
    BY <2>1 DEF LInv, RangeOK
  <2>5. OrderlyOK'
    BY <2>1, PagerLocksAssumption DEF LInv, Unread, Whole, OrderlyOK, Orderly, Before,
       Finding, Ready
  <2>6. DataOK'
    <3> SUFFICES ASSUME Orderly \/ Alone
                 PROVE  FileOK' /\ \A q \in Procs : PageOK(q)' /\ ViewOK(q)'
      BY <2>1 DEF DataOK, Orderly, Alone
    <3>1. FileOK /\ \A q \in Procs : PageOK(q) /\ ViewOK(q)
      BY DEF LInv, DataOK
    <3>2. /\ \A pg \in Pages : db[pg] = Committed + 1
          /\ view' = [view EXCEPT ![p] = Whole(Committed + 1)]
          /\ Committed' = Committed + 1
      BY <2>1, <3>1, PagerLocksAssumption DEF PageOK, ViewOK, Committed, LInv, HoldsOK,
         JournalIs, Ready, PagerLocksTypeOK, Version, Pages2Version
    <3>3. FileOK'
      BY <2>1, <3>1, <3>2 DEF FileOK, Whole, LInv, PagerLocksTypeOK, Pages2Version
    <3>4. ASSUME NEW q \in Procs PROVE PageOK(q)'
      <4>1. CASE q = p
        BY <2>1, <4>1 DEF PageOK, LInv, PagerLocksTypeOK
      <4>2. CASE q # p
        BY <2>1, <4>2, Exclusion DEF PageOK, Before, Finding, LInv, HoldsOK, ExclusiveIs
      <4> QED
        BY <4>1, <4>2
    <3>5. ASSUME NEW q \in Procs PROVE ViewOK(q)'
      <4>1. CASE q = p
        BY <2>1, <3>2, <4>1 DEF ViewOK, InUse, Whole, LInv, PagerLocksTypeOK
      <4>2. CASE q # p
        BY <2>1, <4>2, Exclusion DEF ViewOK, InUse, Unread, Ready, Before, Finding,
           LInv, HoldsOK, ExclusiveIs, JournalIs
      <4> QED
        BY <4>1, <4>2
    <3> QED
      BY <3>3, <3>4, <3>5
  <2>7. QED
    BY <2>2, <2>3, <2>4, <2>5, <2>6 DEF LInv
<1>2. CASE pc[p] = "undo"
  <2>1. /\ pc[p] = "undo"
        /\ todo[p] = {}
        /\ pc' = [pc EXCEPT ![p] = "unlock"]
        /\ journal' = None
        /\ opener' = None
        /\ view' = [view EXCEPT ![p] = IF new[p] = None THEN @ ELSE Whole(new[p])]
        /\ new' = [new EXCEPT ![p] = None]
        /\ UNCHANGED <<pending, reserved, readers, exclusive, state, db, todo,
                       crashes, errors, world>>
    BY <1>2 DEF DropJournal, Goto, locks, bounds
  <2>2. PagerLocksTypeOK'
    BY <2>1 DEF LInv, PagerLocksTypeOK, HoldsOK, JournalIs, Ready
  <2>3. HoldsOK'
    BY <2>1, PagerLocksAssumption DEF LInv, PagerLocksTypeOK, HoldsOK, StateIs,
       PendingIs, ReservedIs, ExclusiveIs, JournalIs, Ready, Ending
  <2>4. RangeOK'
    BY <2>1 DEF LInv, RangeOK
  <2>5. OrderlyOK'
    BY <2>1 DEF LInv, OrderlyOK, Orderly, Before, Finding, HoldsOK, JournalIs, Ready
  <2>6. DataOK'
    BY <2>1, PagerLocksAssumption DEF LInv, Whole, DataOK, FileOK, PageOK, ViewOK,
       Committed, InUse, Alone, Orderly, PagerLocksTypeOK, Pages2Version, HoldsOK,
       JournalIs, Ready
  <2>7. QED
    BY <2>2, <2>3, <2>4, <2>5, <2>6 DEF LInv
<1> QED
  BY <1>1, <1>2 DEF DropJournal

(* The lock on everything is given up, or the bytes are.                   *)
LEMMA UnlockKeeps ==
  ASSUME LInv, NEW p \in world.procs, Unlock(p)
  PROVE  LInv'
<1> p \in Procs
  BY PagerLocksAssumption DEF LInv, PagerLocksTypeOK
<1>1. CASE exclusive = p
  <2>1. /\ pc[p] = "unlock"
        /\ exclusive = p
        /\ exclusive' = None
        /\ pc' = [pc EXCEPT ![p] = "relock"]
        /\ UNCHANGED <<pending, reserved, readers, state, db, journal, opener,
                       view, new, todo, crashes, errors, world>>
    BY <1>1 DEF Unlock, Goto, files, cache, bounds
  <2>2. PagerLocksTypeOK'
    BY <2>1 DEF LInv, PagerLocksTypeOK
  <2>3. HoldsOK'
    BY <2>1, PagerLocksAssumption DEF LInv, PagerLocksTypeOK, HoldsOK, StateIs,
       PendingIs, ReservedIs, ExclusiveIs, JournalIs, Ready, Ending
  <2>4. RangeOK'
    BY <2>1 DEF LInv, RangeOK
  <2>5. OrderlyOK'
    BY <2>1 DEF LInv, OrderlyOK, Orderly, Before, Finding, Ending
  <2>6. DataOK'
    BY <2>1, <2>3 DEF LInv, DataOK, FileOK, PageOK, ViewOK, Committed, InUse, Alone,
       Orderly, HoldsOK, JournalIs, Ending
  <2>7. QED
    BY <2>2, <2>3, <2>4, <2>5, <2>6 DEF LInv
<1>2. CASE exclusive # p
  <2>1. /\ pc[p] = "unlock"
        /\ exclusive # p
        /\ pending' = Freed(pending, p)
        /\ reserved' = Freed(reserved, p)
        /\ pc' = [pc EXCEPT ![p] = IF view[p] = Unread THEN "reading"
                              ELSE IF p \in world.cursors THEN "reading" ELSE "release"]
        /\ state' = [state EXCEPT ![p] = "SHARED"]
        /\ UNCHANGED <<readers, exclusive, db, journal, opener, view, new,
                       todo, crashes, errors, world>>
    BY <1>2 DEF Unlock, Goto, Believe, files, cache, bounds, Resume
  <2>2. PagerLocksTypeOK'
    BY <2>1 DEF LInv, Freed, PagerLocksTypeOK
  <2>3. HoldsOK'
    BY <2>1, PagerLocksAssumption DEF LInv, Freed, PagerLocksTypeOK, HoldsOK, StateIs,
       PendingIs, ReservedIs, ExclusiveIs, JournalIs, Ready
  <2>4. RangeOK'
    BY <2>1 DEF LInv, RangeOK
  <2>5. OrderlyOK'
    BY <2>1 DEF LInv, OrderlyOK, Orderly, Before, Finding, PagerLocksTypeOK, Ready,
       Ending
  <2>6. DataOK'
    <3> SUFFICES ASSUME Orderly \/ Alone
                 PROVE  FileOK' /\ \A q \in Procs : PageOK(q)' /\ ViewOK(q)'
      BY <2>1 DEF DataOK, Orderly, Alone
    <3>1. FileOK /\ \A q \in Procs : PageOK(q) /\ ViewOK(q)
      BY DEF LInv, DataOK
    <3>2. Committed' = Committed
      BY <2>1 DEF Committed
    <3>3. FileOK'
      BY <2>1, <3>1, <3>2 DEF FileOK
    <3>4. ASSUME NEW q \in Procs PROVE PageOK(q)'
      BY <2>1, <3>1, <3>2 DEF PageOK, FileOK, Ending, LInv
    <3>5. ASSUME NEW q \in Procs PROVE ViewOK(q)'
      BY <2>1, <3>1, <3>2 DEF ViewOK, InUse, Unread, Ready, LInv
    <3> QED
      BY <3>3, <3>4, <3>5
  <2>7. QED
    BY <2>2, <2>3, <2>4, <2>5, <2>6 DEF LInv
<1> QED
  BY <1>1, <1>2

(* The process is a reader again, in an orderly world always.              *)
LEMMA RelockKeeps ==
  ASSUME LInv, NEW p \in world.procs, Relock(p)
  PROVE  LInv'
<1> p \in Procs
  BY PagerLocksAssumption DEF LInv, PagerLocksTypeOK
<1>1. CASE exclusive = None
  <2>1. /\ pc[p] = "relock"
        /\ exclusive = None
        /\ pending' = Freed(pending, p)
        /\ reserved' = Freed(reserved, p)
        /\ pc' = [pc EXCEPT ![p] = IF view[p] = Unread THEN "reading"
                              ELSE IF p \in world.cursors THEN "reading" ELSE "release"]
        /\ readers' = readers \union {p}
        /\ state' = [state EXCEPT ![p] = "SHARED"]
        /\ UNCHANGED <<exclusive, db, journal, opener, view, new, todo,
                       crashes, errors, world>>
    BY <1>1 DEF Relock, Goto, Believe, files, cache, bounds, Resume
  <2>2. PagerLocksTypeOK'
    BY <2>1 DEF LInv, Freed, PagerLocksTypeOK
  <2>3. HoldsOK'
    BY <2>1, PagerLocksAssumption DEF LInv, Freed, PagerLocksTypeOK, HoldsOK, StateIs,
       PendingIs, ReservedIs, ExclusiveIs, JournalIs, Ready
  <2>4. RangeOK'
    BY <2>1 DEF LInv, RangeOK
  <2>5. OrderlyOK'
    BY <2>1 DEF LInv, OrderlyOK, Orderly, Before, Finding, PagerLocksTypeOK, Ready,
       Ending
  <2>6. DataOK'
    <3> SUFFICES ASSUME Orderly \/ Alone
                 PROVE  FileOK' /\ \A q \in Procs : PageOK(q)' /\ ViewOK(q)'
      BY <2>1 DEF DataOK, Orderly, Alone
    <3>1. FileOK /\ \A q \in Procs : PageOK(q) /\ ViewOK(q)
      BY DEF LInv, DataOK
    <3>2. Committed' = Committed
      BY <2>1 DEF Committed
    <3>3. FileOK'
      BY <2>1, <3>1, <3>2 DEF FileOK
    <3>4. ASSUME NEW q \in Procs PROVE PageOK(q)'
      BY <2>1, <3>1, <3>2 DEF PageOK, FileOK, Ending, LInv
    <3>5. ASSUME NEW q \in Procs PROVE ViewOK(q)'
      BY <2>1, <3>1, <3>2 DEF ViewOK, InUse, Unread, Ready, LInv
    <3> QED
      BY <3>3, <3>4, <3>5
  <2>7. QED
    BY <2>2, <2>3, <2>4, <2>5, <2>6 DEF LInv
<1>2. CASE exclusive # None
  <2>1. /\ pc[p] = "relock"
        /\ exclusive # None
        /\ pending' = Freed(pending, p)
        /\ reserved' = Freed(reserved, p)
        /\ pc' = [pc EXCEPT ![p] = IF view[p] = Unread THEN "idle"
                              ELSE IF p \in world.cursors THEN "reading" ELSE "release"]
        /\ state' = [state EXCEPT ![p] = "SHARED"]
        /\ UNCHANGED <<readers, exclusive, db, journal, opener, view, new,
                       todo, crashes, errors, world>>
    BY <1>2 DEF Relock, Goto, Believe, files, cache, bounds, Resume
  <2>2. PagerLocksTypeOK'
    BY <2>1 DEF LInv, Freed, PagerLocksTypeOK
  <2>3. HoldsOK'
    BY <2>1, PagerLocksAssumption DEF LInv, Freed, PagerLocksTypeOK, HoldsOK, StateIs,
       PendingIs, ReservedIs, ExclusiveIs, JournalIs, Ready
  <2>4. RangeOK'
    BY <2>1 DEF LInv, RangeOK
  <2>5. OrderlyOK'
    BY <2>1 DEF LInv, OrderlyOK, Orderly, Before, Finding, PagerLocksTypeOK, Ready,
       Ending
  <2>6. DataOK'
    BY <2>1, <2>3, PagerLocksAssumption DEF LInv, Freed, Unread, DataOK, FileOK, PageOK,
       ViewOK, Committed, InUse, Alone, Orderly, HoldsOK, ReservedIs, Ending
  <2>7. QED
    BY <2>2, <2>3, <2>4, <2>5, <2>6 DEF LInv
<1> QED
  BY <1>1, <1>2

(* A process that has ended its transaction holds nothing and knows        *)
(* nothing.                                                                *)
LEMMA ReleaseKeeps ==
  ASSUME LInv, NEW p \in world.procs, Release(p)
  PROVE  LInv'
<1> p \in Procs
  BY PagerLocksAssumption DEF LInv, PagerLocksTypeOK
<1>1. /\ pc[p] \in {"reading", "release"}
      /\ pending' = Freed(pending, p)
      /\ reserved' = Freed(reserved, p)
      /\ readers' = readers \ {p}
      /\ exclusive' = Freed(exclusive, p)
      /\ state' = [state EXCEPT ![p] = "UNLOCK"]
      /\ pc' = [pc EXCEPT ![p] = "idle"]
      /\ view' = [view EXCEPT ![p] = Unread]
      /\ UNCHANGED <<db, journal, opener, new, todo, crashes, errors, world>>
  BY DEF Release, Goto, Believe, files, bounds, UnlockAll
<1>2. PagerLocksTypeOK'
  BY <1>1 DEF LInv, Freed, Unread, PagerLocksTypeOK
<1>3. HoldsOK'
  BY <1>1, PagerLocksAssumption DEF LInv, Freed, PagerLocksTypeOK, HoldsOK, StateIs,
     PendingIs, ReservedIs, ExclusiveIs, JournalIs, Ready
<1>4. RangeOK'
  BY <1>1 DEF LInv, Freed, RangeOK
<1>5. OrderlyOK'
  BY <1>1 DEF LInv, Freed, OrderlyOK, Orderly, PagerLocksTypeOK, Ready, Ending
<1>6. DataOK'
  BY <1>1, <1>3, PagerLocksAssumption DEF LInv, Freed, Unread, DataOK, FileOK, PageOK,
     ViewOK, Committed, InUse, Alone, Orderly, PagerLocksTypeOK, HoldsOK, ReservedIs,
     Ending
<1>7. QED
  BY <1>2, <1>3, <1>4, <1>5, <1>6 DEF LInv

(* A killed process holds nothing; its journal stays, for the next one to  *)
(* play back.                                                              *)
LEMMA CrashKeeps ==
  ASSUME LInv, NEW p \in world.procs, Crash(p)
  PROVE  LInv'
<1> p \in Procs
  BY PagerLocksAssumption DEF LInv, PagerLocksTypeOK
<1>1. /\ pc[p] # "idle"
      /\ crashes < world.crashes
      /\ pending' = Freed(pending, p)
      /\ reserved' = Freed(reserved, p)
      /\ readers' = readers \ {p}
      /\ exclusive' = Freed(exclusive, p)
      /\ state' = [state EXCEPT ![p] = "UNLOCK"]
      /\ pc' = [pc EXCEPT ![p] = "idle"]
      /\ opener' = Freed(opener, p)
      /\ view' = [view EXCEPT ![p] = Unread]
      /\ new' = [new EXCEPT ![p] = None]
      /\ todo' = [todo EXCEPT ![p] = {}]
      /\ crashes' = crashes + 1
      /\ UNCHANGED <<db, journal, errors, world>>
  BY DEF Crash, Goto, Believe, UnlockAll
<1>2. PagerLocksTypeOK'
  BY <1>1, PagerLocksAssumption DEF LInv, Freed, Unread, PagerLocksTypeOK
<1>3. HoldsOK'
  BY <1>1, PagerLocksAssumption DEF LInv, Freed, PagerLocksTypeOK, HoldsOK, StateIs,
     PendingIs, ReservedIs, ExclusiveIs, JournalIs, Ready
<1>4. RangeOK'
  BY <1>1 DEF LInv, Freed, RangeOK
<1>5. OrderlyOK'
  BY <1>1 DEF LInv, OrderlyOK, Orderly, PagerLocksTypeOK
<1>6. DataOK'
  <2> SUFFICES ASSUME Orderly \/ Alone
               PROVE  FileOK' /\ \A q \in Procs : PageOK(q)' /\ ViewOK(q)'
    BY <1>1 DEF DataOK, Orderly, Alone
  <2>1. FileOK /\ \A q \in Procs : PageOK(q) /\ ViewOK(q)
    BY DEF LInv, DataOK
  <2>2. Committed' = Committed
    BY <1>1 DEF Committed
  <2>3. FileOK'
    BY <1>1, <2>1, <2>2 DEF FileOK
  <2>4. ASSUME NEW q \in Procs PROVE PageOK(q)'
    BY <1>1, <2>1, <2>2, PagerLocksAssumption DEF PageOK, FileOK, Whole, Ending, Freed,
       LInv, PagerLocksTypeOK, Version, Pages2Version, HoldsOK, JournalIs, RangeOK,
       OrderlyOK, Orderly, Alone, Ready
  <2>5. ASSUME NEW q \in Procs PROVE ViewOK(q)'
    BY <1>1, <2>1, <2>2 DEF ViewOK, InUse, Unread, Ready, LInv, PagerLocksTypeOK
  <2> QED
    BY <2>3, <2>4, <2>5
<1>7. QED
  BY <1>2, <1>3, <1>4, <1>5, <1>6 DEF LInv

-----------------------------------------------------------------------------
LEMMA LocksStart == LocksInit => LInv
<1> SUFFICES ASSUME LocksInit PROVE LInv
  OBVIOUS
<1>1. PagerLocksTypeOK
  BY PagerLocksAssumption DEF LocksInit, PagerLocksTypeOK, Version, Pages2Version,
     Empty, Whole, Unread
<1>2. HoldsOK
  BY PagerLocksAssumption DEF LocksInit, HoldsOK, StateIs, PendingIs, ReservedIs,
     ExclusiveIs, JournalIs, Ready, Ending
<1>3. RangeOK /\ OrderlyOK
  BY DEF LocksInit, RangeOK, OrderlyOK, Ready, Ending
<1>4. Committed = 0
  BY PagerLocksAssumption DEF LocksInit, Committed, Empty, Whole
<1>5. DataOK
  BY <1>4 DEF LocksInit, DataOK, FileOK, PageOK, ViewOK, InUse, Empty, Whole, Unread,
     Ready
<1> QED
  BY <1>1, <1>2, <1>3, <1>5 DEF LInv

(* Who may do what with the locks and the file is decided in every step.   *)
LEMMA LocksStep == LInv /\ [LocksNext]_lockVars => LInv'
<1> SUFFICES ASSUME LInv, [LocksNext]_lockVars PROVE LInv'
  OBVIOUS
<1>1. CASE LocksNext
  BY <1>1, GetPendingKeeps, GetAgainKeeps, ReserveKeeps, ReadKeeps, RollBackKeeps,
     WriteFailsKeeps, GetSharedKeeps, DropPendingKeeps, ExistsKeeps, ProbeKeeps,
     EndProbeKeeps, YieldKeeps, SeizeKeeps, OpenHotKeeps, CreateKeeps, SyncJournalKeeps,
     PendKeeps, UpgradeKeeps, WritePageKeeps, PlaybackPageKeeps, DropJournalKeeps,
     UnlockKeeps, RelockKeeps, ReleaseKeeps, CrashKeeps DEF LocksNext, Continue
<1>2. CASE UNCHANGED lockVars
  BY <1>2 DEF lockVars, locks, files, cache, bounds, LInv, PagerLocksTypeOK, HoldsOK,
     StateIs, PendingIs, ReservedIs, ExclusiveIs, JournalIs, RangeOK, OrderlyOK,
     Orderly, Alone, DataOK, FileOK, PageOK, ViewOK, Committed, InUse
<1> QED
  BY <1>1, <1>2

(* The locks, the journal and the pages of every process are as LInv says. *)
THEOREM LocksInv == LocksSpec => []LInv
<1> QED
  BY LocksStart, LocksStep, PTL DEF LocksSpec

(* Whoever writes to the file has the locks it believes to have and the    *)
(* journal of what it writes, for any number of processes, kills and open  *)
(* cursors; and in an orderly world, or alone, nobody reads meanwhile and  *)
(* nobody reads what was left half written.                                *)
THEOREM WritersHoldLocks == LocksSpec => []WriterHoldsLocks
<1>1. LInv => WriterHoldsLocks
  <2> SUFFICES ASSUME LInv PROVE WriterHoldsLocks
    OBVIOUS
  <2>1. HoldsLocks
    BY DEF LInv, HoldsOK, StateIs, PendingIs, ReservedIs, ExclusiveIs, JournalIs, Ready,
       HoldsLocks, PagerLocksTypeOK
  <2>2. ASSUME Orderly \/ Alone PROVE WritesAlone
    <3> SUFFICES ASSUME NEW p \in Procs, NEW q \in Procs, p # q, Writing(p)
                 PROVE  InUse(q) = Unread /\ pc[q] # "reading"
      BY DEF WritesAlone
    <3> QED
      BY <2>2, Exclusion DEF Writing, Before, Finding
  <2>3. ASSUME Orderly \/ Alone, Hot, NEW p \in Procs PROVE pc[p] # "reading"
    BY <2>3 DEF Hot, LInv, DataOK, PageOK
  <2> QED
    BY <2>1, <2>2, <2>3 DEF WriterHoldsLocks, HotIsPlayedBack, LInv
<1> QED
  BY <1>1, LocksInv, PTL

-----------------------------------------------------------------------------
(* The processes are one AtomicFile: where nothing that AtomicFile knows   *)
(* of changes, and where a process forgets what it has read.               *)
LEMMA Stutters ==
  ASSUME Committed' = Committed, \A q \in Procs : InUse(q)' = InUse(q)
  PROVE  [Atomic!Next]_Atomic!avars
BY DEF Atomic!avars

LEMMA Forgets ==
  ASSUME NEW p \in Procs, Committed' = Committed, InUse(p)' = Unread,
         \A q \in Procs \ {p} : InUse(q)' = InUse(q)
  PROVE  [Atomic!Next]_Atomic!avars
<1>1. [q \in Procs |-> InUse(q)]'
        = [[q \in Procs |-> InUse(q)] EXCEPT ![p] = Unread]
  OBVIOUS
<1>2. Atomic!Forget(p)
  BY <1>1 DEF Atomic!Forget, Atomic!Unread, Unread
<1> QED
  BY <1>2 DEF Atomic!Next

(* What is committed changes only when a writer deletes its journal.       *)
LEMMA CommittedStays ==
  ASSUME LInv, Orderly \/ Alone, NEW p \in world.procs,
         \/ GetPending(p) \/ GetAgain(p) \/ Reserve(p)
         \/ \E pg \in Pages : Read(p, pg)
         \/ RollBack(p) \/ WriteFails(p) \/ Continue(p) \/ Crash(p),
         ~(DropJournal(p) /\ pc[p] = "write")
  PROVE  Committed' = Committed
<1> p \in Procs
  BY PagerLocksAssumption DEF LInv, PagerLocksTypeOK
<1>1. FileOK /\ PageOK(p) /\ ViewOK(p)
  BY DEF LInv, DataOK
<1>2. CASE \/ GetPending(p) \/ GetAgain(p) \/ Reserve(p)
           \/ \E pg \in Pages : Read(p, pg)
           \/ RollBack(p) \/ GetShared(p) \/ DropPending(p) \/ Exists(p) \/ Probe(p)
           \/ Yield(p) \/ Seize(p) \/ Pend(p) \/ Upgrade(p) \/ Unlock(p)
           \/ Relock(p) \/ Release(p) \/ Crash(p)
  BY <1>2 DEF GetPending, GetAgain, Reserve, Read, RollBack, GetShared, DropPending,
     Exists, Probe, Yield, Seize, Pend, Upgrade, Unlock, Relock, Release, Crash, files,
     Committed
<1>3. CASE EndProbe(p)
  BY <1>1, <1>3 DEF EndProbe, FileOK, Committed, Empty, Whole
<1>4. CASE OpenHot(p)
  BY <1>1, <1>4, PagerLocksAssumption DEF OpenHot, Playback, FileOK, Committed
<1>5. CASE Create(p)
  BY <1>1, <1>5 DEF Create, PageOK, FileOK, Committed
<1>6. CASE SyncJournal(p)
  <2>1. journal \in [orig : Pages2Version, synced : BOOLEAN]
    BY <1>6 DEF SyncJournal, LInv, PagerLocksTypeOK, HoldsOK, JournalIs, Ready
  <2>2. journal' # None /\ journal'.synced /\ journal'.orig = journal.orig
    BY <1>6, <2>1, PagerLocksAssumption DEF SyncJournal, Version, Pages2Version
  <2>3. journal # None
    BY <2>1, PagerLocksAssumption DEF Version, Pages2Version
  <2>4. journal.orig[1] = Committed
    BY <1>1, <2>3, PagerLocksAssumption DEF FileOK, Whole
  <2>5. Committed' = journal'.orig[1]
    BY <2>2 DEF Committed
  <2> QED
    BY <2>2, <2>4, <2>5
<1>7. CASE \E pg \in Pages : WritePage(p, pg)
  BY <1>1, <1>7 DEF WritePage, PageOK, Committed, LInv, HoldsOK, JournalIs, Ready
<1>8. CASE WriteFails(p)
  BY <1>1, <1>8 DEF WriteFails, PageOK, Committed, LInv, HoldsOK, JournalIs, Ready
<1>9. CASE \E pg \in Pages : PlaybackPage(p, pg)
  BY <1>1, <1>9 DEF PlaybackPage, FileOK, Committed, LInv, HoldsOK, JournalIs
<1>10. CASE DropJournal(p) /\ pc[p] = "undo"
  BY <1>1, <1>10, PagerLocksAssumption DEF DropJournal, PageOK, Committed
<1> QED
  BY <1>2, <1>3, <1>4, <1>5, <1>6, <1>7, <1>8, <1>9, <1>10 DEF Continue, DropJournal

(* Deleting the journal of a transaction that was written commits it.      *)
LEMMA DropJournalCommits ==
  ASSUME LInv, Orderly \/ Alone, NEW p \in Procs, DropJournal(p), pc[p] = "write"
  PROVE  Atomic!Commit(p)
<1>1. /\ todo[p] = {}
      /\ journal' = None
      /\ pc' = [pc EXCEPT ![p] = "unlock"]
      /\ view' = [view EXCEPT ![p] = IF new[p] = None THEN @ ELSE Whole(new[p])]
      /\ db' = db
  BY DEF DropJournal, Goto
<1>2. /\ \A pg \in Pages : db[pg] = Committed + 1
      /\ InUse(p) = Whole(Committed)
      /\ new[p] = Committed + 1 /\ Committed + 1 # None
  BY <1>1 DEF LInv, DataOK, PageOK, ViewOK, InUse, HoldsOK, JournalIs, Ready
<1>3. Committed' = Committed + 1
  BY <1>1, <1>2, PagerLocksAssumption DEF Committed
<1>4. \A q \in Procs \ {p} : InUse(q) = Unread
  BY Exclusion DEF LInv, HoldsOK, ExclusiveIs
<1>5. InUse(p)' = Whole(Committed + 1) /\ \A q \in Procs \ {p} : InUse(q)' = InUse(q)
  BY <1>1, <1>2 DEF InUse, LInv, PagerLocksTypeOK
<1>6. [q \in Procs |-> InUse(q)]'
        = [[q \in Procs |-> InUse(q)] EXCEPT ![p] = Whole(Committed + 1)]
  BY <1>5
<1> QED
  BY <1>2, <1>3, <1>4, <1>6 DEF Atomic!Commit, Atomic!Unread, Atomic!Whole, Unread,
     Whole

LEMMA ReadReads ==
  ASSUME LInv, Orderly \/ Alone, NEW p \in Procs, NEW pg \in Pages, Read(p, pg),
         Committed' = Committed
  PROVE  Atomic!Read(p, pg)
<1>1. db[pg] = Committed
  BY DEF Read, LInv, DataOK, PageOK, Whole
<1>2. [q \in Procs |-> InUse(q)]'
        = [[q \in Procs |-> InUse(q)] EXCEPT ![p][pg] = Committed]
  <2>1. InUse(p)' = [InUse(p) EXCEPT ![pg] = Committed]
    BY <1>1 DEF Read, InUse, LInv, PagerLocksTypeOK
  <2>2. \A q \in Procs \ {p} : InUse(q)' = InUse(q)
    BY DEF Read, InUse, LInv
  <2> QED
    BY <2>1, <2>2
<1>3. InUse(p)[pg] = None
  BY DEF Read, InUse
<1> QED
  BY <1>2, <1>3 DEF Atomic!Read

(* The processes together are one AtomicFile: every read is of what was    *)
(* committed last, every transaction is based on it and committed by the   *)
(* deletion of its journal, and a process that is killed commits nothing.  *)
THEOREM ProcessesAreAtomic == LocksSpec => Atomic!Init /\ RefinesAtomicFile
<1>1. LocksInit => Atomic!Init
  <2> SUFFICES ASSUME LocksInit PROVE Atomic!Init
    OBVIOUS
  <2>1. Committed = 0
    BY PagerLocksAssumption DEF LocksInit, Committed, Empty, Whole
  <2> QED
    BY <2>1 DEF LocksInit, InUse, Unread, Atomic!Init, Atomic!Unread
<1>2. LInv /\ [LocksNext]_lockVars
        => (Orderly \/ Alone => [Atomic!Next]_Atomic!avars)
  <2> SUFFICES ASSUME LInv, Orderly \/ Alone, [LocksNext]_lockVars
               PROVE  [Atomic!Next]_Atomic!avars
    OBVIOUS
  <2>1. CASE UNCHANGED lockVars
    BY <2>1 DEF lockVars, files, cache, InUse, Committed, Atomic!avars
  <2>2. ASSUME NEW p \in world.procs,
               \/ GetPending(p) \/ GetAgain(p) \/ Reserve(p)
               \/ \E pg \in Pages : Read(p, pg)
               \/ RollBack(p) \/ WriteFails(p) \/ Continue(p) \/ Crash(p)
        PROVE  [Atomic!Next]_Atomic!avars
    <3> p \in Procs
      BY PagerLocksAssumption DEF LInv, PagerLocksTypeOK
    <3>1. CASE DropJournal(p) /\ pc[p] = "write"
      BY <3>1, DropJournalCommits DEF Atomic!Next
    <3> SUFFICES ASSUME ~(DropJournal(p) /\ pc[p] = "write")
                 PROVE  [Atomic!Next]_Atomic!avars
      BY <3>1
    <3>2. Committed' = Committed
      BY <2>2, CommittedStays
    <3>3. CASE \E pg \in Pages : Read(p, pg)
      BY <3>2, <3>3, ReadReads DEF Atomic!Next
    <3>4. CASE GetPending(p) \/ GetAgain(p) \/ Reserve(p) \/ RollBack(p)
               \/ WriteFails(p) \/ GetShared(p) \/ Exists(p) \/ Probe(p)
      <4>1. \A q \in Procs : InUse(q)' = InUse(q)
        BY <3>4 DEF GetPending, GetAgain, Reserve, RollBack, WriteFails, Playback,
           GetShared, Exists, Probe, Goto, cache, InUse, LInv, PagerLocksTypeOK
      <4> QED
        BY <3>2, <4>1, Stutters
    <3>5. CASE DropPending(p) \/ EndProbe(p) \/ Yield(p) \/ SyncJournal(p) \/ Pend(p)
               \/ Upgrade(p) \/ (\E pg \in Pages : WritePage(p, pg) \/ PlaybackPage(p, pg))
      <4>1. \A q \in Procs : InUse(q)' = InUse(q)
        BY <3>5 DEF DropPending, EndProbe, Yield, SyncJournal, Pend, Upgrade, WritePage,
           PlaybackPage, Goto, cache, InUse, LInv, PagerLocksTypeOK
      <4> QED
        BY <3>2, <4>1, Stutters
    <3>6. CASE Seize(p) \/ OpenHot(p) \/ DropJournal(p)
      <4>1. new[p] = None
        BY <3>6 DEF Seize, OpenHot, DropJournal, LInv, HoldsOK, JournalIs, Ready
      <4>2. \A q \in Procs : InUse(q)' = InUse(q)
        BY <3>6, <4>1 DEF Seize, OpenHot, DropJournal, Playback, Goto, cache, InUse,
           LInv, PagerLocksTypeOK
      <4> QED
        BY <3>2, <4>2, Stutters
    <3>7. CASE Create(p) \/ Release(p) \/ Crash(p)
      <4>1. \A q \in Procs \ {p} : InUse(q)' = InUse(q)
        BY <3>7 DEF Create, Release, Crash, Goto, InUse, LInv, PagerLocksTypeOK
      <4>2. InUse(p)' \in {InUse(p), Unread}
        BY <3>7 DEF Create, Release, Crash, InUse, LInv, PagerLocksTypeOK
      <4> QED
        BY <3>2, <4>1, <4>2, Stutters, Forgets
    <3>8. CASE Unlock(p) \/ Relock(p)
      <4>1. \A q \in Procs \ {p} : InUse(q)' = InUse(q)
        BY <3>8 DEF Unlock, Relock, Resume, Goto, cache, InUse, LInv, PagerLocksTypeOK
      <4>2. InUse(p)' \in {InUse(p), Unread}
        BY <3>8 DEF Unlock, Relock, Resume, cache, InUse, LInv
      <4> QED
        BY <3>2, <4>1, <4>2, Stutters, Forgets
    <3> QED
      BY <2>2, <3>3, <3>4, <3>5, <3>6, <3>7, <3>8 DEF Continue
  <2> QED
    BY <2>1, <2>2 DEF LocksNext
<1> QED
  BY <1>1, <1>2, LocksInv, PTL DEF LocksSpec, RefinesAtomicFile

-----------------------------------------------------------------------------
(***************************************************************************)
(* setDatabase() replaces a database in three steps of the dispatch thread *)
(* and of two workers, and leaves the reader of the old one behind.  What  *)
(* the pieces of state agree on in between makes that safe: a database is  *)
(* announced at most once, only the current one has a reader that is       *)
(* alive, only a deleted reader's database is told to finalize, and, when  *)
(* databases are opened while the reader is idle, nothing is under way     *)
(* that could make a reader that is about to be deleted go on.             *)
(***************************************************************************)

JobKinds == {"open", "read", "push", "pop", "finalize"}
NoteKinds == {"opened", "added", "pushed", "read"}
Jobs == [kind : JobKinds, of : Images \union Reads \union {NoDb}]
Notes == [kind : NoteKinds, db : Dbs, of : Images \union Reads \union {NoDb}]

(* The kinds of the jobs in a queue, and the databases that the messages   *)
(* of one kind are about.                                                  *)
Kinds(q) == {q[i].kind : i \in DOMAIN q}
About(ms, k) == {ms[i].db : i \in {n \in DOMAIN ms : ms[n].kind = k}}

(* A queue with "open" nowhere but in front, messages that announce a      *)
(* database at most once.                                                  *)
OpenInFront(q) == \A i \in DOMAIN q : q[i].kind = "open" => i = 1
OpenedOnce(ms) ==
  \A i, j \in DOMAIN ms :
    ms[i].kind = "opened" /\ ms[j].kind = "opened" /\ ms[i].db = ms[j].db => i = j

-----------------------------------------------------------------------------
(* The inductive invariant.                                                *)

(* Application::db and mr, also while setDatabase() waits.                 *)
Wired ==
  /\ current # NoDb => object[current] = "open"
  /\ current # NoDb /\ main = NoDb => mr[current] = "alive"
  /\ main # NoDb => /\ current # NoDb /\ mr[current] = "deleted"
                    /\ main # current
                    /\ object[main] = "open" /\ mr[main] = "none"
  /\ \A d \in Dbs :
       /\ mr[d] = "alive" => d = current
       /\ mr[d] = "deleted" => object[d] = "deleted" \/ d = current
       /\ object[d] = "deleted" => /\ mr[d] = "deleted" /\ d # current
                                   /\ worker[d] = "exited"
       /\ object[d] = "none" => mr[d] = "none" /\ queue[d] = <<>>

(* A worker ends when nothing can be added any more.                       *)
Drained ==
  \A d \in Dbs :
    /\ worker[d] = "exited" => queue[d] = <<>> /\ closed[d]
    /\ closed[d] \/ "finalize" \in Kinds(queue[d]) => mr[d] = "deleted"

(* A database on its way to setDatabase() is in one place.                 *)
OnItsWay(d) == object[d] = "open" /\ mr[d] = "none" /\ main # d
Announced ==
  /\ OpenedOnce(messages)
  /\ \A d \in Dbs :
       /\ OpenInFront(queue[d])
       /\ "open" \in Kinds(queue[d])
            => OnItsWay(d) /\ d \notin About(messages, "opened")
       /\ d \in About(messages, "opened") => OnItsWay(d)

(* A database without a reader has none of its thread's jobs.              *)
Calm(d) == "push" \notin Kinds(queue[d]) /\ "pop" \notin Kinds(queue[d])
Readerless ==
  /\ About(messages, "added") # {} => current # NoDb
  /\ \A d \in Dbs :
       /\ mr[d] = "none" => reader[d] = "none" /\ ~ping[d] /\ Calm(d)
       /\ d \in About(messages, "pushed") => mr[d] # "none"

(* When databases are opened with care: the next one is the only one, and  *)
(* nothing can wake the reader that it will replace, or has replaced.      *)
Idle(d) == reader[d] = "waits" /\ ~ping[d] /\ Calm(d)
Follows(d) == object[d] = "open" /\ d # current
WithCare ==
  /\ ~usesDeleted
  /\ \A d, e \in Dbs : Follows(d) /\ Follows(e) => d = e
  /\ \A d \in Dbs : Follows(d) /\ current # NoDb =>
       Idle(current) /\ About(messages, "added") = {} /\ About(messages, "pushed") = {}
  /\ \A d \in Dbs : mr[d] = "deleted" => Idle(d)
  /\ \A d \in About(messages, "pushed") : d = current

SwitchInv ==
  /\ SwitchTypeOK /\ Wired /\ Drained /\ Announced /\ Readerless
  /\ Patient => WithCare
-----------------------------------------------------------------------------
(* What one more job, or one job less, changes about a queue.              *)
LEMMA AppendJob ==
  ASSUME NEW q \in Seq(Jobs), NEW j \in Jobs
  PROVE  /\ Append(q, j) \in Seq(Jobs) /\ Append(q, j) # <<>>
         /\ \A k : k \in Kinds(Append(q, j)) <=> k \in Kinds(q) \/ k = j.kind
         /\ OpenInFront(q) /\ (j.kind = "open" => q = <<>>) => OpenInFront(Append(q, j))
<1> DEFINE r == Append(q, j)
<1>1. r \in Seq(Jobs) /\ r # <<>> /\ DOMAIN r = 1..Len(q) + 1 /\ DOMAIN q = 1..Len(q)
      /\ Len(q) \in Nat /\ (\A i \in DOMAIN q : r[i] = q[i]) /\ r[Len(q) + 1] = j
  OBVIOUS
<1> HIDE DEF r
<1>2. ASSUME NEW k PROVE k \in Kinds(r) <=> k \in Kinds(q) \/ k = j.kind
  <2>1. CASE k \in Kinds(r)
    <3>1. PICK i \in DOMAIN r : k = r[i].kind  BY <2>1 DEF Kinds
    <3>2. i \in DOMAIN q \/ i = Len(q) + 1  BY <1>1
    <3> QED  BY <1>1, <3>1, <3>2 DEF Kinds
  <2>2. CASE k \in Kinds(q)
    <3>1. PICK i \in DOMAIN q : k = q[i].kind  BY <2>2 DEF Kinds
    <3>2. i \in DOMAIN r /\ r[i] = q[i]  BY <1>1
    <3> QED  BY <3>1, <3>2 DEF Kinds
  <2>3. CASE k = j.kind
    <3>1. Len(q) + 1 \in DOMAIN r  BY <1>1
    <3> QED  BY <1>1, <2>3, <3>1 DEF Kinds
  <2> QED  BY <2>1, <2>2, <2>3
<1>3. ASSUME OpenInFront(q), j.kind = "open" => q = <<>>  PROVE OpenInFront(r)
  <2> SUFFICES ASSUME NEW i \in DOMAIN r, r[i].kind = "open"  PROVE i = 1
    BY DEF OpenInFront
  <2>1. CASE i \in DOMAIN q  BY <1>1, <1>3, <2>1 DEF OpenInFront
  <2>2. CASE i = Len(q) + 1
    <3>1. q = <<>>  BY <1>1, <1>3, <2>2
    <3> QED  BY <2>2, <3>1
  <2> QED  BY <1>1, <2>1, <2>2
<1> QED  BY <1>1, <1>2, <1>3 DEF r

LEMMA TailJob ==
  ASSUME NEW q \in Seq(Jobs), q # <<>>
  PROVE  /\ Tail(q) \in Seq(Jobs) /\ Head(q) \in Jobs
         /\ Head(q).kind \in Kinds(q)
         /\ \A k : k \in Kinds(Tail(q)) => k \in Kinds(q)
         /\ OpenInFront(q) => OpenInFront(Tail(q)) /\ "open" \notin Kinds(Tail(q))
<1> DEFINE r == Tail(q)
<1>1. /\ r \in Seq(Jobs) /\ Head(q) \in Jobs /\ Head(q) = q[1] /\ 1 \in DOMAIN q
      /\ \A i \in DOMAIN r : i \in Nat /\ i > 0 /\ i + 1 \in DOMAIN q /\ r[i] = q[i + 1]
  OBVIOUS
<1> HIDE DEF r
<1>2. Head(q).kind \in Kinds(q)  BY <1>1 DEF Kinds
<1>3. ASSUME NEW k, k \in Kinds(r)  PROVE k \in Kinds(q)
  <2>1. PICK i \in DOMAIN r : k = r[i].kind  BY <1>3 DEF Kinds
  <2> QED  BY <1>1, <2>1 DEF Kinds
<1>4. ASSUME OpenInFront(q)  PROVE \A i \in DOMAIN r : r[i].kind # "open"
  BY <1>1, <1>4 DEF OpenInFront
<1> QED  BY <1>1, <1>2, <1>3, <1>4 DEF r, OpenInFront, Kinds

(* The same for the messages.                                              *)
LEMMA AppendNote ==
  ASSUME NEW ms \in Seq(Notes), NEW n \in Notes
  PROVE  /\ Append(ms, n) \in Seq(Notes)
         /\ \A k, d : d \in About(Append(ms, n), k)
                        <=> d \in About(ms, k) \/ (k = n.kind /\ d = n.db)
         /\ OpenedOnce(ms) /\ (n.kind = "opened" => n.db \notin About(ms, "opened"))
              => OpenedOnce(Append(ms, n))
<1> DEFINE r == Append(ms, n)
<1>1. r \in Seq(Notes) /\ DOMAIN r = 1..Len(ms) + 1 /\ DOMAIN ms = 1..Len(ms)
      /\ Len(ms) \in Nat /\ (\A i \in DOMAIN ms : r[i] = ms[i]) /\ r[Len(ms) + 1] = n
  OBVIOUS
<1> HIDE DEF r
<1>2. ASSUME NEW k, NEW d
      PROVE d \in About(r, k) <=> d \in About(ms, k) \/ (k = n.kind /\ d = n.db)
  <2>1. CASE d \in About(r, k)
    <3>1. PICK i \in DOMAIN r : r[i].kind = k /\ r[i].db = d  BY <2>1 DEF About
    <3>2. i \in DOMAIN ms \/ i = Len(ms) + 1  BY <1>1
    <3> QED  BY <1>1, <3>1, <3>2 DEF About
  <2>2. CASE d \in About(ms, k)
    <3>1. PICK i \in DOMAIN ms : ms[i].kind = k /\ ms[i].db = d  BY <2>2 DEF About
    <3>2. i \in DOMAIN r /\ r[i] = ms[i]  BY <1>1
    <3> QED  BY <3>1, <3>2 DEF About
  <2>3. CASE k = n.kind /\ d = n.db
    <3>1. Len(ms) + 1 \in DOMAIN r  BY <1>1
    <3> QED  BY <1>1, <2>3, <3>1 DEF About
  <2> QED  BY <2>1, <2>2, <2>3
<1>3. ASSUME OpenedOnce(ms), n.kind = "opened" => n.db \notin About(ms, "opened")
      PROVE  OpenedOnce(r)
  <2> SUFFICES ASSUME NEW i \in DOMAIN r, NEW j \in DOMAIN r,
                      r[i].kind = "opened", r[j].kind = "opened", r[i].db = r[j].db
               PROVE  i = j
    BY DEF OpenedOnce
  <2>1. CASE i \in DOMAIN ms /\ j \in DOMAIN ms  BY <1>1, <1>3, <2>1 DEF OpenedOnce
  <2>2. CASE i \in DOMAIN ms /\ j = Len(ms) + 1  BY <1>1, <1>3, <2>2 DEF About
  <2>3. CASE i = Len(ms) + 1 /\ j \in DOMAIN ms  BY <1>1, <1>3, <2>3 DEF About
  <2>4. CASE i = Len(ms) + 1 /\ j = Len(ms) + 1  BY <2>4
  <2> QED  BY <1>1, <2>1, <2>2, <2>3, <2>4
<1> QED  BY <1>1, <1>2, <1>3 DEF r

LEMMA TailNote ==
  ASSUME NEW ms \in Seq(Notes), ms # <<>>
  PROVE  /\ Tail(ms) \in Seq(Notes) /\ Head(ms) \in Notes
         /\ Head(ms).db \in About(ms, Head(ms).kind)
         /\ \A k, d : d \in About(Tail(ms), k) => d \in About(ms, k)
         /\ OpenedOnce(ms) =>
              /\ OpenedOnce(Tail(ms))
              /\ Head(ms).kind = "opened"
                   => Head(ms).db \notin About(Tail(ms), "opened")
<1> DEFINE r == Tail(ms)
<1>1. /\ r \in Seq(Notes) /\ Head(ms) \in Notes /\ Head(ms) = ms[1] /\ 1 \in DOMAIN ms
      /\ \A i \in DOMAIN r :
           i \in Nat /\ i > 0 /\ i + 1 \in DOMAIN ms /\ r[i] = ms[i + 1]
  OBVIOUS
<1> HIDE DEF r
<1>2. Head(ms).db \in About(ms, Head(ms).kind)  BY <1>1 DEF About
<1>3. ASSUME NEW k, NEW d, d \in About(r, k)  PROVE d \in About(ms, k)
  <2>1. PICK i \in DOMAIN r : r[i].kind = k /\ r[i].db = d  BY <1>3 DEF About
  <2> QED  BY <1>1, <2>1 DEF About
<1>4. ASSUME OpenedOnce(ms)  PROVE OpenedOnce(r)
  <2> SUFFICES ASSUME NEW i \in DOMAIN r, NEW j \in DOMAIN r,
                      r[i].kind = "opened", r[j].kind = "opened", r[i].db = r[j].db
               PROVE  i = j
    BY DEF OpenedOnce
  <2>1. i + 1 = j + 1  BY <1>1, <1>4 DEF OpenedOnce
  <2> QED  BY <1>1, <2>1
<1>5. ASSUME OpenedOnce(ms), Head(ms).kind = "opened",
             Head(ms).db \in About(r, "opened")
      PROVE  FALSE
  <2>1. PICK i \in DOMAIN r : r[i].kind = "opened" /\ r[i].db = Head(ms).db
    BY <1>5 DEF About
  <2>2. i + 1 = 1  BY <1>1, <1>5, <2>1 DEF OpenedOnce
  <2> QED  BY <1>1, <2>2
<1> QED  BY <1>1, <1>2, <1>3, <1>4, <1>5 DEF r

-----------------------------------------------------------------------------
(* The same of the variables, after a step that adds a job to the queue of *)
(* database d, or runs the first one, and after one that posts a message,  *)
(* or takes one.                                                           *)
LEMMA JobAdded ==
  ASSUME SwitchTypeOK, NEW d \in Dbs, NEW j \in Jobs, Add(d, j)
  PROVE  /\ queue' \in [Dbs -> Seq(Jobs)]
         /\ \A e \in Dbs : \A k : k \in Kinds(queue'[e])
                                <=> k \in Kinds(queue[e]) \/ (e = d /\ k = j.kind)
         /\ \A e \in Dbs : queue'[e] = <<>> <=> queue[e] = <<>> /\ e # d
         /\ \A e \in Dbs : /\ OpenInFront(queue[e])
                           /\ e = d => (j.kind = "open" => queue[e] = <<>>)
                           => OpenInFront(queue'[e])
<1>1. queue \in [Dbs -> Seq(Jobs)]  BY DEF SwitchTypeOK, Jobs, JobKinds
<1>2. queue' = [queue EXCEPT ![d] = Append(queue[d], j)]  BY DEF Add
<1>3. queue[d] \in Seq(Jobs)  BY <1>1
<1>4. /\ Append(queue[d], j) \in Seq(Jobs) /\ Append(queue[d], j) # <<>>
      /\ \A k : k \in Kinds(Append(queue[d], j)) <=> k \in Kinds(queue[d]) \/ k = j.kind
      /\ OpenInFront(queue[d]) /\ (j.kind = "open" => queue[d] = <<>>)
           => OpenInFront(Append(queue[d], j))
  BY <1>3, AppendJob
<1> QED  BY <1>1, <1>2, <1>4

LEMMA JobRun ==
  ASSUME SwitchTypeOK, NEW d \in Dbs, queue[d] # <<>>,
         queue' = [queue EXCEPT ![d] = Tail(@)]
  PROVE  /\ queue' \in [Dbs -> Seq(Jobs)]
         /\ Head(queue[d]) \in Jobs /\ Head(queue[d]).kind \in Kinds(queue[d])
         /\ \A e \in Dbs : \A k : k \in Kinds(queue'[e]) => k \in Kinds(queue[e])
         /\ \A e \in Dbs : e # d => queue'[e] = queue[e]
         /\ \A e \in Dbs : OpenInFront(queue[e]) => OpenInFront(queue'[e])
         /\ OpenInFront(queue[d]) => "open" \notin Kinds(queue'[d])
<1>1. queue \in [Dbs -> Seq(Jobs)]  BY DEF SwitchTypeOK, Jobs, JobKinds
<1>2. queue' = [queue EXCEPT ![d] = Tail(queue[d])]  OBVIOUS
<1>3. queue[d] \in Seq(Jobs)  BY <1>1
<1>4. /\ Tail(queue[d]) \in Seq(Jobs) /\ Head(queue[d]) \in Jobs
      /\ Head(queue[d]).kind \in Kinds(queue[d])
      /\ \A k : k \in Kinds(Tail(queue[d])) => k \in Kinds(queue[d])
      /\ OpenInFront(queue[d])
           => OpenInFront(Tail(queue[d])) /\ "open" \notin Kinds(Tail(queue[d]))
  BY <1>3, TailJob
<1> QED  BY <1>1, <1>2, <1>4

LEMMA Posted ==
  ASSUME SwitchTypeOK, NEW n \in Notes, messages' = Append(messages, n)
  PROVE  /\ messages' \in Seq(Notes)
         /\ \A k, d : d \in About(messages', k)
                        <=> d \in About(messages, k) \/ (k = n.kind /\ d = n.db)
         /\ OpenedOnce(messages)
            /\ (n.kind = "opened" => n.db \notin About(messages, "opened"))
              => OpenedOnce(messages')
<1>1. messages \in Seq(Notes)  BY DEF SwitchTypeOK, Notes, NoteKinds
<1> QED  BY <1>1, AppendNote

LEMMA Dispatched ==
  ASSUME SwitchTypeOK, NEW kind, Dispatch(kind)
  PROVE  /\ Running /\ main = NoDb
         /\ messages' \in Seq(Notes)
         /\ Head(messages) \in Notes /\ Head(messages).kind = kind
         /\ Head(messages).db \in About(messages, kind)
         /\ \A k, d : d \in About(messages', k) => d \in About(messages, k)
         /\ OpenedOnce(messages) =>
              /\ OpenedOnce(messages')
              /\ kind = "opened" => Head(messages).db \notin About(messages', "opened")
<1>1. messages \in Seq(Notes)  BY DEF SwitchTypeOK, Notes, NoteKinds
<1> QED  BY <1>1, TailNote DEF Dispatch, Gets

-----------------------------------------------------------------------------
(* The invariant: one lemma for each action, one step for each conjunct    *)
(* that it can disturb.                                                    *)
LEMMA InitInv == SwitchInit => SwitchInv
<1> SUFFICES ASSUME SwitchInit PROVE SwitchInv  OBVIOUS
<1>1. DOMAIN <<>> = {}  OBVIOUS
<1>2. Kinds(<<>>) = {}  BY <1>1 DEF Kinds
<1>3. ASSUME NEW k PROVE About(<<>>, k) = {}  BY <1>1 DEF About
<1>4. OpenInFront(<<>>) /\ OpenedOnce(<<>>)  BY <1>1 DEF OpenInFront, OpenedOnce
<1>5. messages = <<>> /\ \A d \in Dbs : queue[d] = <<>>  BY DEF SwitchInit
<1>6. SwitchTypeOK
  <2>1. messages \in Seq([kind : {"opened", "added", "pushed", "read"},
                         db : Dbs, of : Images \union Reads \union {NoDb}])
    BY <1>5
  <2>2. <<>> \in Seq([kind : {"open", "read", "push", "pop", "finalize"},
                     of : Images \union Reads \union {NoDb}])
    OBVIOUS
  <2> QED  BY <2>1, <2>2 DEF SwitchInit, SwitchTypeOK
<1>7. Wired /\ Drained  BY <1>2, <1>5 DEF SwitchInit, Wired, Drained
<1>8. Announced /\ Readerless
  BY <1>2, <1>3, <1>4, <1>5 DEF SwitchInit, Announced, Readerless, Calm
<1>9. WithCare  BY <1>3, <1>5 DEF SwitchInit, WithCare, Follows
<1> QED  BY <1>6, <1>7, <1>8, <1>9 DEF SwitchInv

(* A new object: its queue is empty, and nothing has announced it. With    *)
(* care it is the only one beside the current one, whose reader is idle.   *)
LEMMA OpenInv == ASSUME SwitchInv, Open PROVE SwitchInv'
<1> USE SwitchAssumption DEF SwitchInv
<1>1. PICK d \in Dbs :
        /\ object[d] = "none"
        /\ Patient => ReaderIsIdle /\ \A e \in Dbs : object[e] = "open" => e = current
        /\ object' = [object EXCEPT ![d] = "open"]
        /\ worker' = [worker EXCEPT ![d] = "runs"]
        /\ Add(d, Job("open", NoDb))
  BY DEF Open
<1>2. /\ UNCHANGED <<messages, main, current, closed, mr, reader, ping, stack,
                     usesDeleted>>
      /\ main = NoDb /\ ~usesDeleted
  BY DEF Open, Gets, Running, mrVars
<1>3. Job("open", NoDb) \in Jobs /\ Job("open", NoDb).kind = "open"
  BY DEF Job, Jobs, JobKinds
<1>4. /\ queue' \in [Dbs -> Seq(Jobs)]
      /\ \A e \in Dbs : \A k : k \in Kinds(queue'[e])
                             <=> k \in Kinds(queue[e]) \/ (e = d /\ k = "open")
      /\ \A e \in Dbs : queue'[e] = <<>> <=> queue[e] = <<>> /\ e # d
      /\ \A e \in Dbs : OpenInFront(queue[e]) /\ (e = d => queue[e] = <<>>)
                          => OpenInFront(queue'[e])
  BY <1>1, <1>3, JobAdded
<1>5. SwitchTypeOK'  BY <1>1, <1>2, <1>4 DEF SwitchTypeOK, Jobs, JobKinds
<1>6. Wired'  BY <1>1, <1>2, <1>4 DEF Wired, SwitchTypeOK
<1>7. Drained'  BY <1>1, <1>2, <1>4 DEF Drained, Wired, SwitchTypeOK
<1>8. Announced'  BY <1>1, <1>2, <1>4 DEF Announced, OnItsWay, Wired, SwitchTypeOK
<1>9. Readerless'  BY <1>1, <1>2, <1>4 DEF Readerless, Calm
<1>10. Patient => WithCare'
  <2> SUFFICES ASSUME Patient PROVE WithCare'  OBVIOUS
  <2>1. \A e \in Dbs : Follows(e)' => e = d
    BY <1>1, <1>2 DEF Follows, SwitchTypeOK
  <2>2. current # NoDb =>
          /\ reader[current] = "waits" /\ ~ping[current] /\ Calm(current)
          /\ About(messages, "added") = {} /\ About(messages, "pushed") = {}
    BY <1>1 DEF ReaderIsIdle, Calm, Kinds, About
  <2>3. \A e \in Dbs : Calm(e) => Calm(e)'  BY <1>4 DEF Calm
  <2>4. current # NoDb => current \in Dbs  BY DEF SwitchTypeOK
  <2>5. \A e \in Dbs : Idle(e) => Idle(e)'  BY <1>2, <2>3 DEF Idle
  <2> QED  BY <1>2, <2>1, <2>2, <2>4, <2>5 DEF WithCare, Idle
<1> QED  BY <1>5, <1>6, <1>7, <1>8, <1>9, <1>10

(* With care there is no database that waits to become current.            *)
LEMMA AddImageInv == ASSUME SwitchInv, AddImage PROVE SwitchInv'
<1> USE SwitchAssumption DEF SwitchInv
<1>1. PICK g \in Images :
        messages' = Append(messages, Note("added", current, g))
  BY DEF AddImage
<1>2. /\ UNCHANGED <<main, current, object, queue, worker, closed, mr, reader, ping,
                     stack, usesDeleted>>
      /\ current \in Dbs /\ current # NoDb
      /\ Patient => \A d \in Dbs : object[d] = "open" => d = current
  BY DEF AddImage, dbVars, mrVars, SwitchTypeOK
<1>3. Note("added", current, g) \in Notes
      /\ Note("added", current, g).kind = "added"
      /\ Note("added", current, g).db = current
  BY <1>2 DEF Note, Notes, NoteKinds
<1>4. /\ messages' \in Seq(Notes)
      /\ \A k, d : d \in About(messages', k)
                     <=> d \in About(messages, k) \/ (k = "added" /\ d = current)
      /\ OpenedOnce(messages) => OpenedOnce(messages')
  BY <1>1, <1>3, Posted
<1>5. SwitchTypeOK'  BY <1>2, <1>4 DEF SwitchTypeOK, Notes, NoteKinds
<1>6. Wired' /\ Drained'  BY <1>2 DEF Wired, Drained
<1>7. Announced'  BY <1>2, <1>4 DEF Announced, OnItsWay
<1>8. Readerless'  BY <1>2, <1>4 DEF Readerless, Calm
<1>9. Patient => WithCare'  BY <1>2, <1>4 DEF WithCare, Follows, Idle, Calm
<1> QED  BY <1>5, <1>6, <1>7, <1>8, <1>9

(* The current database is alive: its worker has not left.                 *)
LEMMA AskInv == ASSUME SwitchInv, Ask PROVE SwitchInv'
<1> USE SwitchAssumption DEF SwitchInv
<1>1. PICK r \in Reads : Add(current, Job("read", r))
  BY DEF Ask
<1>2. /\ UNCHANGED <<messages, main, current, object, worker, closed, mr, reader, ping,
                     stack, usesDeleted>>
      /\ current \in Dbs /\ current # NoDb /\ main = NoDb
  BY DEF Ask, Gets, mrVars, SwitchTypeOK
<1>3. Job("read", r) \in Jobs /\ Job("read", r).kind = "read"
  BY DEF Job, Jobs, JobKinds
<1>4. /\ queue' \in [Dbs -> Seq(Jobs)]
      /\ \A e \in Dbs : \A k : k \in Kinds(queue'[e])
                             <=> k \in Kinds(queue[e]) \/ (e = current /\ k = "read")
      /\ \A e \in Dbs : queue'[e] = <<>> <=> queue[e] = <<>> /\ e # current
      /\ \A e \in Dbs : OpenInFront(queue[e]) => OpenInFront(queue'[e])
  BY <1>1, <1>2, <1>3, JobAdded
<1>5. SwitchTypeOK'  BY <1>2, <1>4 DEF SwitchTypeOK, Jobs, JobKinds
<1>6. Wired'  BY <1>2, <1>4 DEF Wired
<1>7. Drained'  BY <1>2, <1>4 DEF Drained, Wired
<1>8. Announced'  BY <1>2, <1>4 DEF Announced, OnItsWay
<1>9. \A e \in Dbs : Calm(e) => Calm(e)'  BY <1>4 DEF Calm
<1>10. Readerless'  BY <1>2, <1>9 DEF Readerless
<1>11. \A e \in Dbs : (Idle(e) => Idle(e)') /\ (Follows(e)' => Follows(e))
  BY <1>2, <1>9 DEF Idle, Follows
<1>12. Patient => WithCare'  BY <1>2, <1>11 DEF WithCare
<1> QED  BY <1>5, <1>6, <1>7, <1>8, <1>10, <1>12

(* The message finds a current database, whose reader is alive. It would   *)
(* make the reader go on: with care no database waits.                     *)
LEMMA DispatchAddedInv == ASSUME SwitchInv, DispatchAdded PROVE SwitchInv'
<1> USE SwitchAssumption DEF SwitchInv
<1>1. Dispatch("added") /\ Add(current, Job("push", Head(messages).of))
  BY DEF DispatchAdded
<1>2. /\ UNCHANGED <<main, current, object, worker, closed, mr, reader, stack,
                     usesDeleted>>
      /\ ping' = [ping EXCEPT ![current] = TRUE]
  BY DEF DispatchAdded
<1>3. /\ messages' \in Seq(Notes) /\ main = NoDb
      /\ Head(messages) \in Notes /\ Head(messages).db \in About(messages, "added")
      /\ \A k, d : d \in About(messages', k) => d \in About(messages, k)
      /\ OpenedOnce(messages) => OpenedOnce(messages')
  BY <1>1, Dispatched
<1>4. current \in Dbs /\ current # NoDb  BY <1>3 DEF Readerless, SwitchTypeOK
<1>5. /\ Job("push", Head(messages).of) \in Jobs
      /\ Job("push", Head(messages).of).kind = "push"
  BY <1>3 DEF Job, Jobs, JobKinds, Notes
<1>6. /\ queue' \in [Dbs -> Seq(Jobs)]
      /\ \A e \in Dbs : \A k : k \in Kinds(queue'[e])
                             <=> k \in Kinds(queue[e]) \/ (e = current /\ k = "push")
      /\ \A e \in Dbs : queue'[e] = <<>> <=> queue[e] = <<>> /\ e # current
      /\ \A e \in Dbs : OpenInFront(queue[e]) => OpenInFront(queue'[e])
  BY <1>1, <1>4, <1>5, JobAdded
<1>7. SwitchTypeOK'
  BY <1>2, <1>3, <1>4, <1>6 DEF SwitchTypeOK, Jobs, JobKinds, Notes, NoteKinds
<1>8. Wired'  BY <1>2, <1>4, <1>6 DEF Wired
<1>9. Drained'  BY <1>2, <1>3, <1>4, <1>6 DEF Drained, Wired
<1>10. Announced'  BY <1>2, <1>3, <1>4, <1>6 DEF Announced, OnItsWay
<1>11. mr[current] = "alive"  BY <1>3, <1>4 DEF Wired
<1>12. Readerless'
  BY <1>2, <1>3, <1>4, <1>6, <1>11 DEF Readerless, Calm, SwitchTypeOK
<1>13. \A e \in Dbs : e # current => (Idle(e) => Idle(e)')
  BY <1>2, <1>6 DEF Idle, Calm, SwitchTypeOK
<1>14. Patient => \A e \in Dbs : ~Follows(e)
  BY <1>3, <1>4 DEF WithCare
<1>15. Patient => WithCare'
  BY <1>2, <1>3, <1>4, <1>11, <1>13, <1>14 DEF WithCare, Follows
<1> QED  BY <1>7, <1>8, <1>9, <1>10, <1>12, <1>15

(* With care the reader that pushed is the current one, still.             *)
LEMMA DispatchPushedInv == ASSUME SwitchInv, DispatchPushed PROVE SwitchInv'
<1> USE SwitchAssumption DEF SwitchInv
<1> DEFINE d == Head(messages).db
<1>1. /\ messages' \in Seq(Notes) /\ main = NoDb
      /\ Head(messages) \in Notes /\ d \in About(messages, "pushed")
      /\ \A k, e : e \in About(messages', k) => e \in About(messages, k)
      /\ OpenedOnce(messages) => OpenedOnce(messages')
  BY Dispatched DEF DispatchPushed
<1>2. d \in Dbs  BY <1>1 DEF Notes
<1>3. /\ UNCHANGED <<main, current, object, queue, worker, closed, mr, reader, stack>>
      /\ \/ mr[d] = "deleted" /\ usesDeleted' = TRUE /\ UNCHANGED ping
         \/ /\ mr[d] # "deleted" /\ ping' = [ping EXCEPT ![d] = TRUE]
            /\ UNCHANGED usesDeleted
  BY DEF DispatchPushed, dbVars
<1> HIDE DEF d
<1>4. SwitchTypeOK'
  <2>1. ping' \in [Dbs -> BOOLEAN] /\ usesDeleted' \in BOOLEAN
    BY <1>2, <1>3 DEF SwitchTypeOK
  <2> QED  BY <1>1, <1>3, <2>1 DEF SwitchTypeOK, Notes, NoteKinds
<1>5. Wired' /\ Drained'  BY <1>3 DEF Wired, Drained
<1>6. Announced'  BY <1>1, <1>3 DEF Announced, OnItsWay
<1>7. Readerless'  BY <1>1, <1>2, <1>3 DEF Readerless, Calm, SwitchTypeOK
<1>8. Patient => WithCare'
  <2> SUFFICES ASSUME Patient PROVE WithCare'  OBVIOUS
  <2>1. d = current /\ current # NoDb  BY <1>1, <1>2 DEF WithCare
  <2>2. mr[d] = "alive"  BY <1>1, <2>1 DEF Wired
  <2>3. \A e \in Dbs : ~Follows(e)  BY <1>1, <2>1 DEF WithCare
  <2>4. \A e \in Dbs : e # d => (Idle(e) => Idle(e)')
    BY <1>2, <1>3 DEF Idle, Calm, SwitchTypeOK
  <2> QED  BY <1>1, <1>3, <2>2, <2>3, <2>4 DEF WithCare, Follows
<1> QED  BY <1>4, <1>5, <1>6, <1>7, <1>8

LEMMA DispatchReadInv == ASSUME SwitchInv, DispatchRead PROVE SwitchInv'
<1> USE SwitchAssumption DEF SwitchInv
<1>1. /\ messages' \in Seq(Notes)
      /\ \A k, d : d \in About(messages', k) => d \in About(messages, k)
      /\ OpenedOnce(messages) => OpenedOnce(messages')
  BY Dispatched DEF DispatchRead
<1>2. UNCHANGED <<main, current, object, queue, worker, closed, mr, reader, ping,
                  stack, usesDeleted>>
  BY DEF DispatchRead, dbVars, mrVars
<1>3. SwitchTypeOK'  BY <1>1, <1>2 DEF SwitchTypeOK, Notes, NoteKinds
<1>4. Wired' /\ Drained'  BY <1>2 DEF Wired, Drained
<1>5. Announced'  BY <1>1, <1>2 DEF Announced, OnItsWay
<1>6. Readerless'  BY <1>1, <1>2 DEF Readerless, Calm
<1>7. Patient => WithCare'  BY <1>1, <1>2 DEF WithCare, Follows, Idle, Calm
<1> QED  BY <1>3, <1>4, <1>5, <1>6, <1>7

(* The database is announced nowhere else. It either becomes current, or   *)
(* the current one's reader is deleted and its worker told to finalize;    *)
(* with care the reader is idle, since a database follows.                 *)
LEMMA DispatchOpenedInv == ASSUME SwitchInv, DispatchOpened PROVE SwitchInv'
<1> USE SwitchAssumption DEF SwitchInv
<1> DEFINE d == Head(messages).db
<1>1. /\ messages' \in Seq(Notes) /\ main = NoDb
      /\ Head(messages) \in Notes /\ d \in About(messages, "opened")
      /\ \A k, e : e \in About(messages', k) => e \in About(messages, k)
      /\ OpenedOnce(messages)
           => OpenedOnce(messages') /\ d \notin About(messages', "opened")
  BY Dispatched DEF DispatchOpened
<1>2. /\ d \in Dbs /\ d # NoDb
      /\ object[d] = "open" /\ mr[d] = "none" /\ "open" \notin Kinds(queue[d])
      /\ d # current
  BY <1>1 DEF Notes, Announced, OnItsWay, Wired
<1>3. /\ UNCHANGED usesDeleted
      /\ \/ current # NoDb /\ Replace(d)
         \/ current = NoDb /\ Adopt(d) /\ UNCHANGED <<main, dbVars, ping, stack>>
  BY DEF DispatchOpened
<1> HIDE DEF d
<1>4. CASE current # NoDb /\ Replace(d)
  <2>1. /\ UNCHANGED <<current, object, worker, closed, reader, ping, stack>>
        /\ mr' = [mr EXCEPT ![current] = "deleted"] /\ main' = d
        /\ Add(current, Job("finalize", NoDb))
        /\ current \in Dbs /\ mr[current] = "alive"
    BY <1>1, <1>4 DEF Replace, SwitchTypeOK, Wired
  <2>2. Job("finalize", NoDb) \in Jobs /\ Job("finalize", NoDb).kind = "finalize"
    BY DEF Job, Jobs, JobKinds
  <2>3. /\ queue' \in [Dbs -> Seq(Jobs)]
        /\ \A e \in Dbs : \A k :
             k \in Kinds(queue'[e])
               <=> k \in Kinds(queue[e]) \/ (e = current /\ k = "finalize")
        /\ \A e \in Dbs : queue'[e] = <<>> <=> queue[e] = <<>> /\ e # current
        /\ \A e \in Dbs : OpenInFront(queue[e]) => OpenInFront(queue'[e])
    BY <2>1, <2>2, JobAdded
  <2>4. SwitchTypeOK'
    <3>1. mr' \in [Dbs -> {"none", "alive", "deleted"}]  BY <2>1 DEF SwitchTypeOK
    <3> QED
      BY <1>1, <1>2, <1>3, <2>1, <2>3, <3>1
      DEF SwitchTypeOK, Jobs, JobKinds, Notes, NoteKinds
  <2>5. Wired'  BY <1>2, <1>4, <2>1, <2>3 DEF Wired, SwitchTypeOK
  <2>6. Drained'  BY <2>1, <2>3 DEF Drained, SwitchTypeOK
  <2>7. Announced'
    BY <1>1, <1>2, <2>1, <2>3 DEF Announced, OnItsWay, SwitchTypeOK
  <2>8. Readerless'  BY <1>1, <1>4, <2>1, <2>3 DEF Readerless, Calm, SwitchTypeOK
  <2>9. \A e \in Dbs : (Idle(e) => Idle(e)') /\ (Follows(e)' => Follows(e))
    BY <2>1, <2>3 DEF Idle, Calm, Follows
  <2>10. Patient => WithCare'
    <3> SUFFICES ASSUME Patient PROVE WithCare'  OBVIOUS
    <3>1. Follows(d) /\ Idle(current)  BY <1>2, <1>4 DEF WithCare, Follows
    <3>2. About(messages', "added") = {} /\ About(messages', "pushed") = {}
      BY <1>1, <1>2, <1>4, <3>1 DEF WithCare
    <3> QED  BY <1>3, <2>1, <2>9, <3>1, <3>2 DEF WithCare, SwitchTypeOK
  <2> QED  BY <2>4, <2>5, <2>6, <2>7, <2>8, <2>10
<1>5. CASE current = NoDb /\ Adopt(d) /\ UNCHANGED <<main, dbVars, ping, stack>>
  <2>1. /\ UNCHANGED <<main, object, queue, worker, closed, ping, stack>>
        /\ current' = d
        /\ mr' = [mr EXCEPT ![d] = "alive"] /\ reader' = [reader EXCEPT ![d] = "waits"]
    BY <1>5 DEF Adopt, dbVars
  <2>2. SwitchTypeOK'
    BY <1>1, <1>2, <1>3, <2>1 DEF SwitchTypeOK, Notes, NoteKinds
  <2>3. Wired'  BY <1>1, <1>2, <1>5, <2>1 DEF Wired, SwitchTypeOK
  <2>4. Drained'  BY <1>2, <2>1 DEF Drained, SwitchTypeOK
  <2>5. Announced'  BY <1>1, <1>2, <2>1 DEF Announced, OnItsWay, SwitchTypeOK
  <2>6. Readerless'  BY <1>1, <1>2, <2>1 DEF Readerless, Calm, SwitchTypeOK
  <2>7. Patient => WithCare'
    <3> SUFFICES ASSUME Patient PROVE WithCare'  OBVIOUS
    <3>1. \A e \in Dbs : ~Follows(e)'
      BY <1>2, <1>5, <2>1 DEF WithCare, Follows
    <3>2. \A e \in Dbs :
            mr'[e] = "deleted" => mr[e] = "deleted" /\ reader'[e] = reader[e]
      BY <1>2, <2>1 DEF SwitchTypeOK
    <3>3. About(messages', "pushed") = {}
      <4> SUFFICES ASSUME NEW e, e \in About(messages, "pushed") PROVE FALSE
        BY <1>1
      <4>1. e = NoDb  BY <1>5 DEF WithCare
      <4>2. messages \in Seq(Notes)  BY DEF SwitchTypeOK, Notes, NoteKinds
      <4>3. PICK i \in DOMAIN messages : messages[i].db = e  BY DEF About
      <4>4. messages[i] \in Notes  BY <4>2
      <4>5. e \in Dbs  BY <4>3, <4>4 DEF Notes
      <4> QED  BY <4>1, <4>5
    <3> QED  BY <1>3, <2>1, <3>1, <3>2, <3>3 DEF WithCare, Idle, Calm
  <2> QED  BY <2>2, <2>3, <2>4, <2>5, <2>6, <2>7
<1> QED  BY <1>3, <1>4, <1>5

(* The worker has left and the queue is empty for good. Messages of the    *)
(* old reader would now be about a deleted one; with care there are none.  *)
LEMMA JoinedInv == ASSUME SwitchInv, Joined PROVE SwitchInv'
<1> USE SwitchAssumption DEF SwitchInv
<1>1. /\ UNCHANGED <<messages, queue, worker, closed, ping, stack, usesDeleted>>
      /\ main # NoDb /\ main' = NoDb /\ current' = main
      /\ worker[current] = "exited"
      /\ object' = [object EXCEPT ![current] = "deleted"]
      /\ mr' = [mr EXCEPT ![main] = "alive"]
      /\ reader' = [reader EXCEPT ![main] = "waits"]
  BY DEF Joined, Adopt
<1>2. /\ main \in Dbs /\ current \in Dbs /\ current # NoDb /\ main # current
      /\ mr[current] = "deleted" /\ object[main] = "open" /\ mr[main] = "none"
  BY <1>1 DEF Wired, SwitchTypeOK
<1>3. SwitchTypeOK'
  <2>1. /\ object' \in [Dbs -> {"none", "open", "deleted"}]
        /\ mr' \in [Dbs -> {"none", "alive", "deleted"}]
        /\ reader' \in [Dbs -> {"none", "waits", "tests", "pops", "returns"}]
    BY <1>1, <1>2 DEF SwitchTypeOK
  <2> QED  BY <1>1, <1>2, <2>1 DEF SwitchTypeOK
<1>4. Wired'  BY <1>1, <1>2 DEF Wired, SwitchTypeOK
<1>5. Drained'  BY <1>1, <1>2 DEF Drained, SwitchTypeOK
<1>6. Announced'  BY <1>1, <1>2 DEF Announced, OnItsWay, SwitchTypeOK
<1>7. Readerless'  BY <1>1, <1>2 DEF Readerless, Calm, SwitchTypeOK
<1>8. Patient => WithCare'
  <2> SUFFICES ASSUME Patient PROVE WithCare'  OBVIOUS
  <2>1. Follows(main)  BY <1>2 DEF Follows
  <2>2. About(messages, "pushed") = {}  BY <1>2, <2>1 DEF WithCare
  <2>3. \A e \in Dbs : ~Follows(e)'
    BY <1>1, <1>2, <2>1 DEF WithCare, Follows, SwitchTypeOK
  <2>4. \A e \in Dbs : mr'[e] = "deleted" => mr[e] = "deleted" /\ reader'[e] = reader[e]
    BY <1>1, <1>2 DEF SwitchTypeOK
  <2> QED  BY <1>1, <2>2, <2>3, <2>4 DEF WithCare, Idle, Calm
<1> QED  BY <1>3, <1>4, <1>5, <1>6, <1>7, <1>8

(* Its queue is empty and closed, and so it stays.                         *)
LEMMA WorkerExitsInv == ASSUME SwitchInv, NEW d \in Dbs, WorkerExits(d) PROVE SwitchInv'
<1> USE SwitchAssumption DEF SwitchInv
<1>1. /\ UNCHANGED <<messages, main, current, object, queue, closed, mr, reader, ping,
                     stack, usesDeleted>>
      /\ queue[d] = <<>> /\ closed[d]
      /\ worker' = [worker EXCEPT ![d] = "exited"]
  BY DEF WorkerExits, mrVars
<1>2. SwitchTypeOK'  BY <1>1 DEF SwitchTypeOK
<1>3. Wired' /\ Drained'  BY <1>1 DEF Wired, Drained, SwitchTypeOK
<1>4. Announced' /\ Readerless'  BY <1>1 DEF Announced, OnItsWay, Readerless, Calm
<1>5. Patient => WithCare'  BY <1>1 DEF WithCare, Follows, Idle, Calm
<1> QED  BY <1>2, <1>3, <1>4, <1>5

(* A reader that is pinged is not an idle one.                             *)
LEMMA ReaderWakesInv == ASSUME SwitchInv, NEW d \in Dbs, ReaderWakes(d) PROVE SwitchInv'
<1> USE SwitchAssumption DEF SwitchInv
<1>1. /\ UNCHANGED <<messages, main, current, object, queue, worker, closed, mr,
                     stack, usesDeleted>>
      /\ reader[d] = "waits" /\ ping[d]
      /\ ping' = [ping EXCEPT ![d] = FALSE] /\ reader' = [reader EXCEPT ![d] = "tests"]
  BY DEF ReaderWakes, dbVars
<1>2. SwitchTypeOK'  BY <1>1 DEF SwitchTypeOK
<1>3. Wired' /\ Drained'  BY <1>1 DEF Wired, Drained
<1>4. Announced' /\ Readerless'
  BY <1>1 DEF Announced, OnItsWay, Readerless, Calm, SwitchTypeOK
<1>5. \A e \in Dbs : Idle(e) => Idle(e)'  BY <1>1 DEF Idle, Calm
<1>6. Patient => WithCare'  BY <1>1, <1>5 DEF WithCare, Follows, SwitchTypeOK
<1> QED  BY <1>2, <1>3, <1>4, <1>6

(* A reader that tests is not an idle one: with care it is not a deleted   *)
(* one. A reader that is not deleted has a database that is not told to    *)
(* finalize.                                                               *)
LEMMA ReaderPopsInv == ASSUME SwitchInv, NEW d \in Dbs, ReaderPops(d) PROVE SwitchInv'
<1> USE SwitchAssumption DEF SwitchInv
<1>1. /\ UNCHANGED <<messages, main, current, object, worker, closed, mr, ping, stack>>
      /\ reader[d] = "tests"
  BY DEF ReaderPops
<1>2. CASE mr[d] = "deleted" \/ object[d] = "deleted"
  <2>1. usesDeleted' = TRUE /\ UNCHANGED <<queue, reader>>  BY <1>2 DEF ReaderPops
  <2>2. SwitchTypeOK'  BY <1>1, <2>1 DEF SwitchTypeOK
  <2>3. Wired' /\ Drained'  BY <1>1, <2>1 DEF Wired, Drained
  <2>4. Announced' /\ Readerless'
    BY <1>1, <2>1 DEF Announced, OnItsWay, Readerless, Calm
  <2>5. Patient => FALSE  BY <1>1, <1>2 DEF Wired, WithCare, Idle
  <2> QED  BY <2>2, <2>3, <2>4, <2>5
<1>3. CASE mr[d] # "deleted" /\ object[d] # "deleted"
  <2>1. /\ Add(d, Job("pop", NoDb))
        /\ reader' = [reader EXCEPT ![d] = "pops"] /\ UNCHANGED usesDeleted
    BY <1>3 DEF ReaderPops
  <2>2. Job("pop", NoDb) \in Jobs /\ Job("pop", NoDb).kind = "pop"
    BY DEF Job, Jobs, JobKinds
  <2>3. /\ queue' \in [Dbs -> Seq(Jobs)]
        /\ \A e \in Dbs : \A k : k \in Kinds(queue'[e])
                               <=> k \in Kinds(queue[e]) \/ (e = d /\ k = "pop")
        /\ \A e \in Dbs : queue'[e] = <<>> <=> queue[e] = <<>> /\ e # d
        /\ \A e \in Dbs : OpenInFront(queue[e]) => OpenInFront(queue'[e])
    BY <2>1, <2>2, JobAdded
  <2>4. mr[d] = "alive"  BY <1>1, <1>3 DEF Readerless, SwitchTypeOK
  <2>5. SwitchTypeOK'  BY <1>1, <2>1, <2>3 DEF SwitchTypeOK, Jobs, JobKinds
  <2>6. Wired'  BY <1>1, <2>3, <2>4 DEF Wired
  <2>7. Drained'  BY <1>1, <2>3, <2>4 DEF Drained
  <2>8. Announced'  BY <1>1, <2>3 DEF Announced, OnItsWay
  <2>9. Readerless'  BY <1>1, <2>1, <2>3, <2>4 DEF Readerless, Calm, SwitchTypeOK
  <2>10. ~Idle(d) /\ \A e \in Dbs : e # d => (Idle(e) => Idle(e)')
    BY <1>1, <2>1, <2>3 DEF Idle, Calm, SwitchTypeOK
  <2>11. Patient => WithCare'  BY <1>1, <2>1, <2>10 DEF WithCare, Follows, SwitchTypeOK
  <2> QED  BY <2>5, <2>6, <2>7, <2>8, <2>9, <2>11
<1> QED  BY <1>2, <1>3

(* Nor is one that returns.                                                *)
LEMMA ReaderReturnsInv ==
  ASSUME SwitchInv, NEW d \in Dbs, ReaderReturns(d) PROVE SwitchInv'
<1> USE SwitchAssumption DEF SwitchInv
<1>1. /\ UNCHANGED <<messages, main, current, object, queue, worker, closed, mr, ping,
                     stack>>
      /\ reader[d] = "returns"
      /\ \/ mr[d] = "deleted" /\ usesDeleted' = TRUE /\ UNCHANGED reader
         \/ reader' = [reader EXCEPT ![d] = "waits"] /\ UNCHANGED usesDeleted
  BY DEF ReaderReturns, dbVars
<1>2. SwitchTypeOK'
  <2>1. reader' \in [Dbs -> {"none", "waits", "tests", "pops", "returns"}]
        /\ usesDeleted' \in BOOLEAN
    BY <1>1 DEF SwitchTypeOK
  <2> QED  BY <1>1, <2>1 DEF SwitchTypeOK
<1>3. Wired' /\ Drained'  BY <1>1 DEF Wired, Drained
<1>4. Announced' /\ Readerless'
  BY <1>1 DEF Announced, OnItsWay, Readerless, Calm, SwitchTypeOK
<1>5. \A e \in Dbs : Idle(e) => e # d /\ Idle(e)'  BY <1>1 DEF Idle, Calm, SwitchTypeOK
<1>6. Patient => WithCare'  BY <1>1, <1>5 DEF WithCare, Follows, SwitchTypeOK
<1> QED  BY <1>2, <1>3, <1>4, <1>6

(* What every job of a worker does, and what each of them may do.          *)
LEMMA RunJobInv == ASSUME SwitchInv, NEW d \in Dbs, RunJob(d) PROVE SwitchInv'
<1> USE SwitchAssumption DEF SwitchInv
<1> DEFINE j == Head(queue[d])
           Calls(k) == messages' = Append(messages, Note(k, d, j.of))
<1>1. /\ UNCHANGED <<main, current, object, worker, mr, ping, usesDeleted>>
      /\ queue[d] # <<>> /\ queue' = [queue EXCEPT ![d] = Tail(@)]
  BY DEF RunJob
<1>2. /\ queue' \in [Dbs -> Seq(Jobs)]
      /\ j \in Jobs /\ j.kind \in Kinds(queue[d])
      /\ \A e \in Dbs : \A k : k \in Kinds(queue'[e]) => k \in Kinds(queue[e])
      /\ \A e \in Dbs : e # d => queue'[e] = queue[e]
      /\ \A e \in Dbs : OpenInFront(queue[e]) => OpenInFront(queue'[e])
      /\ OpenInFront(queue[d]) => "open" \notin Kinds(queue'[d])
  BY <1>1, JobRun
<1>3. j.kind \in JobKinds  BY <1>2 DEF Jobs
<1>4. \/ j.kind = "open" /\ Calls("opened") /\ UNCHANGED <<closed, reader>>
      \/ j.kind = "read" /\ Calls("read") /\ UNCHANGED <<closed, reader>>
      \/ j.kind = "push" /\ Calls("pushed") /\ UNCHANGED <<closed, reader>>
      \/ j.kind = "push" /\ UNCHANGED <<messages, closed, reader>>
      \/ /\ j.kind = "pop" /\ UNCHANGED <<messages, closed>>
         /\ \E s \in {"tests", "returns"} : reader' = [reader EXCEPT ![d] = s]
      \/ /\ j.kind = "finalize" /\ UNCHANGED <<messages, reader>>
         /\ closed' = [closed EXCEPT ![d] = TRUE]
  <2>1. CASE j.kind = "open"  BY <2>1 DEF RunJob
  <2>2. CASE j.kind = "read"  BY <2>2 DEF RunJob
  <2>3. CASE j.kind = "push"  BY <2>3 DEF RunJob
  <2>4. CASE j.kind = "pop"  BY <2>4 DEF RunJob
  <2>5. CASE j.kind = "finalize"  BY <2>5 DEF RunJob, CloseEvent
  <2> QED  BY <1>3, <2>1, <2>2, <2>3, <2>4, <2>5 DEF JobKinds
<1>5. ASSUME NEW k \in NoteKinds
      PROVE  /\ Note(k, d, j.of) \in Notes
             /\ Note(k, d, j.of).kind = k /\ Note(k, d, j.of).db = d
  BY <1>2 DEF Note, Notes, Jobs
<1> HIDE DEF j
<1>6. ASSUME NEW k \in NoteKinds, Calls(k)
      PROVE  /\ messages' \in Seq(Notes)
             /\ \A l, e : e \in About(messages', l)
                            <=> e \in About(messages, l) \/ (l = k /\ e = d)
             /\ OpenedOnce(messages)
                /\ (k = "opened" => d \notin About(messages, "opened"))
                  => OpenedOnce(messages')
  BY <1>5, <1>6, Posted
<1>7. /\ "opened" \in NoteKinds /\ "pushed" \in NoteKinds /\ "read" \in NoteKinds
      /\ messages \in Seq(Notes)
  BY DEF NoteKinds, SwitchTypeOK, Notes
<1>8. /\ messages' \in Seq(Notes)
      /\ \A e : e \in About(messages', "added") => e \in About(messages, "added")
      /\ \A e : e \in About(messages', "pushed")
                  => e \in About(messages, "pushed") \/ (e = d /\ j.kind = "push")
      /\ \A e : e \in About(messages', "opened")
                  => e \in About(messages, "opened") \/ (e = d /\ j.kind = "open")
      /\ OpenedOnce(messages)
         /\ (j.kind = "open" => d \notin About(messages, "opened"))
           => OpenedOnce(messages')
  <2>1. CASE UNCHANGED messages  BY <1>7, <2>1
  <2>2. CASE j.kind = "open" /\ Calls("opened")  BY <1>6, <1>7, <2>2
  <2>3. CASE j.kind = "read" /\ Calls("read")  BY <1>6, <1>7, <2>3
  <2>4. CASE j.kind = "push" /\ Calls("pushed")  BY <1>6, <1>7, <2>4
  <2> QED  BY <1>4, <2>1, <2>2, <2>3, <2>4
<1> HIDE DEF Calls
<1>9. /\ closed' \in [Dbs -> BOOLEAN]
      /\ \A e \in Dbs : closed'[e] <=> closed[e] \/ (e = d /\ j.kind = "finalize")
      /\ reader' \in [Dbs -> {"none", "waits", "tests", "pops", "returns"}]
      /\ \A e \in Dbs : e # d \/ j.kind # "pop" => reader'[e] = reader[e]
  <2>1. CASE UNCHANGED <<closed, reader>> /\ j.kind # "finalize"
    BY <2>1 DEF SwitchTypeOK
  <2>2. CASE /\ j.kind = "pop" /\ UNCHANGED closed
             /\ \E s \in {"tests", "returns"} : reader' = [reader EXCEPT ![d] = s]
    BY <2>2 DEF SwitchTypeOK
  <2>3. CASE /\ j.kind = "finalize" /\ UNCHANGED reader
             /\ closed' = [closed EXCEPT ![d] = TRUE]
    BY <2>3 DEF SwitchTypeOK
  <2> QED  BY <1>4, <2>1, <2>2, <2>3
<1>10. SwitchTypeOK'
  <2>1. messages' \in Seq(Notes)  BY <1>8
  <2>2. queue' \in [Dbs -> Seq(Jobs)]  BY <1>2
  <2> QED
    BY <1>1, <1>9, <2>1, <2>2 DEF SwitchTypeOK, Jobs, JobKinds, Notes, NoteKinds
<1>11. Wired'
  <2>1. \A e \in Dbs : queue[e] = <<>> => queue'[e] = queue[e]  BY <1>1, <1>2
  <2> QED  BY <1>1, <2>1 DEF Wired
<1>12. Drained'
  <2>1. \A e \in Dbs : queue[e] = <<>> => queue'[e] = queue[e]  BY <1>1, <1>2
  <2> QED  BY <1>1, <1>2, <1>9, <2>1 DEF Drained
<1>13. Announced'
  <2>1. OpenedOnce(messages')  BY <1>2, <1>8 DEF Announced
  <2>2. ASSUME NEW e \in Dbs, "open" \in Kinds(queue'[e])
        PROVE  OnItsWay(e) /\ e \notin About(messages', "opened")
    BY <1>2, <1>8, <2>2 DEF Announced
  <2>3. ASSUME NEW e \in Dbs, e \in About(messages', "opened")  PROVE OnItsWay(e)
    BY <1>2, <1>8, <2>3 DEF Announced
  <2>4. \A e \in Dbs : OnItsWay(e)' <=> OnItsWay(e)  BY <1>1 DEF OnItsWay
  <2> QED  BY <1>2, <2>1, <2>2, <2>3, <2>4 DEF Announced
<1>14. Readerless'
  <2>1. About(messages', "added") # {} => current # NoDb  BY <1>8 DEF Readerless
  <2>2. ASSUME NEW e \in Dbs, mr[e] = "none"
        PROVE  reader'[e] = "none" /\ ~ping[e] /\ Calm(e)'
    <3>1. reader[e] = "none" /\ ~ping[e] /\ Calm(e)  BY <2>2 DEF Readerless
    <3>2. e # d \/ j.kind # "pop"  BY <1>2, <3>1 DEF Calm
    <3> QED  BY <1>2, <1>9, <3>1, <3>2 DEF Calm
  <2>3. ASSUME NEW e \in Dbs, e \in About(messages', "pushed")  PROVE mr[e] # "none"
    BY <1>2, <1>8, <2>3 DEF Readerless, Calm
  <2> QED  BY <1>1, <2>1, <2>2, <2>3 DEF Readerless
<1>15. Patient => WithCare'
  <2> SUFFICES ASSUME Patient PROVE WithCare'  OBVIOUS
  <2>1. \A e \in Dbs : Idle(e) => Idle(e)'  BY <1>1, <1>2, <1>9 DEF Idle, Calm
  <2>2. ASSUME j.kind = "push" PROVE d = current /\ ~Idle(current)
    <3>1. ~Calm(d) /\ queue[d] # <<>>  BY <1>1, <1>2, <2>2 DEF Calm
    <3>2. mr[d] # "none" /\ mr[d] # "deleted"
      BY <3>1 DEF Readerless, WithCare, Idle
    <3>3. d = current  BY <3>2 DEF Wired, SwitchTypeOK
    <3> QED  BY <3>1, <3>3 DEF Idle
  <2>3. ASSUME NEW e \in Dbs, Follows(e), current # NoDb
        PROVE  /\ Idle(current) /\ About(messages', "added") = {}
               /\ About(messages', "pushed") = {}
    <3>1. /\ Idle(current) /\ About(messages, "added") = {}
          /\ About(messages, "pushed") = {}
      BY <2>3 DEF WithCare
    <3> QED  BY <1>8, <2>2, <3>1
  <2>4. \A e \in Dbs : Follows(e)' <=> Follows(e)  BY <1>1 DEF Follows
  <2>5. current # NoDb => current \in Dbs  BY DEF SwitchTypeOK
  <2>6. \A e \in About(messages', "pushed") : e = current
    BY <1>8, <2>2 DEF WithCare
  <2> QED  BY <1>1, <2>1, <2>3, <2>4, <2>5, <2>6 DEF WithCare
<1> QED  BY <1>10, <1>11, <1>12, <1>13, <1>14, <1>15

-----------------------------------------------------------------------------
LEMMA StutterInv == ASSUME SwitchInv, UNCHANGED switchVars PROVE SwitchInv'
<1>1. UNCHANGED <<messages, main, current, object, queue, worker, closed, mr, reader,
                  ping, stack, usesDeleted>>
  BY DEF switchVars, dbVars, mrVars
<1>2. SwitchTypeOK' /\ Wired' /\ Drained'
  BY <1>1 DEF SwitchInv, SwitchTypeOK, Wired, Drained
<1>3. Announced' /\ Readerless'
  BY <1>1 DEF SwitchInv, Announced, OnItsWay, Readerless, Calm
<1>4. Patient => WithCare'
  BY <1>1 DEF SwitchInv, WithCare, Follows, Idle, Calm
<1> QED  BY <1>2, <1>3, <1>4 DEF SwitchInv

(* In every reachable state, whether databases are opened with care or     *)
(* not: what the invariant says of Application::db, the readers and the    *)
(* workers, for any number of databases that replace one another.          *)
THEOREM SwitchInvariant == SwitchSpec => []SwitchInv
<1>1. SwitchInv /\ [SwitchNext]_switchVars => SwitchInv'
  <2> SUFFICES ASSUME SwitchInv, [SwitchNext]_switchVars PROVE SwitchInv'  OBVIOUS
  <2>1. CASE Open  BY <2>1, OpenInv
  <2>2. CASE AddImage  BY <2>2, AddImageInv
  <2>3. CASE Ask  BY <2>3, AskInv
  <2>4. CASE DispatchOpened  BY <2>4, DispatchOpenedInv
  <2>5. CASE Joined  BY <2>5, JoinedInv
  <2>6. CASE DispatchAdded  BY <2>6, DispatchAddedInv
  <2>7. CASE DispatchPushed  BY <2>7, DispatchPushedInv
  <2>8. CASE DispatchRead  BY <2>8, DispatchReadInv
  <2>9. ASSUME NEW d \in Dbs, Worker(d) PROVE SwitchInv'
    BY <2>9, RunJobInv, WorkerExitsInv DEF Worker
  <2>10. ASSUME NEW d \in Dbs, ReaderStep(d) PROVE SwitchInv'
    BY <2>10, ReaderWakesInv, ReaderPopsInv, ReaderReturnsInv DEF ReaderStep
  <2>11. CASE UNCHANGED switchVars  BY <2>11, StutterInv
  <2> QED
    BY <2>1, <2>2, <2>3, <2>4, <2>5, <2>6, <2>7, <2>8, <2>9, <2>10, <2>11
    DEF SwitchNext, Main
<1> QED  BY <1>1, InitInv, PTL DEF SwitchSpec

(* A database that setDatabase() has deleted has run every job it was      *)
(* given, so that no read is lost; and, when the reader is idle by the     *)
(* time the next database is opened, neither its thread nor a callback     *)
(* ever uses the deleted reader or the deleted database.                   *)
THEOREM NothingIsUsedDeleted == SwitchSpec => []NothingUsesDeleted
<1>1. SwitchInv => NothingUsesDeleted
  BY DEF SwitchInv, NothingUsesDeleted, DeletedIsDrained, Wired, Drained, WithCare
<1> QED  BY <1>1, SwitchInvariant, PTL

-----------------------------------------------------------------------------
(* The test and the application it started: what is on its way between     *)
(* them.                                                                   *)

Strings == [msg : Messages, part : 1..3]
Str(m, k) == [msg |-> m, part |-> k]
AtRest(t) == t = NewMessage \/ t = Thread("pending", <<>>)
Partly(t, m, k) ==
  /\ t.at \in {"call", "pending"} /\ Len(t.got) = k
  /\ \A i \in 1..k : t.got[i].msg = m
Connected == pipe = "connected"
Posting == testMain \in {"object", "flush1", "flush2"}

(* What agrees with the place of the test's main thread.                   *)
PlaceInv ==
  /\ TesterTypeOK
  /\ event => history # <<>>
  /\ testMain = "take" => history # <<>> /\ step \in Step("wait")
  /\ Posting => step \in Step("post")
  /\ testMain \in {"join", "joined"} => ~Connected
  /\ ~Connected => /\ step = Len(Script) + 1 /\ down = <<>>
                   /\ testMain \in {"join", "joined", "failed"}
  /\ appRead.at \in {"call", "pending", "post", "ended"}
  /\ appRead.at = "post" => appRead.got # <<>>
  /\ testRead.at \in {"call", "pending", "append", "ended"}
  /\ testRead.at = "append" => testRead.got # <<>>
  /\ stage # "get" => handling \in Messages
  /\ \A i \in 1..Len(down) : down[i].msg.cmd \in Commands
  /\ \A i \in 1..Len(appRead.got) : appRead.got[i].msg.cmd \in Commands

(* Nothing but silence ends one of the processes while they are connected. *)
NoErrorInv ==
  Connected =>
    /\ testRead.at # "ended" /\ appRead.at # "ended" /\ app # "exited"
    /\ testRead.at = "append" => Len(testRead.got) = 3
    /\ appRead.at = "post" => Len(appRead.got) = 2
    /\ ~TestRuns /\ AppRuns => down = <<>>
    /\ minutes = 0 => TestRuns /\ app # "error"

(* The two strings of a command, and who has them.                         *)
DownInv ==
  Connected /\ TestRuns =>
    LET m == Current.msg
        kept == AtRest(appRead) \/ appRead.at = "post"
    IN  /\ testMain \in {"next", "take"} => down = <<>> /\ kept
        /\ testMain = "flush1" => \/ down = <<Str(m, 1)>> /\ kept
                                  \/ down = <<>> /\ Partly(appRead, m, 1)
        /\ testMain = "object" => down = <<>> /\ Partly(appRead, m, 1)
        /\ testMain = "flush2" =>
             \/ down = <<Str(m, 2)>> /\ Partly(appRead, m, 1)
             \/ down = <<>> /\ AtRest(appRead)
             \/ down = <<>> /\ appRead.at = "post" /\ appRead.got[1].msg = m

(* The three strings of an answer.                                         *)
HasRead(k) == IF k = 0 THEN AtRest(testRead) \/ testRead.at = "append"
              ELSE Partly(testRead, handling, k)
Handed == testRead.at = "append" /\ testRead.got[1].msg = handling
UpInv ==
  Connected =>
    /\ stage \in {"get", "execute", "others", "write1"} => up = <<>> /\ HasRead(0)
    /\ stage = "flush1" => \/ up = <<Str(handling, 1)>> /\ HasRead(0)
                           \/ up = <<>> /\ HasRead(1)
    /\ stage = "write2" => up = <<>> /\ HasRead(1)
    /\ stage = "flush2" => \/ up = <<Str(handling, 2)>> /\ HasRead(1)
                           \/ up = <<>> /\ HasRead(2)
    /\ stage = "write3" => up = <<>> /\ HasRead(2)
    /\ stage = "flush3" => \/ up = <<Str(handling, 3)>> /\ HasRead(2)
                           \/ up = <<>> /\ (AtRest(testRead) \/ Handed)

(* All that is on its way, the oldest first: the history, what the test's  *)
(* reader has, what the dispatch thread has not handed over, what is       *)
(* posted, and what the application's reader has.                          *)
Unsent ==
  \/ stage \in {"execute", "write1", "flush1", "write2", "flush2", "write3"}
  \/ stage = "flush3" /\ up # <<>>
Got(t, at) == IF t.at = at THEN <<t.got[1].msg>> ELSE <<>>
Back == history \o Got(testRead, "append")
Ahead == posted \o Got(appRead, "post")
InHand == IF Unsent THEN <<handling>> ELSE <<>>
Line == Back \o (InHand \o Ahead)

Has(s, m) == \E i \in 1..Len(s) : s[i] = m
Older(m, n) ==
  /\ \A p, q \in Step("post") : Script[p].msg = m /\ Script[q].msg = n => p < q
  /\ m.cmd = "noise" /\ n.cmd = "noise" => m.n < n.n
  /\ ~(m.cmd = "shutdown" /\ n.cmd = "shutdown")
InOrder(s) == \A i, j \in 1..Len(s) : i < j => Older(s[i], s[j])

SentAt == testMain = "flush2" /\ down = <<>>
Sent(p) == p < step \/ (p = step /\ SentAt)
Known(m) ==
  /\ \A p \in Step("post") : Script[p].msg = m =>
       /\ p <= step /\ (TestRuns => Sent(p))
       /\ \A w \in Step("wait") : Awaits(w, p) => step <= w
  /\ m.cmd = "noise" => m.n <= noise
  /\ m.cmd = "shutdown" => frame = "destroyed"
LineInv ==
  Connected /\ Paired =>
    InOrder(Line) /\ \A m : Has(Line, m) => Known(m)
(* What is being dispatched has been posted.                               *)
CameInv ==
  Connected /\ Paired /\ stage # "get" =>
    \A p \in Step("post") : Script[p].msg = handling => p <= step

(* Nothing that is awaited gets lost.                                      *)
CompleteInv ==
  Connected /\ Paired /\ Room =>
    \A p \in Step("post"), w \in Step("wait") :
      Sent(p) /\ Awaits(w, p) /\ step <= w => Has(Line, Script[p].msg)

(* What the application has still to execute.                              *)
ToExecute == IF stage = "execute" THEN <<handling>> ELSE <<>>
ToDo == ToExecute \o Ahead
InToDo(p) == Has(ToDo, Script[p].msg)
Comes(p) == InToDo(p) \/ (TestRuns /\ p >= step /\ ~Sent(p))
Passed(p) ==
  /\ Sent(p) /\ ~InToDo(p)
  /\ stage # "get" => handling # Script[p].msg
Closing(c) == c \in Step("post") /\ Script[c].msg.cmd = "close"
Opens(a, c) ==
  /\ a \in Step("post") /\ a < c /\ Script[a].msg.cmd = "about"
  /\ \A p \in Step("post") : a < p /\ p < c => Script[p].msg.cmd = "connect"

DialogInv ==
  Paired /\ DialogFirst =>
    /\ ~Connected => /\ \A p \in Step("post") : ~InToDo(p)
                     /\ appRead.got = <<>>
    /\ CloseReachesDialog
    /\ \A p, q \in Step("post") : p < q /\ Sent(q) /\ InToDo(p) => InToDo(q)
    /\ \A c \in Step("post") : Closing(c) /\ Comes(c) =>
         /\ keys = 0 /\ dialog # "closing"
         /\ \A a \in Step("post") : Opens(a, c) /\ Passed(a) =>
              dialog = "open" \/ frame # "open"

TestInv ==
  /\ PlaceInv /\ NoErrorInv /\ DownInv /\ UpInv
  /\ LineInv /\ CameInv /\ CompleteInv /\ DialogInv
  /\ Paired /\ Room => OwnAnswers

---------------------------------------------------------------------------
(* The script does not change, and what is said of it alone.               *)
LEMMA ScriptIs ==
  ASSUME script \in Scripts
  PROVE  /\ Script \in Seq(Steps) /\ Len(Script) \in Nat
         /\ \A i \in 1..Len(Script) :
              /\ Script[i] \in Steps /\ Script[i].op \in {"post", "wait"}
              /\ Script[i].msg.cmd \in Commands /\ Script[i].msg \in Messages
         /\ Step("post") \subseteq 1..Len(Script)
         /\ Step("wait") \subseteq 1..Len(Script)
         /\ Step("post") \cap Step("wait") = {}
<1>1. Script \in Seq(Steps) /\ Len(Script) \in Nat
  BY TesterAssumption DEF Script
<1>2. \A i \in 1..Len(Script) : Script[i] \in Steps
  BY <1>1
<1>3. \A i \in 1..Len(Script) : Script[i].msg \in Messages
  BY DEF Messages
<1> QED
  BY <1>1, <1>2, <1>3 DEF Steps, Step

LEMMA ScriptStays ==
  ASSUME script' = script
  PROVE  /\ Script' = Script /\ Messages' = Messages /\ Strings' = Strings
         /\ Step("post")' = Step("post") /\ Step("wait")' = Step("wait")
         /\ \A w, p : Awaits(w, p)' <=> Awaits(w, p)
         /\ \A m, n : Older(m, n)' <=> Older(m, n)
         /\ (Paired' <=> Paired) /\ (Room' <=> Room) /\ (DialogFirst' <=> DialogFirst)
<1>1. Script' = Script
  BY DEF Script
<1>2. Messages' = Messages
  BY <1>1 DEF Messages
<1>3. Step("post")' = Step("post") /\ Step("wait")' = Step("wait")
  BY <1>1 DEF Step
<1>4. \A w, p : Awaits(w, p)' <=> Awaits(w, p)
  BY <1>1 DEF Awaits
<1>5. \A m, n : Older(m, n)' <=> Older(m, n)
  BY <1>1, <1>3 DEF Older
<1>6. Paired' <=> Paired
  BY <1>3, <1>4 DEF Paired
<1>7. \A k : Outstanding(k)' = Outstanding(k)
  BY <1>3, <1>4 DEF Outstanding
<1>8. Room' <=> Room
  BY <1>1, <1>7 DEF Room
<1>9. DialogFirst' <=> DialogFirst
  BY <1>1, <1>3 DEF DialogFirst
<1> QED
  BY <1>1, <1>2, <1>3, <1>4, <1>5, <1>6, <1>8, <1>9 DEF Strings

(* One step of the test at a time; only the test closes the pipe.          *)
LEMMA OneStep ==
  ASSUME TestNext
  PROVE  /\ pipe' = pipe \/ TestDisconnects
         /\ step' = step \/ step' = step + 1
BY DEF TestNext, TestMain, TestReader, AppReader, AppDispatch, TestWrites, TestFlushes,
   TestWakes, TestTakes, TestDisconnects, TestJoins, TestReaderWaits, TestReaderReads,
   TestReaderEnds, TestReaderAppends, TestFails, AppReaderWaits, AppReaderPosts,
   AppReaderEnds, AppReaderReads, DispatchPosted, Execute, AppWrites, AppFlushes,
   Others, GetKey, GetDialogClose, GetFrameClose, LoopEnds, Fini, AppFails, Noise,
   Minute, testVars

LEMMA MessagesAre ==
  ASSUME script \in Scripts
  PROVE  /\ \A m \in Messages :
              \/ m.cmd \in Commands /\ \E i \in 1..Len(Script) : Script[i].msg = m
              \/ m.cmd = "noise" /\ m = Msg("noise", m.n) /\ m.n \in 1..MaxNoise
              \/ m = Msg("shutdown", 0) /\ m.cmd = "shutdown"
         /\ "noise" \notin Commands /\ "shutdown" \notin Commands
         /\ Msg("shutdown", 0) \in Messages
         /\ \A i \in 1..MaxNoise : Msg("noise", i) \in Messages
         /\ \A c, i : Msg(c, i).cmd = c /\ Msg(c, i).n = i
<1>1. \A i \in 1..Len(Script) : Script[i].msg.cmd \in Commands
  BY ScriptIs
<1>2. \A c, i : Msg(c, i).cmd = c /\ Msg(c, i).n = i
  BY DEF Msg
<1>3. "noise" \notin Commands /\ "shutdown" \notin Commands
  BY DEF Commands
<1> QED
  BY <1>1, <1>2, <1>3 DEF Messages

LEMMA OneString ==
  ASSUME NEW m \in Messages, NEW k \in 1..3
  PROVE  /\ Str(m, k) \in Strings /\ <<Str(m, k)>> \in Seq(Strings)
         /\ Len(<<Str(m, k)>>) = 1 /\ <<Str(m, k)>>[1] = Str(m, k)
         /\ Str(m, k).msg = m
BY DEF Str, Strings

LEMMA Concat ==
  ASSUME NEW S, NEW s \in Seq(S), NEW t \in Seq(S)
  PROVE  /\ s \o t \in Seq(S) /\ Len(s \o t) = Len(s) + Len(t)
         /\ Len(s) \in Nat /\ Len(t) \in Nat
         /\ \A i \in 1..Len(s) : (s \o t)[i] = s[i]
         /\ \A i \in 1..Len(t) : (s \o t)[Len(s) + i] = t[i]
         /\ \A i \in 1..(Len(s) + Len(t)) :
              \/ i \in 1..Len(s) /\ (s \o t)[i] = s[i]
              \/ i - Len(s) \in 1..Len(t) /\ (s \o t)[i] = t[i - Len(s)]
BY ConcatProperties

LEMMA HasConcat ==
  ASSUME NEW S, NEW s \in Seq(S), NEW t \in Seq(S)
  PROVE  \A m : Has(s \o t, m) <=> Has(s, m) \/ Has(t, m)
<1>1. /\ Len(s \o t) = Len(s) + Len(t) /\ Len(s) \in Nat /\ Len(t) \in Nat
      /\ \A i \in 1..Len(s) : (s \o t)[i] = s[i]
      /\ \A i \in 1..Len(t) : (s \o t)[Len(s) + i] = t[i]
      /\ \A i \in 1..(Len(s) + Len(t)) :
           \/ i \in 1..Len(s) /\ (s \o t)[i] = s[i]
           \/ i - Len(s) \in 1..Len(t) /\ (s \o t)[i] = t[i - Len(s)]
  BY Concat
<1>2. /\ \A i \in 1..Len(s) : i \in 1..(Len(s) + Len(t))
      /\ \A i \in 1..Len(t) : Len(s) + i \in 1..(Len(s) + Len(t))
  BY <1>1
<1> QED
  BY <1>1, <1>2 DEF Has

LEMMA HasFew ==
  /\ \A m : ~Has(<<>>, m)
  /\ \A x, m : Has(<<x>>, m) <=> x = m
BY DEF Has

LEMMA HasOnly ==
  ASSUME NEW S, NEW s \in Seq(S)
  PROVE  /\ \A m : Has(s, m) => m \in S
         /\ \A i \in 1..Len(s) : Has(s, s[i])
BY DEF Has

LEMMA OrderFew == InOrder(<<>>) /\ \A x : InOrder(<<x>>)
BY DEF InOrder

LEMMA OrderConcat ==
  ASSUME NEW S, NEW s \in Seq(S), NEW t \in Seq(S)
  PROVE  InOrder(s \o t) <=>
           /\ InOrder(s) /\ InOrder(t)
           /\ \A m, n : Has(s, m) /\ Has(t, n) => Older(m, n)
<1> DEFINE st == s \o t
           k == Len(s)
           l == Len(t)
<1>1. /\ Len(st) = k + l /\ k \in Nat /\ l \in Nat
      /\ \A i \in 1..k : st[i] = s[i]
      /\ \A i \in 1..l : st[k + i] = t[i]
      /\ \A i \in 1..(k + l) :
           \/ i \in 1..k /\ st[i] = s[i]
           \/ i - k \in 1..l /\ st[i] = t[i - k]
  BY Concat
<1> HIDE DEF st
<1>2. ASSUME InOrder(st)
      PROVE  /\ InOrder(s) /\ InOrder(t)
             /\ \A m, n : Has(s, m) /\ Has(t, n) => Older(m, n)
  <2>1. InOrder(s)
    <3> SUFFICES ASSUME NEW i \in 1..k, NEW j \in 1..k, i < j PROVE Older(s[i], s[j])
      BY DEF InOrder
    <3>1. i \in 1..(k + l) /\ j \in 1..(k + l)
      BY <1>1
    <3> QED
      BY <1>1, <1>2, <3>1 DEF InOrder
  <2>2. InOrder(t)
    <3> SUFFICES ASSUME NEW i \in 1..l, NEW j \in 1..l, i < j PROVE Older(t[i], t[j])
      BY DEF InOrder
    <3>1. k + i \in 1..(k + l) /\ k + j \in 1..(k + l) /\ k + i < k + j
      BY <1>1
    <3>2. Older(st[k + i], st[k + j])
      BY <1>1, <1>2, <3>1 DEF InOrder
    <3> QED
      BY <1>1, <3>2
  <2>3. ASSUME NEW i \in 1..k, NEW j \in 1..l PROVE Older(s[i], t[j])
    <3>1. i \in 1..(k + l) /\ k + j \in 1..(k + l) /\ i < k + j
      BY <1>1
    <3>2. Older(st[i], st[k + j])
      BY <1>1, <1>2, <3>1 DEF InOrder
    <3> QED
      BY <1>1, <3>2
  <2> QED
    BY <2>1, <2>2, <2>3 DEF Has
<1>3. ASSUME InOrder(s), InOrder(t), \A m, n : Has(s, m) /\ Has(t, n) => Older(m, n)
      PROVE  InOrder(st)
  <2>1. SUFFICES ASSUME NEW i \in 1..(k + l), NEW j \in 1..(k + l), i < j
                 PROVE  Older(st[i], st[j])
    BY <1>1 DEF InOrder
  <2>2. CASE i \in 1..k /\ j \in 1..k
    BY <1>1, <1>3, <2>1, <2>2 DEF InOrder
  <2>3. CASE i \in 1..k /\ j - k \in 1..l
    <3>1. Has(s, s[i]) /\ Has(t, t[j - k])
      BY <2>3 DEF Has
    <3>2. st[i] = s[i] /\ st[j] = t[j - k]
      BY <1>1, <2>3
    <3> QED
      BY <1>3, <3>1, <3>2
  <2>4. CASE i - k \in 1..l /\ j - k \in 1..l
    <3>1. i - k < j - k /\ ~(i \in 1..k) /\ ~(j \in 1..k)
      BY <1>1, <2>1, <2>4
    <3>2. st[i] = t[i - k] /\ st[j] = t[j - k]
      BY <1>1, <3>1
    <3> QED
      BY <1>3, <2>4, <3>1, <3>2 DEF InOrder
  <2> QED
    BY <1>1, <2>1, <2>2, <2>3, <2>4
<1> QED
  BY <1>2, <1>3 DEF st

(* The strings a reader has, with those that it finds in the pipe.         *)
LEMMA GotMore ==
  ASSUME NEW S, NEW s \in Seq(S), NEW t \in Seq(S), t # <<>>, Len(t) <= 1
  PROVE  /\ s \o t \in Seq(S) /\ Len(s \o t) = Len(s) + 1 /\ s \o t # <<>>
         /\ Len(s) \in Nat /\ Len(t) = 1
         /\ \A i \in 1..Len(s) : (s \o t)[i] = s[i]
         /\ (s \o t)[Len(s) + 1] = t[1]
<1>1. Len(t) = 1 /\ Len(s) \in Nat
  <2>1. Len(t) \in Nat /\ Len(t) # 0
    BY EmptySeq
  <2> QED
    BY <2>1
<1>2. /\ s \o t \in Seq(S) /\ Len(s \o t) = Len(s) + 1
      /\ \A i \in 1..Len(s) : (s \o t)[i] = s[i]
      /\ (s \o t)[Len(s) + 1] = t[1]
  BY <1>1, Concat
<1> QED
  BY <1>1, <1>2, EmptySeq

---------------------------------------------------------------------------
(* The first broadcast of a command in the history.                        *)
LEMMA LeastIs ==
  ASSUME NEW S \in SUBSET Nat, S # {}
  PROVE  Min(S) \in S /\ \A n \in S : Min(S) <= n
<1> DEFINE R == {p \in Nat \X Nat : p[1] < p[2]}
<1>1. IsWellFoundedOn(R, Nat)
  BY NatLessThanWellFounded DEF OpToRel
<1>2. \A x, y \in Nat : x < y => <<x, y>> \in R
  OBVIOUS
<1> HIDE DEF R
<1>3. PICK m \in S : \A n \in S : <<n, m>> \notin R
  BY <1>1, WFMin
<1>4. \A n \in S : m <= n
  <2> TAKE n \in S
  <2>1. ~(n < m)
    BY <1>2, <1>3
  <2> QED
    BY <2>1
<1> QED
  BY <1>4 DEF Min

LEMMA FirstIs ==
  ASSUME history \in Seq(Messages), NEW cmd
  PROVE  /\ FirstOf(cmd) \in 0..Len(history) /\ Len(history) \in Nat
         /\ FirstOf(cmd) # 0 => history[FirstOf(cmd)].cmd = cmd
         /\ \A i \in 1..Len(history) :
              history[i].cmd = cmd => FirstOf(cmd) # 0 /\ FirstOf(cmd) <= i
<1> DEFINE found == {i \in 1..Len(history) : history[i].cmd = cmd}
<1>1. Len(history) \in Nat /\ found \in SUBSET Nat
  OBVIOUS
<1>2. CASE found = {}
  BY <1>1, <1>2 DEF FirstOf
<1>3. CASE found # {}
  <2>1. Min(found) \in found /\ \A n \in found : Min(found) <= n
    BY <1>1, <1>3, LeastIs
  <2>2. FirstOf(cmd) = Min(found)
    BY <1>3 DEF FirstOf
  <2> HIDE DEF found
  <2>3. FirstOf(cmd) \in found /\ \A n \in found : FirstOf(cmd) <= n
    BY <2>1, <2>2
  <2> USE DEF found
  <2>4. FirstOf(cmd) \in 1..Len(history) /\ history[FirstOf(cmd)].cmd = cmd
    BY <2>3
  <2>5. \A i \in 1..Len(history) : history[i].cmd = cmd => FirstOf(cmd) <= i
    BY <2>3
  <2> HIDE DEF found
  <2> QED
    BY <1>1, <2>4, <2>5
<1> QED
  BY <1>2, <1>3

(* What a wait leaves in the history.                                      *)
LEMMA TakenIs ==
  ASSUME history \in Seq(Messages), NEW at \in 0..Len(history)
  PROVE  /\ Remaining(at) \in Seq(Messages) /\ Len(history) \in Nat
         /\ Len(Remaining(at)) <= Len(history)
         /\ Remaining(at) = SubSeq(history, (IF at = 0 THEN Len(history) ELSE at) + 1, Len(history))
<1> Len(history) \in Nat
  OBVIOUS
<1>1. CASE at = 0
  BY <1>1, SubSeqEmpty DEF Remaining
<1>2. CASE at # 0
  BY <1>2, SubSeqProperties DEF Remaining
<1> QED
  BY <1>1, <1>2

---------------------------------------------------------------------------
(* Types, and what agrees with the places of the threads.                  *)
LEMMA TestBegins == TestInit => TestInv
<1> SUFFICES ASSUME TestInit PROVE TestInv
  OBVIOUS
<1> USE DEF TestInit
<1>0. script \in Scripts /\ Len(Script) \in Nat
  BY ScriptIs
<1>1. <<>> \in Seq(Strings) /\ <<>> \in Seq(Messages) /\ Len(<<>>) = 0
  OBVIOUS
<1>2. TesterTypeOK
  <2>1. ReaderOK(testRead) /\ ReaderOK(appRead)
    BY <1>1 DEF ReaderOK, NewMessage, Thread, Strings
  <2>2. 1 \in 1..(Len(Script) + 1) /\ 0 \in 0..MaxNoise /\ 0 <= MaxHistory
    BY <1>0, TesterAssumption
  <2>3. /\ event \in BOOLEAN
        /\ handling \in Messages \union {NoMsg}
        /\ stage \in Places \union {"get", "execute", "others"}
    OBVIOUS
  <2> QED
    BY <1>0, <1>1, <2>1, <2>2, <2>3 DEF TesterTypeOK, Strings
<1>3. PlaceInv
  <2>1. testRead = Thread("call", <<>>) /\ appRead = Thread("call", <<>>)
    BY DEF NewMessage
  <2>2. \A i \in 1..Len(appRead.got) : FALSE
    BY <1>1, <2>1 DEF Thread
  <2>3. \A i \in 1..Len(down) : FALSE
    BY <1>1
  <2> QED
    BY <1>2, <2>1, <2>2, <2>3 DEF PlaceInv, Thread, Connected, Posting
<1>4. NoErrorInv /\ DownInv /\ UpInv
  BY DEF NoErrorInv, DownInv, UpInv, AtRest, HasRead, TestRuns, NewMessage, Thread
<1>5. Line = <<>> /\ ToDo = <<>>
  BY DEF Line, Back, Ahead, ToDo, Got, Unsent, InHand, ToExecute, NewMessage, Thread
<1>6. LineInv /\ CameInv
  BY <1>5, HasFew, OrderFew DEF LineInv, CameInv
<1>7. \A p \in Step("post") : ~Sent(p)
  BY <1>0, ScriptIs DEF Sent, SentAt
<1>8. CompleteInv
  BY <1>7 DEF CompleteInv
<1>9. DialogInv
  BY <1>5, <1>7, HasFew DEF DialogInv, Connected, InToDo, Passed, CloseReachesDialog
<1>10. OwnAnswers
  BY DEF OwnAnswers
<1> QED
  BY <1>3, <1>4, <1>6, <1>8, <1>9, <1>10 DEF TestInv

(* The test's main thread.                                                 *)
LEMMA PlaceTest ==
  ASSUME PlaceInv, script' = script,
         TestWrites \/ TestFlushes \/ TestWakes \/ TestTakes \/ TestDisconnects \/ TestJoins
         \/ TestFails
  PROVE  PlaceInv'
<1> USE DEF testVars, dispatchVars, uiVars, Strings
<1>1. TesterTypeOK /\ script \in Scripts
  BY DEF PlaceInv, TesterTypeOK
<1>2. /\ Script' = Script /\ Messages' = Messages /\ Strings' = Strings
      /\ Step("post")' = Step("post") /\ Step("wait")' = Step("wait")
  BY ScriptStays
<1>3. /\ Len(Script) \in Nat
      /\ \A i \in 1..Len(Script) : /\ Script[i].msg \in Messages
                                   /\ Script[i].msg.cmd \in Commands
      /\ DOMAIN Script = 1..Len(Script)
  BY <1>1, ScriptIs
<1>4. CASE TestWrites
  <2>1. /\ Current.msg \in Messages /\ Current.msg.cmd \in Commands
        /\ step \in Step("post") /\ testMain' \in {"flush1", "flush2"}
    BY <1>3, <1>4 DEF TestWrites, Current, Step
  <2>2. \E k \in 1..3 : down' = <<Str(Current.msg, k)>>
    BY <1>4 DEF TestWrites, Str
  <2>3. /\ down' \in Seq(Strings) /\ Len(down') <= 1
        /\ \A i \in 1..Len(down') : down'[i].msg.cmd \in Commands
    BY <2>1, <2>2, OneString
  <2>4. TesterTypeOK'
    BY <1>1, <1>2, <1>4, <2>1, <2>3 DEF TesterTypeOK, TestWrites, ReaderOK
  <2> QED
    BY <1>2, <1>4, <2>1, <2>3, <2>4 DEF PlaceInv, TestWrites, Connected, Posting, Writable
<1>5. CASE TestFlushes
  <2>1. step \in Step("post") /\ step \in 1..Len(Script) /\ Connected
    BY <1>1, <1>5, ScriptIs DEF TestFlushes, PlaceInv, Posting, Flushed, Writable,
       Connected
  <2>2. TesterTypeOK'
    BY <1>1, <1>2, <1>3, <1>5, <2>1, SMTT(60) DEF TesterTypeOK, TestFlushes, ReaderOK,
       Flushed, Writable
  <2> QED
    BY <1>2, <1>5, <2>1, <2>2 DEF PlaceInv, TestFlushes, Connected, Posting
<1>6. CASE TestWakes
  <2>1. step \in Step("wait") /\ step # Len(Script) + 1
    BY <1>1, <1>3, <1>6 DEF TestWakes, Current, Step
  <2>2. TesterTypeOK'
    BY <1>1, <1>2, <1>6 DEF TesterTypeOK, TestWakes, ReaderOK
  <2> QED
    BY <1>2, <1>6, <2>1, <2>2 DEF PlaceInv, TestWakes, Connected, Posting
<1>8. CASE TestDisconnects
  <2>1. TesterTypeOK'
    BY <1>1, <1>2, <1>8 DEF TesterTypeOK, TestDisconnects, ReaderOK
  <2> QED
    BY <1>2, <1>8, <2>1 DEF PlaceInv, TestDisconnects, Connected, Posting
<1>9. CASE TestJoins
  <2>1. TesterTypeOK'
    BY <1>1, <1>2, <1>9 DEF TesterTypeOK, TestJoins, ReaderOK
  <2> QED
    BY <1>2, <1>9, <2>1 DEF PlaceInv, TestJoins, Connected, Posting
<1>10. CASE TestFails
  <2>1. TesterTypeOK'
    BY <1>1, <1>2, <1>10 DEF TesterTypeOK, TestFails, ReaderOK, ReadFails, Writable
  <2> QED
    BY <1>2, <1>10, <2>1 DEF PlaceInv, TestFails, Connected, Posting
<1>7. CASE TestTakes
  <2>1. step \in 1..Len(Script) /\ step # Len(Script) + 1 /\ Connected
    BY <1>1, <1>3, <1>7, ScriptIs DEF TestTakes, PlaceInv, Connected
  <2>2. history' \in Seq(Messages) /\ Len(history') <= Len(history)
    BY <1>1, <1>7, TakenIs, FirstIs DEF TestTakes, TesterTypeOK
  <2>3. step' \in 1..(Len(Script) + 1) /\ event' \in BOOLEAN
    BY <1>1, <1>3, <1>7, <2>1 DEF TestTakes, TesterTypeOK
  <2>4. TesterTypeOK'
    <3>1. /\ Len(history) <= MaxHistory
          /\ Len(history) \in Nat
          /\ Len(history') \in Nat
          /\ MaxHistory \in Nat
      BY <1>1, <2>2, TesterAssumption DEF TesterTypeOK
    <3>2. Len(history') <= MaxHistory
      BY <2>2, <3>1
    <3> QED
      BY <1>1, <1>2, <1>7, <2>2, <2>3, <3>2 DEF TesterTypeOK, TestTakes, ReaderOK
  <2> QED
    BY <1>2, <1>7, <2>1, <2>4 DEF PlaceInv, TestTakes, Connected, Posting
<1> QED
  BY <1>4, <1>5, <1>6, <1>7, <1>8, <1>9, <1>10

(* The test's reader.                                                      *)
LEMMA PlaceTestReader ==
  ASSUME PlaceInv, script' = script, TestReader
  PROVE  PlaceInv'
<1> USE DEF testVars, dispatchVars, uiVars, Strings
<1>1. TesterTypeOK /\ script \in Scripts
  BY DEF PlaceInv, TesterTypeOK
<1>2. /\ Script' = Script /\ Messages' = Messages /\ Strings' = Strings
      /\ Step("post")' = Step("post") /\ Step("wait")' = Step("wait")
  BY ScriptStays
<1>3. testRead.got \in Seq(Strings) /\ up \in Seq(Strings) /\ Len(up) <= 1
  BY <1>1 DEF TesterTypeOK, ReaderOK
<1>4. CASE TestReaderWaits
  <2>1. testRead'.at = "pending" /\ testRead'.got = testRead.got
    BY <1>4 DEF TestReaderWaits
  <2>2. TesterTypeOK'
    BY <1>1, <1>2, <1>4, <2>1 DEF TesterTypeOK, TestReaderWaits, ReaderOK
  <2> QED
    BY <1>2, <1>4, <2>1, <2>2 DEF PlaceInv, TestReaderWaits, Connected, Posting
<1>5. CASE TestReaderReads
  <2> DEFINE got == testRead.got \o up
  <2>1. got \in Seq(Strings) /\ got # <<>>
    BY <1>3, <1>5, GotMore DEF TestReaderReads, MayRead
  <2>2. testRead'.at \in {"append", "call"} /\ testRead'.got = got
    BY <1>5 DEF TestReaderReads, Thread
  <2> HIDE DEF got
  <2>3. TesterTypeOK'
    BY <1>1, <1>2, <1>5, <2>1, <2>2 DEF TesterTypeOK, TestReaderReads, ReaderOK
  <2> QED
    BY <1>2, <1>5, <2>1, <2>2, <2>3 DEF PlaceInv, TestReaderReads, Connected, Posting
<1>6. CASE TestReaderEnds
  <2>1. \/ testRead'.at = "ended" /\ testRead'.got = <<>>
        \/ testRead'.at = "append" /\ testRead'.got = testRead.got /\ testRead.got # <<>>
    BY <1>6 DEF TestReaderEnds, Thread
  <2>2. TesterTypeOK'
    BY <1>1, <1>2, <1>6, <2>1 DEF TesterTypeOK, TestReaderEnds, ReaderOK
  <2> QED
    BY <1>2, <1>6, <2>1, <2>2 DEF PlaceInv, TestReaderEnds, Connected, Posting
<1>7. CASE TestReaderAppends
  <2>1. /\ testRead.got[1].msg \in Messages
        /\ testRead'.at \in {"call", "ended"} /\ testRead'.got = <<>>
    <3>1. testRead.got # <<>>
      BY <1>7 DEF PlaceInv, TestReaderAppends
    <3>2. 1 \in 1..Len(testRead.got)
      BY <1>3, <3>1, EmptySeq
    <3>3. testRead.got[1] \in Strings
      BY <1>3, <3>2, ElementOfSeq
    <3> QED
      BY <1>7, <3>3 DEF TestReaderAppends, NewMessage, Thread
  <2>2. /\ history' \in Seq(Messages) /\ Len(history') <= MaxHistory /\ history' # <<>>
    <3> DEFINE m == testRead.got[1].msg
    <3>1. /\ MaxHistory \in Nat \ {0}
          /\ history \in Seq(Messages)
          /\ Len(history) <= MaxHistory
          /\ Len(history) \in Nat
      BY <1>1, TesterAssumption DEF TesterTypeOK
    <3>2. PICK h \in Seq(Messages) : history' = Append(h, m) /\ Len(h) < MaxHistory
      <4>1. CASE Len(history) >= MaxHistory
        <5>1. Tail(history) \in Seq(Messages) /\ Len(Tail(history)) = Len(history) - 1
          BY <3>1, <4>1
        <5>2. Len(Tail(history)) < MaxHistory
          BY <3>1, <5>1
        <5> QED
          BY <1>7, <4>1, <5>1, <5>2 DEF TestReaderAppends
      <4>2. CASE ~(Len(history) >= MaxHistory)
        BY <1>7, <3>1, <4>2 DEF TestReaderAppends
      <4> QED
        BY <4>1, <4>2
    <3> HIDE DEF m
    <3>3. m \in Messages
      BY <2>1 DEF m
    <3> QED
      BY <3>1, <3>2, <3>3
  <2>3. TesterTypeOK'
    <3>1. UNCHANGED <<pipe, down, up, step, testMain, appRead, posted, handling, stage,
                      dialog, keys, frame, noise, app, minutes>> /\ event' \in BOOLEAN
      BY <1>7 DEF TestReaderAppends
    <3>2. <<>> \in Seq(Strings)
      OBVIOUS
    <3>3. ReaderOK(testRead)' /\ ReaderOK(appRead)'
      BY <1>1, <1>2, <2>1, <3>1, <3>2 DEF TesterTypeOK, ReaderOK
    <3> QED
      BY <1>1, <1>2, <2>2, <3>1, <3>3 DEF TesterTypeOK
  <2> QED
    BY <1>2, <1>7, <2>1, <2>2, <2>3 DEF PlaceInv, TestReaderAppends, Connected, Posting
<1> QED
  BY <1>4, <1>5, <1>6, <1>7 DEF TestReader

(* The application's reader.                                               *)
LEMMA PlaceAppReader ==
  ASSUME PlaceInv, script' = script, AppReader
  PROVE  PlaceInv'
<1> USE DEF testVars, dispatchVars, uiVars, Strings
<1>1. TesterTypeOK /\ script \in Scripts
  BY DEF PlaceInv, TesterTypeOK
<1>2. /\ Script' = Script /\ Messages' = Messages /\ Strings' = Strings
      /\ Step("post")' = Step("post") /\ Step("wait")' = Step("wait")
  BY ScriptStays
<1>3. appRead.got \in Seq(Strings) /\ down \in Seq(Strings) /\ Len(down) <= 1
  BY <1>1 DEF TesterTypeOK, ReaderOK
<1>4. CASE AppReaderWaits
  <2>1. appRead'.at = "pending" /\ appRead'.got = appRead.got
    BY <1>4 DEF AppReaderWaits
  <2>2. TesterTypeOK'
    BY <1>1, <1>2, <1>4, <2>1 DEF TesterTypeOK, AppReaderWaits, ReaderOK
  <2> QED
    BY <1>2, <1>4, <2>1, <2>2 DEF PlaceInv, AppReaderWaits, Connected, Posting
<1>5. CASE AppReaderReads
  <2> DEFINE got == appRead.got \o down
  <2>1. /\ got \in Seq(Strings) /\ got # <<>> /\ down # <<>>
        /\ \A i \in 1..Len(got) : got[i].msg.cmd \in Commands
    <3>1. down # <<>>
      BY <1>5 DEF AppReaderReads, MayRead
    <3>2. /\ got \in Seq(Strings) /\ got # <<>> /\ Len(got) = Len(appRead.got) + 1
          /\ Len(appRead.got) \in Nat /\ Len(down) = 1
          /\ \A i \in 1..Len(appRead.got) : got[i] = appRead.got[i]
          /\ got[Len(appRead.got) + 1] = down[1]
      BY <1>3, <3>1, GotMore
    <3>3. /\ \A i \in 1..Len(appRead.got) : appRead.got[i].msg.cmd \in Commands
          /\ \A i \in 1..Len(down) : down[i].msg.cmd \in Commands
      BY DEF PlaceInv
    <3> HIDE DEF got
    <3>4. \A i \in 1..Len(got) : i \in 1..Len(appRead.got) \/ i = Len(appRead.got) + 1
      BY <3>2
    <3>5. down[1].msg.cmd \in Commands
      BY <3>2, <3>3
    <3> QED
      BY <3>1, <3>2, <3>3, <3>4, <3>5
  <2>2. appRead'.at \in {"post", "call"} /\ appRead'.got = got
    BY <1>5 DEF AppReaderReads, Thread
  <2> HIDE DEF got
  <2>3. TesterTypeOK'
    BY <1>1, <1>2, <1>5, <2>1, <2>2 DEF TesterTypeOK, AppReaderReads, ReaderOK
  <2> QED
    BY <1>2, <1>5, <2>1, <2>2, <2>3 DEF PlaceInv, AppReaderReads, Connected, Posting
<1>6. CASE AppReaderEnds
  <2>1. \/ appRead'.at = "ended" /\ appRead'.got = <<>>
        \/ appRead'.at = "post" /\ appRead'.got = appRead.got /\ appRead.got # <<>>
    BY <1>6 DEF AppReaderEnds, Thread
  <2>2. TesterTypeOK'
    BY <1>1, <1>2, <1>6, <2>1 DEF TesterTypeOK, AppReaderEnds, ReaderOK
  <2> QED
    BY <1>2, <1>6, <2>1, <2>2 DEF PlaceInv, AppReaderEnds, Connected, Posting
<1>7. CASE AppReaderPosts
  <2>1. /\ appRead.got[1].msg \in Messages
        /\ appRead'.at \in {"call", "ended"} /\ appRead'.got = <<>>
    <3>1. appRead.got # <<>>
      BY <1>7 DEF PlaceInv, AppReaderPosts
    <3>2. 1 \in 1..Len(appRead.got)
      BY <1>3, <3>1, EmptySeq
    <3>3. appRead.got[1] \in Strings
      BY <1>3, <3>2, ElementOfSeq
    <3> QED
      BY <1>7, <3>3 DEF AppReaderPosts, NewMessage, Thread
  <2>2. posted' \in Seq(Messages)
    BY <1>1, <1>7, <2>1 DEF TesterTypeOK, AppReaderPosts
  <2>3. TesterTypeOK'
    <3>1. UNCHANGED <<pipe, down, up, step, testMain, testRead, history, event, handling,
                      stage, dialog, keys, frame, noise, app, minutes>>
      BY <1>7 DEF AppReaderPosts
    <3>2. <<>> \in Seq(Strings)
      OBVIOUS
    <3>3. ReaderOK(testRead)' /\ ReaderOK(appRead)'
      BY <1>1, <1>2, <2>1, <3>1, <3>2 DEF TesterTypeOK, ReaderOK
    <3> QED
      BY <1>1, <1>2, <2>2, <3>1, <3>3 DEF TesterTypeOK
  <2> QED
    BY <1>2, <1>7, <2>1, <2>3 DEF PlaceInv, AppReaderPosts, Connected, Posting
<1> QED
  BY <1>4, <1>5, <1>6, <1>7 DEF AppReader

(* The dispatch thread, and what happens beside it.                        *)
PlaceKept ==
  /\ script' = script
  /\ UNCHANGED <<pipe, testVars, appRead, down>>

LEMMA PlaceDispatch ==
  ASSUME PlaceInv, PlaceKept,
         up' = up \/ (\E k \in 1..3 : handling \in Messages /\ up' = <<Str(handling, k)>>),
         posted' \in Seq(Messages),
         handling' \in Messages \union {NoMsg}, stage' # "get" => handling' \in Messages,
         stage' \in Places \union {"get", "execute", "others"},
         dialog' \in {"none", "open", "closing"}, keys' \in Nat,
         frame' \in {"open", "closing", "destroyed"},
         app' \in {"running", "fini", "exited", "error"},
         noise' \in 0..MaxNoise, minutes' \in Nat
  PROVE  PlaceInv'
<1> USE DEF testVars, Strings
<1>1. TesterTypeOK /\ script \in Scripts
  BY DEF PlaceInv, TesterTypeOK
<1>2. /\ Script' = Script /\ Messages' = Messages /\ Strings' = Strings
      /\ Step("post")' = Step("post") /\ Step("wait")' = Step("wait")
  BY ScriptStays DEF PlaceKept
<1>3. up' \in Seq(Strings) /\ Len(up') <= 1
  <2>1. up \in Seq(Strings) /\ Len(up) <= 1
    BY <1>1 DEF TesterTypeOK
  <2>2. ASSUME NEW k \in 1..3, handling \in Messages, up' = <<Str(handling, k)>>
        PROVE  up' \in Seq(Strings) /\ Len(up') <= 1
    BY <2>2, OneString
  <2> QED
    BY <2>1, <2>2
<1>4. UNCHANGED <<script, pipe, down, step, testMain, testRead, history, event, appRead>>
  BY DEF PlaceKept
<1>5. ReaderOK(testRead)' /\ ReaderOK(appRead)'
  BY <1>1, <1>2, <1>4 DEF TesterTypeOK, ReaderOK
<1>6. TesterTypeOK'
  BY <1>1, <1>2, <1>3, <1>4, <1>5 DEF TesterTypeOK
<1> QED
  BY <1>2, <1>4, <1>6 DEF PlaceInv, Connected, Posting

LEMMA PlaceApp ==
  ASSUME PlaceInv, script' = script, AppDispatch \/ AppFails \/ Noise
  PROVE  PlaceInv'
<1> USE DEF testVars, dispatchVars, uiVars
<1>1. /\ posted \in Seq(Messages) /\ handling \in Messages \union {NoMsg}
      /\ stage \in Places \union {"get", "execute", "others"}
      /\ dialog \in {"none", "open", "closing"} /\ keys \in Nat
      /\ frame \in {"open", "closing", "destroyed"}
      /\ app \in {"running", "fini", "exited", "error"}
      /\ noise \in 0..MaxNoise /\ minutes \in Nat
      /\ stage # "get" => handling \in Messages
      /\ script \in Scripts /\ MaxNoise \in Nat
  BY TesterAssumption DEF PlaceInv, TesterTypeOK
<1>2. \A m \in Messages : Append(posted, m) \in Seq(Messages)
  BY <1>1
<1>3. /\ Msg("shutdown", 0) \in Messages
      /\ \A i \in 1..MaxNoise : Msg("noise", i) \in Messages
  BY <1>1, MessagesAre
<1>4. CASE DispatchPosted
  <2>1. posted # <<>>
    BY <1>4 DEF DispatchPosted
  <2>2. Head(posted) \in Messages /\ Tail(posted) \in Seq(Messages)
    BY <1>1, <2>1, HeadTailProperties
  <2>3. PlaceKept
    BY <1>4 DEF DispatchPosted, PlaceKept
  <2> QED
    BY <1>1, <1>4, <2>2, <2>3, PlaceDispatch DEF DispatchPosted
<1>5. CASE Execute
  <2>1. PlaceKept
    BY <1>5 DEF Execute, PlaceKept
  <2>2. /\ posted' \in Seq(Messages)
        /\ keys' \in Nat
        /\ dialog' \in {"none", "open", "closing"}
        /\ frame' \in {"open", "closing", "destroyed"}
    BY <1>1, <1>2, <1>3, <1>5 DEF Execute
  <2>3. /\ stage' \in Places
        /\ UNCHANGED <<handling, noise, app, minutes, up>>
        /\ handling \in Messages
    BY <1>1, <1>5 DEF Execute, Places
  <2> QED
    BY <1>1, <2>1, <2>2, <2>3, PlaceDispatch
<1>6. CASE AppWrites
  <2>1. PlaceKept
    BY <1>6 DEF AppWrites, PlaceKept
  <2>2. Part(stage) \in 1..3 /\ stage # "get" /\ stage' \in Places
    BY <1>6 DEF AppWrites, Part, NextPlace, Places
  <2>3. up' = <<Str(handling, Part(stage))>> /\ handling \in Messages
    BY <1>1, <1>6, <2>2 DEF AppWrites, Str
  <2> QED
    BY <1>1, <1>6, <2>1, <2>2, <2>3, PlaceDispatch DEF AppWrites
<1>7. CASE AppFlushes
  <2>1. PlaceKept
    BY <1>7 DEF AppFlushes, PlaceKept
  <2>2. stage # "get" /\ stage' \in Places \union {"others"}
    BY <1>7 DEF AppFlushes, NextPlace, Places
  <2> QED
    BY <1>1, <1>7, <2>1, <2>2, PlaceDispatch DEF AppFlushes
<1>8. CASE Others
  <2>1. PlaceKept
    BY <1>8 DEF Others, PlaceKept
  <2>2. /\ dialog' \in {"none", "open", "closing"}
        /\ frame' \in {"open", "closing", "destroyed"}
    BY <1>1, <1>8 DEF Others
  <2> QED
    BY <1>1, <1>8, <2>1, <2>2, PlaceDispatch DEF Others
<1>9. CASE GetKey
  <2>1. PlaceKept
    BY <1>9 DEF GetKey, PlaceKept
  <2>2. dialog' \in {"none", "open", "closing"} /\ keys' \in Nat
    BY <1>1, <1>9 DEF GetKey
  <2> QED
    BY <1>1, <1>9, <2>1, <2>2, PlaceDispatch DEF GetKey
<1>10. CASE GetDialogClose
  <2>1. PlaceKept
    BY <1>10 DEF GetDialogClose, PlaceKept
  <2> QED
    BY <1>1, <1>10, <2>1, PlaceDispatch DEF GetDialogClose
<1>11. CASE GetFrameClose
  <2>1. PlaceKept
    BY <1>11 DEF GetFrameClose, PlaceKept
  <2> QED
    BY <1>1, <1>2, <1>3, <1>11, <2>1, PlaceDispatch DEF GetFrameClose
<1>12. CASE LoopEnds \/ Fini \/ AppFails
  <2>1. PlaceKept
    BY <1>12 DEF LoopEnds, Fini, AppFails, PlaceKept
  <2> QED
    BY <1>1, <1>12, <2>1, PlaceDispatch DEF LoopEnds, Fini, AppFails
<1>13. CASE Noise
  <2>1. PlaceKept
    BY <1>13 DEF Noise, PlaceKept
  <2>2. noise' \in 1..MaxNoise /\ noise' \in 0..MaxNoise
    BY <1>1, <1>13 DEF Noise
  <2>3. posted' \in Seq(Messages)
    BY <1>2, <1>3, <1>13, <2>2 DEF Noise
  <2> QED
    BY <1>1, <1>13, <2>1, <2>2, <2>3, PlaceDispatch DEF Noise
<1> QED
  BY <1>4, <1>5, <1>6, <1>7, <1>8, <1>9, <1>10, <1>11, <1>12, <1>13 DEF AppDispatch

LEMMA PlaceMinute ==
  ASSUME PlaceInv, script' = script, Minute
  PROVE  PlaceInv'
<1> USE DEF testVars, dispatchVars, uiVars
<1>1. TesterTypeOK /\ script \in Scripts
  BY DEF PlaceInv, TesterTypeOK
<1>2. /\ Script' = Script /\ Messages' = Messages /\ Strings' = Strings
      /\ Step("post")' = Step("post") /\ Step("wait")' = Step("wait")
  BY ScriptStays
<1>3. /\ UNCHANGED <<pipe, down, up, step, testRead, history, event, appRead, posted, handling,
                      stage, dialog, keys, frame, noise>>
      /\ testMain' \in {testMain, "failed"}
      /\ app' \in {app, "error"}
      /\ pipe = "connected"
      /\ minutes' = minutes + 1
  BY <1>1 DEF Minute
<1>4. ReaderOK(testRead)' /\ ReaderOK(appRead)'
  BY <1>1, <1>2, <1>3 DEF TesterTypeOK, ReaderOK, Strings
<1>5. TesterTypeOK'
  BY <1>1, <1>2, <1>3, <1>4 DEF TesterTypeOK, Strings
<1> QED
  BY <1>2, <1>3, <1>5 DEF PlaceInv, Connected, Posting

LEMMA PlaceStays ==
  ASSUME PlaceInv, TestNext
  PROVE  PlaceInv'
BY PlaceTest, PlaceTestReader, PlaceAppReader, PlaceApp, PlaceMinute DEF TestNext,
   TestMain

-----------------------------------------------------------------------------
(* What a reader has, and what becomes of it.                              *)
LEMMA IdleIs ==
  /\ \A t : AtRest(t) => t.at \in {"call", "pending"} /\ t.got = <<>>
  /\ AtRest(NewMessage)
  /\ \A t, m, k : Partly(t, m, k) => t.at \in {"call", "pending"}
<1>1. /\ NewMessage.at = "call" /\ NewMessage.got = <<>>
      /\ Thread("pending", <<>>).at = "pending" /\ Thread("pending", <<>>).got = <<>>
  BY DEF NewMessage, Thread
<1> QED
  BY <1>1 DEF AtRest, Partly

LEMMA Pends ==
  ASSUME NEW t, NEW u, t.at = "call", u = [t EXCEPT !.at = "pending"]
  PROVE  /\ AtRest(t) => AtRest(u)
         /\ \A m, k : Partly(t, m, k) => Partly(u, m, k)
<1>1. u.got = t.got
  BY DEF AtRest
<1>2. ASSUME AtRest(t) PROVE AtRest(u)
  <2>1. t = NewMessage
    BY <1>2 DEF AtRest, Thread
  <2>2. u = Thread("pending", <<>>)
    BY <2>1 DEF NewMessage, Thread
  <2> QED
    BY <2>2 DEF AtRest
<1>3. ASSUME NEW m, NEW k, Partly(t, m, k) PROVE Partly(u, m, k)
  <2>1. /\ t.at \in {"call", "pending"} /\ Len(t.got) = k
        /\ \A i \in 1..k : t.got[i].msg = m
    BY <1>3 DEF Partly
  <2> QED
    BY <1>1, <2>1 DEF Partly
<1> QED
  BY <1>2, <1>3

(* One string more of the same message.                                    *)
LEMMA ReadsOne ==
  ASSUME NEW t, t.got \in Seq(Strings), NEW m \in Messages, NEW k \in 1..3,
         \/ k = 1 /\ AtRest(t)
         \/ k > 1 /\ Partly(t, m, k - 1)
  PROVE  /\ Len(t.got \o <<Str(m, k)>>) = k /\ (t.got \o <<Str(m, k)>>)[1].msg = m
         /\ Partly(Thread("call", t.got \o <<Str(m, k)>>), m, k)
<1> DEFINE got == t.got \o <<Str(m, k)>>
<1>1. /\ <<Str(m, k)>> \in Seq(Strings) /\ Len(<<Str(m, k)>>) = 1
      /\ <<Str(m, k)>>[1].msg = m
  BY OneString
<1>2. /\ Len(t.got) = k - 1 /\ \A i \in 1..(k - 1) : t.got[i].msg = m
  BY IdleIs DEF Partly
<1>3. /\ Len(got) = Len(t.got) + 1
      /\ \A i \in 1..Len(t.got) : got[i] = t.got[i]
      /\ got[Len(t.got) + 1] = <<Str(m, k)>>[1]
  BY <1>1, Concat
<1>4. \A i \in 1..k : i \in 1..(k - 1) \/ i = k
  OBVIOUS
<1> HIDE DEF got
<1>5. Len(got) = k /\ \A i \in 1..k : got[i].msg = m
  <2>1. Len(got) = k /\ got[k].msg = m
    BY <1>1, <1>2, <1>3
  <2>2. ASSUME NEW i \in 1..(k - 1) PROVE got[i].msg = m
    BY <1>2, <1>3
  <2> QED
    BY <1>4, <2>1, <2>2
<1>6. Partly(Thread("call", got), m, k) /\ 1 \in 1..k
  BY <1>5 DEF Partly, Thread
<1> QED
  BY <1>5, <1>6 DEF got

LEMMA ReadsFirst ==
  ASSUME NEW t, t.got \in Seq(Strings), NEW m \in Messages, AtRest(t)
  PROVE  /\ Len(t.got \o <<Str(m, 1)>>) = 1 /\ (t.got \o <<Str(m, 1)>>)[1].msg = m
         /\ Partly(Thread("call", t.got \o <<Str(m, 1)>>), m, 1)
<1> DEFINE k == 1
<1>1. k \in 1..3 /\ k = 1
  OBVIOUS
<1> HIDE DEF k
<1> QED
  BY <1>1, ReadsOne

LEMMA ReadsSecond ==
  ASSUME NEW t, t.got \in Seq(Strings), NEW m \in Messages, Partly(t, m, 1)
  PROVE  /\ Len(t.got \o <<Str(m, 2)>>) = 2 /\ (t.got \o <<Str(m, 2)>>)[1].msg = m
         /\ Partly(Thread("call", t.got \o <<Str(m, 2)>>), m, 2)
<1> DEFINE k == 2
<1>1. k \in 1..3 /\ k = 2 /\ k > 1 /\ k - 1 = 1
  OBVIOUS
<1> HIDE DEF k
<1> QED
  BY <1>1, ReadsOne

LEMMA ReadsThird ==
  ASSUME NEW t, t.got \in Seq(Strings), NEW m \in Messages, Partly(t, m, 2)
  PROVE  /\ Len(t.got \o <<Str(m, 3)>>) = 3 /\ (t.got \o <<Str(m, 3)>>)[1].msg = m
         /\ Partly(Thread("call", t.got \o <<Str(m, 3)>>), m, 3)
<1> DEFINE k == 3
<1>1. k \in 1..3 /\ k = 3 /\ k > 1 /\ k - 1 = 2
  OBVIOUS
<1> HIDE DEF k
<1> QED
  BY <1>1, ReadsOne

LEMMA NoErrorStays ==
  ASSUME PlaceInv, NoErrorInv, TestNext
  PROVE  NoErrorInv'
<1> USE DEF testVars, dispatchVars, uiVars
<1>0. SUFFICES ASSUME Connected' PROVE NoErrorInv'
  BY DEF NoErrorInv
<1>1. Connected
  BY <1>0 DEF Connected, TestNext, TestMain, TestReader, AppReader, AppDispatch,
     TestWrites, TestFlushes, TestWakes, TestTakes, TestDisconnects, TestJoins,
     TestFails, TestReaderWaits, TestReaderReads, TestReaderEnds, TestReaderAppends,
     AppReaderWaits, AppReaderReads, AppReaderEnds, AppReaderPosts, DispatchPosted,
     Execute, AppWrites, AppFlushes, Others, GetKey, GetDialogClose, GetFrameClose,
     LoopEnds, Fini, AppFails, Noise, Minute
<1>2. /\ testRead.at # "ended" /\ appRead.at # "ended" /\ app # "exited"
      /\ testRead.at = "append" => Len(testRead.got) = 3
      /\ appRead.at = "post" => Len(appRead.got) = 2
      /\ ~TestRuns /\ AppRuns => down = <<>>
      /\ minutes = 0 => TestRuns /\ app # "error"
      /\ app \in {"running", "fini", "exited", "error"} /\ minutes \in Nat
  BY <1>1 DEF NoErrorInv, PlaceInv, TesterTypeOK
<1>3. CASE TestWrites \/ TestFlushes \/ TestWakes \/ TestTakes
  <2>1. TestRuns' /\ UNCHANGED <<testRead, appRead, app, minutes>>
    BY <1>3 DEF TestWrites, TestFlushes, TestWakes, TestTakes, TestRuns
  <2>2. TestRuns
    BY <1>3 DEF TestWrites, TestFlushes, TestWakes, TestTakes, TestRuns
  <2> QED
    BY <1>2, <2>1, <2>2 DEF NoErrorInv
<1>4. CASE TestDisconnects \/ TestJoins
  <2>1. FALSE
    BY <1>0, <1>1, <1>4 DEF TestDisconnects, TestJoins, Connected, PlaceInv
  <2> QED
    BY <2>1
<1>5. CASE TestFails
  <2>1. ~AppRuns
    BY <1>1, <1>5 DEF TestFails, ReadFails, Writable, Broken, Connected
  <2>2. UNCHANGED <<testRead, appRead, app, minutes, down>>
    BY <1>5 DEF TestFails
  <2> QED
    BY <1>2, <2>1, <2>2 DEF NoErrorInv, AppRuns
<1>6. CASE TestReaderWaits \/ TestReaderReads
  <2>1. testRead'.at # "ended" /\ (testRead'.at = "append" => Len(testRead'.got) = 3)
    <3>1. CASE TestReaderWaits
      BY <3>1 DEF TestReaderWaits, NothingYet
    <3>2. CASE TestReaderReads
      <4>1. testRead' = Thread(IF Len(testRead.got \o up) = 3 THEN "append" ELSE "call", testRead.got \o up)
        BY <3>2 DEF TestReaderReads
      <4> QED
        BY <4>1 DEF Thread
    <3> QED
      BY <1>6, <3>1, <3>2
  <2>2. UNCHANGED <<testMain, appRead, app, minutes, down>>
    BY <1>6 DEF TestReaderWaits, TestReaderReads
  <2> QED
    BY <1>2, <2>1, <2>2 DEF NoErrorInv, AppRuns, TestRuns
<1>7. CASE TestReaderEnds \/ AppReaderEnds
  <2>1. FALSE
    BY <1>1, <1>7 DEF TestReaderEnds, AppReaderEnds, SeesEnd, Connected
  <2> QED
    BY <2>1
<1>8. CASE TestReaderAppends
  <2>1. testRead'.at = "call"
    BY <1>2, <1>8 DEF TestReaderAppends, NewMessage, Thread
  <2>2. UNCHANGED <<testMain, appRead, app, minutes, down>>
    BY <1>8 DEF TestReaderAppends
  <2> QED
    BY <1>2, <2>1, <2>2 DEF NoErrorInv, AppRuns, TestRuns
<1>9. CASE AppReaderWaits \/ AppReaderReads
  <2>1. appRead'.at # "ended" /\ (appRead'.at = "post" => Len(appRead'.got) = 2)
    <3>1. CASE AppReaderWaits
      BY <3>1 DEF AppReaderWaits, NothingYet
    <3>2. CASE AppReaderReads
      <4>1. appRead' = Thread(IF Len(appRead.got \o down) = 2 THEN "post" ELSE "call", appRead.got \o down)
        BY <3>2 DEF AppReaderReads
      <4> QED
        BY <4>1 DEF Thread
    <3> QED
      BY <1>9, <3>1, <3>2
  <2>2. UNCHANGED <<testMain, testRead, app, minutes>> /\ down' \in {down, <<>>}
    BY <1>9 DEF AppReaderWaits, AppReaderReads
  <2> QED
    BY <1>2, <2>1, <2>2 DEF NoErrorInv, AppRuns, TestRuns
<1>10. CASE AppReaderPosts
  <2>1. appRead'.at = "call"
    BY <1>2, <1>10 DEF AppReaderPosts, NewMessage, Thread
  <2>2. UNCHANGED <<testMain, testRead, app, minutes, down>>
    BY <1>10 DEF AppReaderPosts
  <2> QED
    BY <1>2, <2>1, <2>2 DEF NoErrorInv, AppRuns, TestRuns
<1>11. CASE DispatchPosted \/ Execute \/ AppWrites \/ AppFlushes \/ Others \/ GetKey
            \/ GetDialogClose \/ GetFrameClose \/ LoopEnds \/ Noise
  <2>1. /\ UNCHANGED <<testMain, testRead, appRead, minutes, down>>
        /\ app' \in {app, "fini"}
    BY <1>11 DEF DispatchPosted, Execute, AppWrites, AppFlushes, Others, GetKey,
       GetDialogClose, GetFrameClose, LoopEnds, Noise
  <2>2. app = "running"
    BY <1>11 DEF DispatchPosted, Execute, AppWrites, AppFlushes, Others, GetKey,
       GetDialogClose, GetFrameClose, LoopEnds, Noise, Looping
  <2> QED
    BY <1>2, <2>1, <2>2 DEF NoErrorInv, AppRuns, TestRuns
<1>12. CASE Fini
  BY <1>2, <1>12 DEF Fini
<1>13. CASE AppFails
  <2>1. ~TestRuns
    BY <1>1, <1>13 DEF AppFails, ReadFails, Writable, Broken, Connected
  <2>2. UNCHANGED <<testMain, testRead, appRead, minutes, down>> /\ app' = "error"
    BY <1>13 DEF AppFails
  <2> QED
    BY <1>2, <2>1, <2>2 DEF NoErrorInv, AppRuns, TestRuns
<1>14. CASE Minute
  <2>1. UNCHANGED <<testRead, appRead, down>> /\ down = <<>> /\ app' \in {app, "error"}
        /\ minutes' # 0
    BY <1>2, <1>14 DEF Minute
  <2> QED
    BY <1>2, <2>1 DEF NoErrorInv
<1> QED
  BY <1>3, <1>4, <1>5, <1>6, <1>7, <1>8, <1>9, <1>10, <1>11, <1>12, <1>13, <1>14
     DEF TestNext, TestMain, TestReader, AppReader, AppDispatch

-----------------------------------------------------------------------------
(* A command on its way to the application.                                *)
LEMMA DownSame ==
  ASSUME DownInv, UNCHANGED <<script, pipe, testMain, step, down, appRead>>
  PROVE  DownInv'
BY DEF DownInv, Connected, TestRuns, Current, Script, AtRest, Partly

LEMMA DownStays ==
  ASSUME PlaceInv, NoErrorInv, DownInv, TestNext
  PROVE  DownInv'
<1> USE DEF testVars, dispatchVars, uiVars
<1>0. SUFFICES ASSUME Connected', TestRuns' PROVE DownInv'
  BY DEF DownInv
<1>1. script' = script
  BY DEF TestNext
<1>2. CASE \/ TestReader \/ DispatchPosted \/ Execute \/ AppWrites \/ AppFlushes \/ Others
           \/ GetKey \/ GetDialogClose \/ GetFrameClose \/ LoopEnds \/ Fini \/ AppFails \/ Noise
  <2>1. UNCHANGED <<script, pipe, testMain, step, down, appRead>>
    BY <1>1, <1>2 DEF TestReader, TestReaderWaits, TestReaderReads, TestReaderEnds,
       TestReaderAppends, DispatchPosted, Execute, AppWrites, AppFlushes, Others,
       GetKey, GetDialogClose, GetFrameClose, LoopEnds, Fini, AppFails, Noise
  <2> QED
    BY <2>1, DownSame
<1>3. CASE Minute
  <2>1. UNCHANGED <<script, pipe, testMain, step, down, appRead>>
    BY <1>0, <1>1, <1>3 DEF Minute, TestRuns
  <2> QED
    BY <2>1, DownSame
<1>4. CASE TestFails \/ TestDisconnects \/ TestJoins
  <2>1. FALSE
    BY <1>0, <1>4 DEF TestFails, TestDisconnects, TestJoins, TestRuns, Connected, PlaceInv
  <2> QED
    BY <2>1
<1>5. CASE AppReaderEnds
  <2>1. FALSE
    BY <1>0, <1>5 DEF AppReaderEnds, SeesEnd, Connected
  <2> QED
    BY <2>1
<1> DEFINE m == Current.msg
           Kept == AtRest(appRead) \/ appRead.at = "post"
<1>6. /\ testMain \in {"next", "take"} => down = <<>> /\ Kept
      /\ testMain = "flush1" => \/ down = <<Str(m, 1)>> /\ Kept
                                \/ down = <<>> /\ Partly(appRead, m, 1)
      /\ testMain = "object" => down = <<>> /\ Partly(appRead, m, 1)
      /\ testMain = "flush2" =>
           \/ down = <<Str(m, 2)>> /\ Partly(appRead, m, 1)
           \/ down = <<>> /\ AtRest(appRead)
           \/ down = <<>> /\ appRead.at = "post" /\ appRead.got[1].msg = m
  <2>1. Connected /\ TestRuns
    BY <1>0 DEF TestNext, TestMain, AppReader, TestReader, AppDispatch, Connected,
       TestRuns, TestWrites, TestFlushes, TestWakes, TestTakes, TestDisconnects,
       TestJoins, TestFails, TestReaderWaits, TestReaderReads, TestReaderEnds,
       TestReaderAppends, AppReaderWaits, AppReaderReads, AppReaderEnds, AppReaderPosts,
       DispatchPosted, Execute, AppWrites, AppFlushes, Others, GetKey, GetDialogClose,
       GetFrameClose, LoopEnds, Fini, AppFails, Noise, Minute
  <2> QED
    BY <2>1 DEF DownInv
<1>7. CASE TestWakes \/ TestTakes
  <2>1. testMain \in {"next", "take"} /\ testMain' \in {"next", "take"}
        /\ UNCHANGED <<down, appRead>>
    BY <1>7 DEF TestWakes, TestTakes
  <2> QED
    BY <1>6, <2>1 DEF DownInv, AtRest
<1>8. CASE TestWrites
  <2>1. UNCHANGED <<step, appRead>> /\ Current' = Current
    BY <1>1, <1>8 DEF TestWrites, Current, Script
  <2>2. CASE testMain = "next"
    <3>1. down' = <<Str(m, 1)>> /\ testMain' = "flush1" /\ Kept
      BY <1>6, <1>8, <2>2 DEF TestWrites, Str
    <3> QED
      BY <2>1, <3>1 DEF DownInv, AtRest, Str
  <2>3. CASE testMain = "object"
    <3>1. down' = <<Str(m, 2)>> /\ testMain' = "flush2" /\ Partly(appRead, m, 1)
      BY <1>6, <1>8, <2>3 DEF TestWrites, Str
    <3> QED
      BY <2>1, <3>1 DEF DownInv, Partly, Str
  <2> QED
    BY <1>8, <2>2, <2>3 DEF TestWrites
<1>9. CASE TestFlushes
  <2>1. UNCHANGED <<down, appRead>> /\ down = <<>>
    BY <1>9 DEF TestFlushes, Flushed
  <2>2. <<Str(m, 1)>> # <<>> /\ <<Str(m, 2)>> # <<>>
    OBVIOUS
  <2>3. CASE testMain = "flush1"
    <3>1. testMain' = "object" /\ Current' = Current /\ Partly(appRead, m, 1)
      BY <1>1, <1>6, <1>9, <2>1, <2>2, <2>3 DEF TestFlushes, Current, Script
    <3> QED
      BY <2>1, <3>1 DEF DownInv, Partly
  <2>4. CASE testMain = "flush2"
    <3>1. testMain' = "next" /\ Kept
      BY <1>6, <1>9, <2>1, <2>2, <2>4 DEF TestFlushes
    <3> QED
      BY <2>1, <3>1 DEF DownInv, AtRest
  <2> QED
    BY <1>9, <2>3, <2>4 DEF TestFlushes
<1>10. CASE AppReaderWaits
  <2>1. UNCHANGED <<testMain, down>> /\ Current' = Current
        /\ appRead.at = "call" /\ appRead' = [appRead EXCEPT !.at = "pending"]
    BY <1>1, <1>10 DEF AppReaderWaits, Current, Script, NothingYet
  <2>2. /\ AtRest(appRead) => AtRest(appRead)'
        /\ \A k : Partly(appRead, m, k) => Partly(appRead, m, k)'
    <3>1. AtRest(appRead) => AtRest(appRead')
      BY <2>1, Pends
    <3>2. \A k : Partly(appRead, m, k) => Partly(appRead', m, k)
      BY <2>1, Pends
    <3> QED
      BY <2>1, <3>1, <3>2 DEF AtRest, Partly
  <2> QED
    BY <1>6, <2>1, <2>2 DEF DownInv
<1>11. CASE AppReaderPosts
  <2>1. /\ UNCHANGED <<testMain, down>>
        /\ Current' = Current
        /\ appRead.at = "post"
        /\ AtRest(appRead')
    <3>1. Len(appRead.got) = 2
      BY <1>0, <1>11 DEF NoErrorInv, AppReaderPosts, Connected
    <3> QED
      BY <1>1, <1>11, <3>1, IdleIs DEF AppReaderPosts, Current, Script
  <2>2. ~Partly(appRead, m, 1)
    BY <2>1, IdleIs
  <2> QED
    BY <1>6, <2>1, <2>2 DEF DownInv, AtRest
<1>12. CASE AppReaderReads
  <2>1. /\ UNCHANGED <<testMain, step>>
        /\ Current' = Current
        /\ down # <<>>
        /\ down' = <<>>
        /\ appRead.at \in {"call", "pending"}
        /\ appRead' = Thread(IF Len(appRead.got \o down) = 2 THEN "post" ELSE "call", appRead.got \o down)
    BY <1>1, <1>12 DEF AppReaderReads, Current, Script, MayRead
  <2>2. appRead.got \in Seq(Strings)
    BY DEF PlaceInv, TesterTypeOK, ReaderOK, Strings
  <2>3. testMain \in {"flush1", "flush2"} /\ m \in Messages
    <3>1. testMain \in {"flush1", "flush2"}
      BY <1>0, <1>6, <2>1 DEF PlaceInv, TesterTypeOK, TestRuns, Connected
    <3>2. step \in 1..Len(Script)
      BY <3>1, ScriptIs DEF PlaceInv, Posting, TesterTypeOK
    <3> QED
      BY <3>1, <3>2, ScriptIs DEF PlaceInv, TesterTypeOK, Current
  <2>4. CASE testMain = "flush1"
    <3>1. down = <<Str(m, 1)>> /\ AtRest(appRead)
      BY <1>6, <2>1, <2>4
    <3> DEFINE got == appRead.got \o <<Str(m, 1)>>
    <3>4. Len(got) = 1 /\ Partly(Thread("call", got), m, 1)
      BY <2>2, <2>3, <3>1, ReadsFirst
    <3>2. Partly(appRead', m, 1)
      BY <2>1, <3>1, <3>4
    <3>3. Partly(appRead, m, 1)'
      BY <2>1, <3>2 DEF Partly
    <3> QED
      BY <2>1, <2>4, <3>3 DEF DownInv
  <2>5. CASE testMain = "flush2"
    <3>1. down = <<Str(m, 2)>> /\ Partly(appRead, m, 1)
      BY <1>6, <2>1, <2>5
    <3>2. Len(appRead.got \o down) = 2 /\ (appRead.got \o down)[1].msg = m
      <4>2. /\ Len(appRead.got \o <<Str(m, 2)>>) = 2
            /\ (appRead.got \o <<Str(m, 2)>>)[1].msg = m
        BY <2>2, <2>3, <3>1, ReadsSecond
      <4> QED
        BY <3>1, <4>2
    <3>3. appRead'.at = "post" /\ appRead'.got[1].msg = m
      BY <2>1, <3>2 DEF Thread
    <3> QED
      BY <2>1, <2>5, <3>3 DEF DownInv
  <2> QED
    BY <2>3, <2>4, <2>5
<1> QED
  BY <1>2, <1>3, <1>4, <1>5, <1>7, <1>8, <1>9, <1>10, <1>11, <1>12
     DEF TestNext, TestMain, TestReader, AppReader, AppDispatch

-----------------------------------------------------------------------------
(* An answer on its way to the test.                                       *)
LEMMA UpSame ==
  ASSUME UpInv, UNCHANGED <<pipe, stage, handling, up, testRead>>
  PROVE  UpInv'
BY DEF UpInv, Connected, HasRead, Handed, AtRest, Partly, Str

(* In the stages in which nothing of the answer is written, it is all the  *)
(* same what is being dispatched.                                          *)
Silent == {"get", "execute", "others", "write1"}

LEMMA UpSilent ==
  ASSUME UpInv, Connected', UNCHANGED <<pipe, up, testRead>>, stage \in Silent,
         stage' \in Silent
  PROVE  UpInv'
<1>1. up' = <<>> /\ HasRead(0)'
  BY DEF UpInv, Connected, HasRead, AtRest, Silent
<1> QED
  BY <1>1 DEF UpInv, Silent

LEMMA UpStays ==
  ASSUME PlaceInv, NoErrorInv, UpInv, TestNext
  PROVE  UpInv'
<1> USE DEF testVars, dispatchVars, uiVars
<1>0. SUFFICES ASSUME Connected' PROVE UpInv'
  BY DEF UpInv
<1>1. CASE \/ TestWrites \/ TestFlushes \/ TestWakes \/ TestTakes \/ TestJoins \/ TestFails
           \/ AppReader \/ LoopEnds \/ Fini \/ AppFails \/ Noise \/ Minute
           \/ GetKey \/ GetDialogClose \/ GetFrameClose
  <2>1. UNCHANGED <<pipe, stage, handling, up, testRead>>
    BY <1>1 DEF TestWrites, TestFlushes, TestWakes, TestTakes, TestJoins, TestFails,
       AppReader, AppReaderWaits, AppReaderReads, AppReaderEnds, AppReaderPosts,
       LoopEnds, Fini, AppFails, Noise, Minute, GetKey, GetDialogClose, GetFrameClose
  <2> QED
    BY <2>1, UpSame
<1>2. CASE DispatchPosted \/ Execute \/ Others
  <2>1. UNCHANGED <<pipe, up, testRead>> /\ stage \in Silent /\ stage' \in Silent
    BY <1>2 DEF DispatchPosted, Execute, Others, Looping, Silent
  <2> QED
    BY <1>0, <2>1, UpSilent
<1>3. CASE TestDisconnects \/ TestReaderEnds
  <2>1. FALSE
    BY <1>0, <1>3 DEF TestDisconnects, TestReaderEnds, SeesEnd, Connected
  <2> QED
    BY <2>1
<1> DEFINE m == handling
<1>4. /\ stage \in Silent => up = <<>> /\ HasRead(0)
      /\ stage = "flush1" => \/ up = <<Str(m, 1)>> /\ HasRead(0)
                             \/ up = <<>> /\ HasRead(1)
      /\ stage = "write2" => up = <<>> /\ HasRead(1)
      /\ stage = "flush2" => \/ up = <<Str(m, 2)>> /\ HasRead(1)
                             \/ up = <<>> /\ HasRead(2)
      /\ stage = "write3" => up = <<>> /\ HasRead(2)
      /\ stage = "flush3" => \/ up = <<Str(m, 3)>> /\ HasRead(2)
                             \/ up = <<>> /\ (AtRest(testRead) \/ Handed)
  <2>1. Connected
    BY <1>0 DEF TestNext, TestMain, AppReader, TestReader, AppDispatch, Connected,
       TestWrites, TestFlushes, TestWakes, TestTakes, TestDisconnects, TestJoins,
       TestFails, TestReaderWaits, TestReaderReads, TestReaderEnds, TestReaderAppends,
       AppReaderWaits, AppReaderReads, AppReaderEnds, AppReaderPosts, DispatchPosted,
       Execute, AppWrites, AppFlushes, Others, GetKey, GetDialogClose, GetFrameClose,
       LoopEnds, Fini, AppFails, Noise, Minute
  <2> QED
    BY <2>1 DEF UpInv, Silent
<1>5. /\ HasRead(0) <=> AtRest(testRead) \/ testRead.at = "append"
      /\ HasRead(1) <=> Partly(testRead, m, 1)
      /\ HasRead(2) <=> Partly(testRead, m, 2)
      /\ HasRead(0)' <=> AtRest(testRead') \/ testRead'.at = "append"
      /\ HasRead(1)' <=> Partly(testRead', m', 1)
      /\ HasRead(2)' <=> Partly(testRead', m', 2)
      /\ Handed' <=> testRead'.at = "append" /\ testRead'.got[1].msg = m'
  BY DEF HasRead, Handed, Partly, AtRest
<1>6. \A k : <<Str(m, k)>> # <<>>
  OBVIOUS
<1>7. /\ stage \in Silent \union {"flush1", "write2", "flush2", "write3", "flush3"}
      /\ stage # "get" => m \in Messages
      /\ testRead.got \in Seq(Strings)
  BY DEF PlaceInv, TesterTypeOK, ReaderOK, Places, Silent, Strings
<1>8. CASE AppWrites
  <2>1. /\ UNCHANGED <<testRead, handling>>
        /\ up' = <<[msg |-> m, part |-> Part(stage)]>>
        /\ stage' = NextPlace(stage)
    BY <1>8 DEF AppWrites
  <2>2. \/ stage = "write1" /\ Part(stage) = 1 /\ stage' = "flush1"
        \/ stage = "write2" /\ Part(stage) = 2 /\ stage' = "flush2"
        \/ stage = "write3" /\ Part(stage) = 3 /\ stage' = "flush3"
    BY <1>8, <2>1 DEF AppWrites, Part, NextPlace
  <2>3. up' = <<Str(handling', Part(stage))>>
    BY <2>1 DEF Str
  <2> QED
    BY <1>4, <1>5, <2>1, <2>2, <2>3 DEF UpInv, Silent, Str
<1>9. CASE AppFlushes
  <2>1. UNCHANGED <<testRead, handling, up>> /\ up = <<>> /\ stage' = NextPlace(stage)
    BY <1>9 DEF AppFlushes, Flushed
  <2>2. \/ stage = "flush1" /\ stage' = "write2"
        \/ stage = "flush2" /\ stage' = "write3"
        \/ stage = "flush3" /\ stage' = "others"
    BY <1>9, <2>1 DEF AppFlushes, NextPlace
  <2>3. Handed => testRead.at = "append"
    BY DEF Handed
  <2> QED
    BY <1>4, <1>5, <1>6, <2>1, <2>2, <2>3 DEF UpInv
<1>10. CASE TestReaderWaits
  <2>1. /\ UNCHANGED <<stage, up, handling>>
        /\ up = <<>>
        /\ testRead.at = "call"
        /\ testRead' = [testRead EXCEPT !.at = "pending"]
    BY <1>10 DEF TestReaderWaits, NothingYet
  <2>2. AtRest(testRead) => AtRest(testRead')
    BY <2>1, Pends
  <2>3. \A k : Partly(testRead, m, k) => Partly(testRead', m, k)
    BY <2>1, Pends
  <2>4. ~Handed
    BY <2>1 DEF Handed
  <2> QED
    BY <1>4, <1>5, <1>6, <2>1, <2>2, <2>3, <2>4 DEF UpInv, Silent
<1>11. CASE TestReaderReads
  <2>1. /\ UNCHANGED <<stage, handling>> /\ up # <<>> /\ up' = <<>>
        /\ testRead.at \in {"call", "pending"}
        /\ testRead' = Thread(IF Len(testRead.got \o up) = 3 THEN "append" ELSE "call", testRead.got \o up)
    BY <1>11 DEF TestReaderReads, MayRead
  <2>2. CASE stage = "flush1"
    <3>1. up = <<Str(m, 1)>> /\ AtRest(testRead)
      BY <1>4, <1>5, <2>1, <2>2
    <3> DEFINE got == testRead.got \o <<Str(m, 1)>>
    <3>2. Len(got) = 1 /\ Partly(Thread("call", got), m, 1)
      BY <1>7, <2>2, <3>1, ReadsFirst
    <3>3. Partly(testRead', m, 1)
      BY <2>1, <3>1, <3>2
    <3> QED
      BY <1>5, <2>1, <2>2, <3>3 DEF UpInv
  <2>3. CASE stage = "flush2"
    <3>1. up = <<Str(m, 2)>> /\ Partly(testRead, m, 1)
      BY <1>4, <1>5, <2>1, <2>3
    <3> DEFINE got == testRead.got \o <<Str(m, 2)>>
    <3>2. Len(got) = 2 /\ Partly(Thread("call", got), m, 2)
      BY <1>7, <2>3, <3>1, ReadsSecond
    <3>3. Partly(testRead', m, 2)
      BY <2>1, <3>1, <3>2
    <3> QED
      BY <1>5, <2>1, <2>3, <3>3 DEF UpInv
  <2>4. CASE stage = "flush3"
    <3>1. up = <<Str(m, 3)>> /\ Partly(testRead, m, 2)
      BY <1>4, <1>5, <2>1, <2>4
    <3> DEFINE got == testRead.got \o <<Str(m, 3)>>
    <3>2. Len(got) = 3 /\ got[1].msg = m
      BY <1>7, <2>4, <3>1, ReadsThird
    <3>3. testRead' = Thread("append", got)
      BY <2>1, <3>1, <3>2
    <3> HIDE DEF got
    <3>4. testRead'.at = "append" /\ testRead'.got = got
      BY <3>3 DEF Thread
    <3> QED
      BY <1>5, <2>1, <2>4, <3>2, <3>4 DEF UpInv
  <2> QED
    BY <1>4, <1>7, <2>1, <2>2, <2>3, <2>4
<1>12. CASE TestReaderAppends
  <2>1. UNCHANGED <<stage, up, handling>> /\ testRead.at = "append" /\ AtRest(testRead')
    <3>1. Len(testRead.got) = 3
      BY <1>0, <1>12 DEF NoErrorInv, TestReaderAppends, Connected
    <3> QED
      BY <1>12, <3>1, IdleIs DEF TestReaderAppends
  <2>2. \A k : ~Partly(testRead, m, k)
    BY <2>1, IdleIs
  <2> QED
    BY <1>4, <1>5, <2>1, <2>2 DEF UpInv, Silent, Str
<1> QED
  BY <1>1, <1>2, <1>3, <1>8, <1>9, <1>10, <1>11, <1>12
     DEF TestNext, TestMain, TestReader, AppDispatch

-----------------------------------------------------------------------------
(* What is on its way, and what a step does to it.                         *)
Returned == Got(testRead, "append")
Arrived == Got(appRead, "post")

PartsAre ==
  /\ history \in Seq(Messages) /\ posted \in Seq(Messages)
  /\ Returned \in Seq(Messages) /\ Arrived \in Seq(Messages)
  /\ InHand \in Seq(Messages) /\ ToExecute \in Seq(Messages)
  /\ Back \in Seq(Messages) /\ Ahead \in Seq(Messages)
  /\ Line \in Seq(Messages) /\ ToDo \in Seq(Messages)
  /\ InHand \o Ahead \in Seq(Messages)
  /\ <<>> \in Seq(Messages)
  /\ Back = history \o Returned /\ Ahead = posted \o Arrived
  /\ \A m : Has(Arrived, m) => m.cmd \in Commands

LEMMA Parts == PlaceInv => PartsAre
<1> SUFFICES ASSUME PlaceInv PROVE PartsAre
  OBVIOUS
<1>1. /\ history \in Seq(Messages) /\ posted \in Seq(Messages)
      /\ testRead.got \in Seq(Strings) /\ appRead.got \in Seq(Strings)
      /\ stage # "get" => handling \in Messages
  BY DEF PlaceInv, TesterTypeOK, ReaderOK, Strings
<1>2. /\ testRead.at = "append" => testRead.got[1].msg \in Messages
      /\ appRead.at = "post" => appRead.got[1].msg \in Messages /\ appRead.got[1].msg.cmd \in Commands
  <2>1. \A s \in Seq(Strings) : s # <<>> => 1 \in 1..Len(s) /\ s[1] \in Strings
    BY EmptySeq, ElementOfSeq
  <2>2. \A x \in Strings : x.msg \in Messages
    BY DEF Strings
  <2>3. /\ testRead.at = "append" => testRead.got # <<>>
        /\ appRead.at = "post" => appRead.got # <<>>
        /\ \A i \in 1..Len(appRead.got) : appRead.got[i].msg.cmd \in Commands
    BY DEF PlaceInv
  <2> QED
    BY <1>1, <2>1, <2>2, <2>3
<1>3. /\ \A m \in Messages : <<m>> \in Seq(Messages)
      /\ <<>> \in Seq(Messages)
  OBVIOUS
<1>4. /\ Returned \in Seq(Messages) /\ Arrived \in Seq(Messages)
  BY <1>2, <1>3 DEF Returned, Arrived, Got
<1>5. InHand \in Seq(Messages) /\ ToExecute \in Seq(Messages)
  BY <1>1, <1>3 DEF InHand, ToExecute, Unsent
<1>6. Back = history \o Returned /\ Ahead = posted \o Arrived
  BY DEF Back, Ahead, Returned, Arrived
<1>7. Back \in Seq(Messages) /\ Ahead \in Seq(Messages)
  BY <1>1, <1>4, <1>6, Concat
<1>8. InHand \o Ahead \in Seq(Messages) /\ ToDo \in Seq(Messages)
  BY <1>5, <1>7, Concat DEF ToDo
<1>9. Line \in Seq(Messages)
  BY <1>7, <1>8, Concat DEF Line
<1>10. \A m : Has(Arrived, m) => m.cmd \in Commands
  BY <1>2, HasFew DEF Arrived, Got
<1> QED
  BY <1>1, <1>3, <1>4, <1>5, <1>6, <1>7, <1>8, <1>9, <1>10 DEF PartsAre

LEMMA PartsNext == PlaceInv' => PartsAre'
BY Parts, PTL

(* Every message of the line is in one of its parts.                       *)
LineHas ==
  /\ \A m : Has(Line, m) <=> \/ Has(history, m) \/ Has(Returned, m) \/ Has(InHand, m)
                             \/ Has(posted, m) \/ Has(Arrived, m)
  /\ \A m : Has(ToDo, m) <=> Has(ToExecute, m) \/ Has(posted, m) \/ Has(Arrived, m)
  /\ \A m : Has(ToExecute, m) <=> stage = "execute" /\ handling = m
  /\ \A m : Has(InHand, m) <=> Unsent /\ handling = m

LEMMA WhoHas == PlaceInv => LineHas
<1> SUFFICES ASSUME PlaceInv PROVE LineHas
  OBVIOUS
<1>0. PartsAre
  BY Parts
<1>1. \A m : Has(Line, m) <=> Has(Back, m) \/ Has(InHand \o Ahead, m)
  BY <1>0, HasConcat DEF Line, PartsAre
<1>2. \A m : Has(InHand \o Ahead, m) <=> Has(InHand, m) \/ Has(Ahead, m)
  BY <1>0, HasConcat DEF PartsAre
<1>3. \A m : Has(Back, m) <=> Has(history, m) \/ Has(Returned, m)
  <2>1. /\ Back = history \o Returned
        /\ history \in Seq(Messages)
        /\ Returned \in Seq(Messages)
    BY <1>0 DEF PartsAre
  <2>2. \A m : Has(history \o Returned, m) <=> Has(history, m) \/ Has(Returned, m)
    BY <2>1, HasConcat
  <2> QED
    BY <2>1, <2>2
<1>4. \A m : Has(Ahead, m) <=> Has(posted, m) \/ Has(Arrived, m)
  <2>1. /\ Ahead = posted \o Arrived
        /\ posted \in Seq(Messages)
        /\ Arrived \in Seq(Messages)
    BY <1>0 DEF PartsAre
  <2>2. \A m : Has(posted \o Arrived, m) <=> Has(posted, m) \/ Has(Arrived, m)
    BY <2>1, HasConcat
  <2> QED
    BY <2>1, <2>2
<1>5. \A m : Has(ToDo, m) <=> Has(ToExecute, m) \/ Has(Ahead, m)
  BY <1>0, HasConcat DEF ToDo, PartsAre
<1>6. /\ \A m : Has(ToExecute, m) <=> stage = "execute" /\ handling = m
      /\ \A m : Has(InHand, m) <=> Unsent /\ handling = m
  BY HasFew DEF ToExecute, InHand
<1> QED
  BY <1>1, <1>2, <1>3, <1>4, <1>5, <1>6 DEF LineHas

LEMMA WhoHasNext == PlaceInv' => LineHas'
BY WhoHas, PTL

LEMMA HeadFirst ==
  ASSUME NEW S, NEW s \in Seq(S), s # <<>>
  PROVE  s = <<Head(s)>> \o Tail(s) /\ Head(s) \in S /\ Tail(s) \in Seq(S)
<1>1. Len(s) \in Nat \ {0}
  BY EmptySeq
<1>2. 1 \in 1..Len(s) /\ Len(s) \in 1..Len(s)
  BY <1>1
<1>3. SubSeq(s, 1, Len(s)) = <<s[1]>> \o SubSeq(s, 1 + 1, Len(s))
  BY <1>2, SubSeqRecursiveFirst
<1>4. SubSeq(s, 1, Len(s)) = s
  BY SubSeqFull
<1>5. Tail(s) = SubSeq(s, 2, Len(s)) /\ Head(s) = s[1]
  BY TailIsSubSeq
<1> QED
  BY <1>3, <1>4, <1>5, HeadTailProperties

(* Nothing changes: what one has, another gets.                            *)
LEMMA LineSame ==
  ASSUME PlaceInv, PlaceInv', NoErrorInv, UpInv, Connected, TestNext,
         \/ TestWrites \/ TestFlushes \/ TestWakes \/ TestJoins \/ TestFails
         \/ TestReaderWaits \/ TestReaderReads \/ AppReaderWaits \/ AppReaderPosts
         \/ DispatchPosted \/ AppWrites \/ AppFlushes \/ Others \/ GetKey \/ GetDialogClose
         \/ LoopEnds \/ Fini \/ AppFails \/ Minute
  PROVE  Line' = Line
<1> USE DEF testVars, dispatchVars, uiVars
<1>0. Messages' = Messages
  BY ScriptStays DEF TestNext
<1>p. /\ history \in Seq(Messages) /\ posted \in Seq(Messages)
      /\ Returned \in Seq(Messages) /\ Arrived \in Seq(Messages)
      /\ InHand \in Seq(Messages) /\ Ahead \in Seq(Messages)
      /\ Back = history \o Returned /\ Ahead = posted \o Arrived
  BY Parts DEF PartsAre
<1>1. /\ posted' \in Seq(Messages)
      /\ Back' = history' \o Returned'
      /\ Ahead' = posted' \o Arrived'
      /\ Arrived' \in Seq(Messages) /\ Returned' \in Seq(Messages)
  BY <1>0, PartsNext DEF PartsAre
<1>2. Line' = Back' \o (InHand' \o Ahead')
  BY DEF Line
<1>3. CASE \/ TestWrites \/ TestFlushes \/ TestWakes \/ TestJoins \/ TestFails
           \/ GetKey \/ GetDialogClose \/ LoopEnds \/ Fini \/ AppFails \/ Minute
  <2>1. UNCHANGED <<history, testRead, handling, stage, up, posted, appRead>>
    BY <1>3 DEF TestWrites, TestFlushes, TestWakes, TestJoins, TestFails, GetKey,
       GetDialogClose, LoopEnds, Fini, AppFails, Minute
  <2> QED
    BY <2>1 DEF Line, Back, Ahead, InHand, Unsent, Got
<1>4. CASE TestReaderWaits
  <2>1. /\ Returned' = Returned
        /\ UNCHANGED <<history, handling, stage, up, posted, appRead>>
    BY <1>4 DEF TestReaderWaits, NothingYet, Returned, Got
  <2> QED
    BY <2>1 DEF Line, Back, Ahead, InHand, Unsent, Got, Returned
<1>5. CASE AppReaderWaits
  <2>1. /\ Arrived' = Arrived
        /\ UNCHANGED <<history, handling, stage, up, posted, testRead>>
    BY <1>5 DEF AppReaderWaits, NothingYet, Arrived, Got
  <2> QED
    BY <2>1 DEF Line, Back, Ahead, InHand, Unsent, Got, Arrived
<1>6. CASE AppReaderPosts
  <2> DEFINE x == appRead.got[1].msg
  <2>1. posted' = Append(posted, x) /\ Arrived = <<x>> /\ Arrived' = <<>>
        /\ UNCHANGED <<history, handling, stage, up, testRead>>
    <3>1. Len(appRead.got) = 2
      BY <1>6 DEF NoErrorInv, AppReaderPosts
    <3> QED
      BY <1>6, <3>1 DEF AppReaderPosts, NewMessage, Thread, Arrived, Got
  <2>2. x \in Messages
    <3>1. Has(Arrived, x)
      BY <2>1, HasFew
    <3> QED
      BY <1>p, <3>1, HasOnly
  <2>3. posted' = posted \o <<x>>
    BY <1>p, <2>1, <2>2, AppendIsConcat
  <2>4. Ahead' = Ahead
    BY <1>p, <1>1, <2>1, <2>3, ConcatEmptySeq
  <2> QED
    BY <2>1, <2>4 DEF Line, Back, InHand, Unsent, Got
<1>7. CASE DispatchPosted
  <2>1. /\ posted # <<>>
        /\ posted' = Tail(posted)
        /\ handling' = Head(posted)
        /\ stage = "get"
        /\ stage' = "execute"
        /\ UNCHANGED <<history, testRead, appRead>>
    BY <1>7 DEF DispatchPosted, Looping
  <2>2. /\ InHand = <<>>
        /\ InHand' = <<Head(posted)>>
        /\ Arrived' = Arrived
        /\ Back' = Back
    BY <2>1 DEF InHand, Unsent, Arrived, Back, Got
  <2> DEFINE h == Head(posted)
             t == Tail(posted)
  <2>3. posted = <<h>> \o t /\ <<h>> \in Seq(Messages) /\ t \in Seq(Messages)
    <3>1. posted = <<h>> \o t /\ h \in Messages /\ t \in Seq(Messages)
      BY <1>p, <2>1, HeadFirst
    <3> QED
      BY <3>1
  <2>8. posted' = t /\ InHand' = <<h>>
    BY <2>1, <2>2
  <2> HIDE DEF h, t
  <2>4. (<<h>> \o t) \o Arrived = <<h>> \o (t \o Arrived)
    BY <1>p, <2>3, ConcatAssociative
  <2>5. InHand \o Ahead = Ahead
    BY <1>p, <2>2, ConcatEmptySeq
  <2>6. InHand' \o Ahead' = <<h>> \o (t \o Arrived)
    BY <1>1, <2>2, <2>8
  <2>7. Ahead = (<<h>> \o t) \o Arrived
    BY <1>p, <2>3
  <2> QED
    BY <1>2, <2>2, <2>4, <2>5, <2>6, <2>7 DEF Line
<1>8. CASE AppWrites \/ AppFlushes \/ Others
  <2>1. UNCHANGED <<history, testRead, posted, appRead>>
    BY <1>8 DEF AppWrites, AppFlushes, Others
  <2>2. InHand' = InHand
    <3>1. CASE AppWrites
      <4>1. /\ stage \in {"write1", "write2", "write3"} /\ stage' = NextPlace(stage)
            /\ up' # <<>> /\ UNCHANGED handling
        BY <3>1 DEF AppWrites, Part
      <4>2. stage' \in {"flush1", "flush2", "flush3"}
        BY <4>1 DEF NextPlace
      <4> QED
        BY <4>1, <4>2 DEF InHand, Unsent
    <3>2. CASE AppFlushes
      <4>1. UNCHANGED <<handling, up>> /\ up = <<>> /\ stage' = NextPlace(stage)
        BY <3>2 DEF AppFlushes, Flushed
      <4>2. \/ stage = "flush1" /\ stage' = "write2"
            \/ stage = "flush2" /\ stage' = "write3"
            \/ stage = "flush3" /\ stage' = "others"
        BY <3>2, <4>1 DEF AppFlushes, NextPlace
      <4> QED
        BY <4>1, <4>2 DEF InHand, Unsent
    <3>3. CASE Others
      BY <3>3 DEF Others, InHand, Unsent
    <3> QED
      BY <1>8, <3>1, <3>2, <3>3
  <2> QED
    BY <2>1, <2>2 DEF Line, Back, Ahead, Got
<1>9. CASE TestReaderReads
  <2>1. /\ UNCHANGED <<history, handling, stage, posted, appRead>>
        /\ up # <<>>
        /\ up' = <<>>
        /\ testRead.at \in {"call", "pending"}
        /\ testRead' = Thread(IF Len(testRead.got \o up) = 3 THEN "append" ELSE "call", testRead.got \o up)
    BY <1>9 DEF TestReaderReads, MayRead
  <2>2. Returned = <<>> /\ Back = history
    <3>1. Returned = <<>>
      BY <2>1 DEF Returned, Got
    <3> QED
      BY <1>p, <3>1, ConcatEmptySeq
  <2>3. /\ testRead.got \in Seq(Strings)
        /\ stage # "get" => handling \in Messages
        /\ stage \in Places \union {"get", "execute", "others"}
    BY DEF PlaceInv, TesterTypeOK, ReaderOK, Strings
  <2>4. \/ stage = "flush1" /\ up = <<Str(handling, 1)>> /\ AtRest(testRead)
        \/ stage = "flush2" /\ up = <<Str(handling, 2)>> /\ Partly(testRead, handling, 1)
        \/ stage = "flush3" /\ up = <<Str(handling, 3)>> /\ Partly(testRead, handling, 2)
    BY <2>1, <2>3 DEF UpInv, HasRead, Places
  <2>5. CASE stage # "flush3"
    <3>1. Len(testRead.got \o up) # 3
      <4>1. CASE stage = "flush1"
        <5>1. Len(testRead.got \o <<Str(handling, 1)>>) = 1
          BY <2>3, <2>4, <4>1, ReadsFirst
        <5>2. up = <<Str(handling, 1)>>
          BY <2>4, <4>1
        <5> QED
          BY <5>1, <5>2
      <4>2. CASE stage = "flush2"
        <5>1. Len(testRead.got \o <<Str(handling, 2)>>) = 2
          BY <2>3, <2>4, <4>2, ReadsSecond
        <5>2. up = <<Str(handling, 2)>>
          BY <2>4, <4>2
        <5> QED
          BY <5>1, <5>2
      <4> QED
        BY <2>4, <2>5, <4>1, <4>2
    <3>2. testRead'.at = "call"
      BY <2>1, <3>1 DEF Thread
    <3>3. Returned' = Returned /\ InHand' = InHand
      BY <2>1, <2>2, <2>4, <2>5, <3>2 DEF Returned, InHand, Unsent, Got
    <3> QED
      BY <2>1, <3>3 DEF Line, Back, Ahead, Returned, Got
  <2>6. CASE stage = "flush3"
    <3>1. /\ Len(testRead.got \o <<Str(handling, 3)>>) = 3
          /\ (testRead.got \o <<Str(handling, 3)>>)[1].msg = handling
      BY <2>3, <2>4, <2>6, ReadsThird
    <3>2. testRead'.at = "append" /\ testRead'.got[1].msg = handling
      BY <2>1, <2>4, <2>6, <3>1 DEF Thread
    <3>3. Returned' = <<handling>> /\ InHand = <<handling>> /\ InHand' = <<>>
      BY <2>1, <2>6, <3>2 DEF Returned, InHand, Unsent, Got
    <3>4. Ahead' = Ahead
      BY <2>1 DEF Ahead, Got
    <3>5. Line' = (history \o <<handling>>) \o (<<>> \o Ahead)
      BY <1>1, <1>2, <2>1, <3>3, <3>4
    <3>6. Line = history \o (<<handling>> \o Ahead) /\ <<handling>> \in Seq(Messages)
      BY <1>p, <2>2, <3>3 DEF Line
    <3>7. <<>> \o Ahead = Ahead
      BY <1>p, ConcatEmptySeq
    <3>8. (history \o <<handling>>) \o Ahead = history \o (<<handling>> \o Ahead)
      BY <1>p, <3>6, ConcatAssociative
    <3> QED
      BY <3>5, <3>6, <3>7, <3>8
  <2> QED
    BY <2>5, <2>6
<1> QED
  BY <1>3, <1>4, <1>5, <1>6, <1>7, <1>8, <1>9

(* The broadcasts of the application join what is posted; what the reader  *)
(* has comes after them.                                                   *)
LEMMA LineInserts ==
  ASSUME PlaceInv, PlaceInv', script' = script, NEW x \in Messages,
         posted' = Append(posted, x),
         Back' = Back, InHand' = InHand, Arrived' = Arrived
  PROVE  \E u \in Seq(Messages) :
           /\ Line = u \o Arrived /\ Line' = u \o (<<x>> \o Arrived)
           /\ \A m : Has(Line, m) <=> Has(u, m) \/ Has(Arrived, m)
<1>1. /\ posted \in Seq(Messages)
      /\ Arrived \in Seq(Messages)
      /\ InHand \in Seq(Messages)
      /\ Back \in Seq(Messages) /\ Ahead = posted \o Arrived
  BY Parts DEF PartsAre
<1>2. Ahead' = posted' \o Arrived
  BY PartsNext DEF PartsAre
<1> DEFINE u == Back \o (InHand \o posted)
           v == <<x>> \o Arrived
<1>3. /\ posted' = posted \o <<x>> /\ <<x>> \in Seq(Messages)
  BY <1>1, AppendIsConcat
<1>4. v \in Seq(Messages) /\ InHand \o posted \in Seq(Messages)
  BY <1>1, <1>3, Concat
<1>5. u \in Seq(Messages)
  BY <1>1, <1>4, Concat
<1>6. Ahead' = posted \o v
  BY <1>1, <1>2, <1>3, ConcatAssociative
<1> HIDE DEF v
<1>t. /\ posted \in Seq(Messages)
      /\ Arrived \in Seq(Messages)
      /\ InHand \in Seq(Messages)
      /\ Back \in Seq(Messages) /\ v \in Seq(Messages)
  BY <1>1, <1>4
<1>7. Back \o (InHand \o (posted \o Arrived)) = u \o Arrived
  <2>1. (InHand \o posted) \o Arrived = InHand \o (posted \o Arrived)
    <3>1. /\ InHand \in Seq(Messages)
          /\ posted \in Seq(Messages)
          /\ Arrived \in Seq(Messages)
      BY <1>t
    <3> QED
      BY <3>1, ConcatAssociative
  <2>2. Back \o ((InHand \o posted) \o Arrived) = (Back \o (InHand \o posted)) \o Arrived
    <3> DEFINE w == InHand \o posted
    <3>1. Back \in Seq(Messages) /\ w \in Seq(Messages) /\ Arrived \in Seq(Messages)
      BY <1>t, <1>4
    <3> HIDE DEF w
    <3>2. Back \o (w \o Arrived) = (Back \o w) \o Arrived
      BY <3>1, ConcatAssociative
    <3> QED
      BY <3>2 DEF w
  <2> QED
    BY <2>1, <2>2
<1>8. Back \o (InHand \o (posted \o v)) = u \o v
  <2>1. (InHand \o posted) \o v = InHand \o (posted \o v)
    <3>1. InHand \in Seq(Messages) /\ posted \in Seq(Messages) /\ v \in Seq(Messages)
      BY <1>t
    <3> QED
      BY <3>1, ConcatAssociative
  <2>2. Back \o ((InHand \o posted) \o v) = (Back \o (InHand \o posted)) \o v
    <3> DEFINE w == InHand \o posted
    <3>1. Back \in Seq(Messages) /\ w \in Seq(Messages) /\ v \in Seq(Messages)
      BY <1>t, <1>4
    <3> HIDE DEF w
    <3>2. Back \o (w \o v) = (Back \o w) \o v
      BY <3>1, ConcatAssociative
    <3> QED
      BY <3>2 DEF w
  <2> QED
    BY <2>1, <2>2
<1>9. Line = u \o Arrived
  BY <1>1, <1>7 DEF Line
<1>10. Line' = u \o v
  BY <1>6, <1>8 DEF Line
<1> HIDE DEF u
<1>11. \A m : Has(u \o Arrived, m) <=> Has(u, m) \/ Has(Arrived, m)
  BY <1>1, <1>5, HasConcat
<1> QED
  BY <1>5, <1>9, <1>10, <1>11 DEF v

(* The second string of a command ends the line.                           *)
LEMMA LineEnds ==
  ASSUME PlaceInv, PlaceInv', script' = script, AppReaderReads
  PROVE  \/ Line' = Line /\ Arrived' = Arrived
         \/ Arrived' # <<>> /\ Line' = Line \o Arrived' /\ Ahead' = Ahead \o Arrived' /\ appRead'.at = "post"
<1> USE DEF testVars, dispatchVars, uiVars
<1>1. /\ posted \in Seq(Messages)
      /\ Arrived \in Seq(Messages)
      /\ InHand \in Seq(Messages)
      /\ Back \in Seq(Messages) /\ Ahead = posted \o Arrived /\ Ahead \in Seq(Messages)
      /\ InHand \o Ahead \in Seq(Messages)
  BY Parts DEF PartsAre
<1>2. Ahead' = posted' \o Arrived' /\ Arrived' \in Seq(Messages)
  BY PartsNext, ScriptStays DEF PartsAre
<1>3. /\ UNCHANGED <<history, testRead, handling, stage, up, posted>>
      /\ appRead.at \in {"call", "pending"}
  BY DEF AppReaderReads, MayRead
<1>4. Back' = Back /\ InHand' = InHand /\ Arrived = <<>>
  BY <1>3 DEF Back, InHand, Unsent, Arrived, Got
<1>5. Ahead' = Ahead \o Arrived'
  BY <1>1, <1>2, <1>3, <1>4, ConcatEmptySeq
<1>6. Line' = Line \o Arrived'
  <2> DEFINE a == Arrived'
  <2>1. Line' = Back \o (InHand \o (Ahead \o a))
    BY <1>4, <1>5 DEF Line
  <2>2. a \in Seq(Messages)
    BY <1>2
  <2> HIDE DEF a
  <2>3. Back \o (InHand \o (Ahead \o a)) = (Back \o (InHand \o Ahead)) \o a
    <3>1. Back \in Seq(Messages) /\ InHand \in Seq(Messages) /\ Ahead \in Seq(Messages)
      BY <1>1
    <3>2. InHand \o Ahead \in Seq(Messages)
      BY <1>1
    <3>3. (InHand \o Ahead) \o a = InHand \o (Ahead \o a)
      BY <2>2, <3>1, ConcatAssociative
    <3>4. Back \o ((InHand \o Ahead) \o a) = (Back \o (InHand \o Ahead)) \o a
      BY <2>2, <3>1, <3>2, ConcatAssociative
    <3> QED
      BY <3>3, <3>4
  <2> QED
    BY <2>1, <2>3 DEF Line, a
<1>7. CASE Arrived' = <<>>
  <2>1. Line \in Seq(Messages)
    BY Parts DEF PartsAre
  <2> QED
    BY <1>4, <1>6, <1>7, <2>1, ConcatEmptySeq
<1>8. CASE Arrived' # <<>>
  <2>1. appRead'.at = "post"
    BY <1>8 DEF Arrived, Got
  <2> QED
    BY <1>5, <1>6, <1>8, <2>1
<1> QED
  BY <1>7, <1>8

(* A broadcast comes into the history; a full one loses the first of it.   *)
LEMMA LineLoses ==
  ASSUME PlaceInv, PlaceInv', NoErrorInv, Connected, script' = script, TestReaderAppends
  PROVE  \/ Line' = Line
         \/ /\ Len(history) >= MaxHistory /\ Returned # <<>>
            /\ \E s \in Seq(Messages) : Line = s \o Line'
<1> USE DEF testVars, dispatchVars, uiVars
<1> DEFINE x == testRead.got[1].msg
<1>1. /\ history \in Seq(Messages) /\ Returned \in Seq(Messages)
      /\ Back = history \o Returned
      /\ InHand \o Ahead \in Seq(Messages)
      /\ Back \in Seq(Messages)
  BY Parts DEF PartsAre
<1>2. /\ Back' = history' \o Returned'
      /\ history' \in Seq(Messages)
      /\ Back' \in Seq(Messages)
      /\ Line' \in Seq(Messages)
  BY PartsNext, ScriptStays DEF PartsAre
<1>3. /\ UNCHANGED <<handling, stage, up, posted, appRead>>
      /\ testRead.at = "append"
      /\ history' = Append(IF Len(history) >= MaxHistory THEN Tail(history) ELSE history, x)
  BY DEF TestReaderAppends
<1>4. Returned = <<x>> /\ Returned' = <<>>
  <2>1. Len(testRead.got) = 3
    BY <1>3 DEF NoErrorInv
  <2>2. testRead'.at = "call"
    BY <2>1 DEF TestReaderAppends, NewMessage, Thread
  <2> QED
    BY <1>3, <2>2 DEF Returned, Got
<1>5. x \in Messages
  <2>1. Has(Returned, x)
    BY <1>4, HasFew
  <2> QED
    BY <1>1, <2>1, HasOnly
<1>6. Back' = history'
  BY <1>2, <1>4, ConcatEmptySeq
<1>7. InHand' = InHand /\ Ahead' = Ahead
  BY <1>3 DEF InHand, Unsent, Ahead, Got
<1> HIDE DEF x
<1>8. CASE ~(Len(history) >= MaxHistory)
  <2>1. history' = Append(history, x)
    BY <1>3, <1>8
  <2>2. history' = Back
    BY <1>1, <1>4, <1>5, <2>1, AppendIsConcat
  <2> QED
    BY <1>6, <1>7, <2>2 DEF Line
<1>9. CASE Len(history) >= MaxHistory
  <2>1. history # <<>>
    <3>1. Len(<<>>) = 0 /\ MaxHistory \in Nat \ {0}
      BY TesterAssumption
    <3> QED
      BY <1>9, <3>1
  <2> DEFINE h == Head(history)
             t == Tail(history)
             X == InHand \o Ahead
  <2>2. history = <<h>> \o t /\ h \in Messages /\ t \in Seq(Messages)
    BY <1>1, <2>1, HeadFirst
  <2>3. history' = Append(t, x)
    BY <1>3, <1>9
  <2> HIDE DEF h, t
  <2>4. history' = t \o <<x>> /\ <<x>> \in Seq(Messages) /\ <<h>> \in Seq(Messages)
    BY <1>5, <2>2, <2>3, AppendIsConcat
  <2>5. (<<h>> \o t) \o <<x>> = <<h>> \o (t \o <<x>>)
    BY <2>2, <2>4, ConcatAssociative
  <2>6. Back = <<h>> \o Back'
    BY <1>1, <1>4, <1>6, <2>2, <2>4, <2>5
  <2>7. (<<h>> \o Back') \o X = <<h>> \o (Back' \o X)
    <3> DEFINE b == Back'
    <3>1. b \in Seq(Messages) /\ X \in Seq(Messages)
      BY <1>1, <1>2
    <3> HIDE DEF b, X
    <3>2. (<<h>> \o b) \o X = <<h>> \o (b \o X)
      BY <2>4, <3>1, ConcatAssociative
    <3> QED
      BY <3>2 DEF b
  <2>8. Line = <<h>> \o Line'
    BY <1>7, <2>6, <2>7 DEF Line
  <2>9. Returned # <<>>
    BY <1>4
  <2> QED
    BY <1>9, <2>4, <2>8, <2>9
<1> QED
  BY <1>8, <1>9

(* A wait takes the first broadcast of its command with all before it.     *)
LEMMA LineTakes ==
  ASSUME PlaceInv, PlaceInv', script' = script, TestTakes
  PROVE  LET c == Current.msg.cmd
         IN  \/ /\ UNCHANGED <<step, answers>>
                /\ \A m : Has(history, m) => m.cmd # c
                /\ Line = history \o Line'
             \/ \E s \in Seq(Messages), a \in Messages :
                  /\ step' = step + 1 /\ answers' = Answered(a) /\ a.cmd = c
                  /\ \A m : Has(s, m) => m.cmd # c
                  /\ Line = s \o (<<a>> \o Line')
<1> USE DEF testVars, dispatchVars, uiVars
<1> DEFINE c == Current.msg.cmd
           at == FirstOf(c)
           R == Returned \o (InHand \o Ahead)
<1>1. /\ history \in Seq(Messages)
      /\ Returned \in Seq(Messages)
      /\ InHand \o Ahead \in Seq(Messages)
      /\ Back = history \o Returned
  BY Parts DEF PartsAre
<1>2. /\ history' \in Seq(Messages)
      /\ Back' = history' \o Returned'
      /\ Line' \in Seq(Messages)
  BY PartsNext, ScriptStays DEF PartsAre
<1>3. Returned' = Returned /\ InHand' = InHand /\ Ahead' = Ahead
  BY DEF TestTakes, Returned, InHand, Unsent, Ahead, Got
<1>4. R \in Seq(Messages)
  BY <1>1, Concat
<1>5. Line = history \o R
  BY <1>1, ConcatAssociative DEF Line
<1>6. Line' = history' \o R
  <2> DEFINE h == history'
  <2>1. h \in Seq(Messages) /\ Line' = (h \o Returned) \o (InHand \o Ahead)
    BY <1>2, <1>3 DEF Line
  <2> HIDE DEF h
  <2> DEFINE X == InHand \o Ahead
  <2>2. X \in Seq(Messages)
    BY <1>1
  <2> HIDE DEF X
  <2>3. (h \o Returned) \o X = h \o (Returned \o X)
    BY <1>1, <2>1, <2>2, ConcatAssociative
  <2> QED
    BY <2>1, <2>3 DEF h, X
<1>7. /\ at \in 0..Len(history) /\ Len(history) \in Nat
      /\ at # 0 => history[at].cmd = c
      /\ \A i \in 1..Len(history) : history[i].cmd = c => at # 0 /\ at <= i
  BY <1>1, FirstIs
<1>8. /\ history' = Remaining(at)
      /\ IF at = 0 THEN UNCHANGED <<answers, step>>
         ELSE answers' = Answered(history[at]) /\ step' = step + 1
  BY DEF TestTakes
<1> HIDE DEF at, R, c
<1>9. CASE at = 0
  <2>1. history' = <<>> /\ UNCHANGED <<answers, step>>
    BY <1>8, <1>9 DEF Remaining
  <2>2. Line' = R
    BY <1>4, <1>6, <2>1, ConcatEmptySeq
  <2>3. \A m : Has(history, m) => m.cmd # c
    BY <1>7, <1>9 DEF Has
  <2> QED
    BY <1>5, <2>1, <2>2, <2>3 DEF c
<1>10. CASE at # 0
  <2> DEFINE s == SubSeq(history, 1, at - 1)
             a == history[at]
             t == SubSeq(history, at + 1, Len(history))
  <2>1. history' = t /\ answers' = Answered(a) /\ step' = step + 1
    BY <1>8, <1>10 DEF Remaining
  <2>2. /\ at \in 1..Len(history)
        /\ at - 1 \in 0..Len(history)
        /\ Len(history) \in at..Len(history)
        /\ at - 1 + 1 = at /\ Len(history) \in (at - 1)..Len(history)
        /\ 1 \in 1..(Len(history) + 1) /\ at - 1 \in (1 - 1)..Len(history)
    BY <1>7, <1>10
  <2>3. SubSeq(history, at, Len(history)) = <<a>> \o t
    BY <1>1, <2>2, SubSeqRecursiveFirst
  <2>4. SubSeq(history, 1, at - 1) \o SubSeq(history, at - 1 + 1, Len(history)) = SubSeq(history, 1, Len(history))
    BY <1>1, <2>2, ConcatAdjacentSubSeq
  <2>5. history = s \o (<<a>> \o t)
    BY <1>1, <2>2, <2>3, <2>4, SubSeqFull
  <2>6. a \in Messages /\ a.cmd = c /\ <<a>> \in Seq(Messages)
    <3>1. a \in Messages
      BY <1>1, <2>2, ElementOfSeq
    <3> QED
      BY <1>7, <1>10, <3>1
  <2>7. /\ s \in Seq(Messages) /\ Len(s) = at - 1
        /\ \A i \in 1..(at - 1) : s[i] = history[i]
    <3>1. \A i \in 1..(at - 1) : history[i] \in Messages /\ 1 + i - 1 = i
      BY <1>1, <1>7, ElementOfSeq
    <3>2. /\ SubSeq(history, 1, at - 1) \in Seq(Messages)
          /\ Len(SubSeq(history, 1, at - 1)) = IF 1 <= at - 1 THEN at - 1 - 1 + 1 ELSE 0
          /\ \A i \in 1..(at - 1 - 1 + 1) : SubSeq(history, 1, at - 1)[i] = history[1 + i - 1]
      BY <1>7, <3>1, SubSeqProperties
    <3> QED
      BY <1>7, <2>2, <3>1, <3>2
  <2>8. \A m : Has(s, m) => m.cmd # c
    <3>1. \A i \in 1..(at - 1) : i \in 1..Len(history) /\ ~(at <= i)
      BY <1>7
    <3> HIDE DEF s
    <3> QED
      BY <1>7, <2>7, <3>1 DEF Has
  <2> HIDE DEF s, a
  <2>9. t \in Seq(Messages) /\ Line' = t \o R
    BY <1>2, <1>6, <2>1
  <2> HIDE DEF t
  <2>10. <<a>> \o t \in Seq(Messages)
    BY <2>6, <2>9, Concat
  <2>11. (s \o (<<a>> \o t)) \o R = s \o ((<<a>> \o t) \o R)
    BY <1>4, <2>7, <2>10, ConcatAssociative
  <2>12. (<<a>> \o t) \o R = <<a>> \o (t \o R)
    BY <1>4, <2>6, <2>9, ConcatAssociative
  <2>13. Line = s \o (<<a>> \o Line')
    BY <1>5, <2>5, <2>9, <2>11, <2>12
  <2> QED
    BY <2>1, <2>6, <2>7, <2>8, <2>13 DEF c
<1> QED
  BY <1>9, <1>10

-----------------------------------------------------------------------------
(* A script that waits once for each of its posts.                         *)
LEMMA OnePost ==
  ASSUME script \in Scripts, Paired
  PROVE  /\ \A p, q \in Step("post") : Script[p].msg = Script[q].msg => p = q
         /\ \A p, q \in Step("post"), v, w \in Step("wait") :
              Awaits(v, p) /\ Awaits(w, q) => (p < q <=> v < w)
         /\ \A p \in Step("post") : \E w \in Step("wait") : Awaits(w, p)
         /\ \A w \in Step("wait") : \E p \in Step("post") : Awaits(w, p)
<1>1. /\ Step("post") \subseteq 1..Len(Script)
      /\ Step("wait") \subseteq 1..Len(Script)
      /\ Len(Script) \in Nat
  BY ScriptIs
<1>2. ASSUME NEW p \in Step("post"), NEW q \in Step("post"), p < q,
             Script[p].msg = Script[q].msg
      PROVE  FALSE
  <2>1. PICK w \in Step("wait") : Awaits(w, q)
    BY DEF Paired
  <2>2. p \in Nat /\ q \in Nat /\ w \in Nat
    BY <1>1
  <2>3. Awaits(w, p)
    BY <1>2, <2>1, <2>2 DEF Awaits
  <2>4. p < q <=> w < w
    BY <2>1, <2>3 DEF Paired
  <2> QED
    BY <1>2, <2>2, <2>4
<1>3. \A p, q \in Step("post") : p = q \/ p < q \/ q < p
  BY <1>1
<1>4. \A p, q \in Step("post") : Script[p].msg = Script[q].msg => p = q
  BY <1>2, <1>3
<1> QED
  BY <1>4 DEF Paired

LEMMA PostIs ==
  ASSUME script \in Scripts
  PROVE  \A p \in Step("post") :
           /\ p \in Nat /\ Script[p].msg \in Messages /\ Script[p].msg.cmd \in Commands
           /\ Script[p].msg.cmd # "noise" /\ Script[p].msg.cmd # "shutdown"
           /\ p \notin Step("wait") /\ p \in 1..Len(Script)
BY ScriptIs, MessagesAre

LEMMA WaitIs ==
  ASSUME script \in Scripts
  PROVE  \A w \in Step("wait") : w \in Nat /\ w \notin Step("post") /\ w \in 1..Len(Script)
BY ScriptIs

LEMMA PostOf ==
  ASSUME script \in Scripts, Paired, NEW m \in Messages, m.cmd \in Commands
  PROVE  \E p \in Step("post") : Script[p].msg = m
<1>1. PICK i \in 1..Len(Script) : Script[i].msg = m
  BY MessagesAre
<1>2. i \in Step("post") \/ i \in Step("wait")
  BY ScriptIs DEF Step
<1>3. \A w \in Step("wait") : \E p \in Step("post") : Script[p].msg = Script[w].msg
  BY DEF Paired, Awaits
<1> QED
  BY <1>1, <1>2, <1>3

LEMMA NextInOrder ==
  ASSUME script' = script
  PROVE  InOrder(Line)' <=> InOrder(Line')
BY ScriptStays DEF InOrder

---------------------------------------------------------------------------
(* What is known of a message stays known.                                 *)
Keeps ==
  /\ script' = script /\ step' = step /\ (TestRuns' => TestRuns)
  /\ noise' >= noise /\ (frame = "destroyed" => frame' = "destroyed")
  /\ TestRuns' => \A p : Sent(p) => Sent(p)'

LEMMA KnownKeeps ==
  ASSUME PlaceInv, Keeps, PlaceInv', NEW m \in Messages, Known(m)
  PROVE  Known(m)'
<1>1. script' = script /\ script \in Scripts /\ noise \in 0..MaxNoise /\ noise' \in 0..MaxNoise
      /\ step \in 1..(Len(Script) + 1) /\ MaxNoise \in Nat
  BY TesterAssumption DEF Keeps, PlaceInv, TesterTypeOK
<1>2. /\ Script' = Script
      /\ Step("post")' = Step("post")
      /\ Step("wait")' = Step("wait")
      /\ \A w, p : Awaits(w, p)' <=> Awaits(w, p)
  BY <1>1, ScriptStays
<1>3. m.cmd = "noise" => m.n \in 1..MaxNoise
  BY <1>1, MessagesAre
<1>4. m.cmd = "noise" => m.n <= noise'
  BY <1>1, <1>3 DEF Keeps, Known
<1>5. m.cmd = "shutdown" => frame' = "destroyed"
  BY DEF Keeps, Known
<1>6. \A p \in Step("post") : Script[p].msg = m =>
         /\ p <= step' /\ (TestRuns' => Sent(p)')
         /\ \A w \in Step("wait") : Awaits(w, p) => step' <= w
  BY DEF Keeps, Known
<1> QED
  BY <1>2, <1>4, <1>5, <1>6 DEF Known

LEMMA SentSame ==
  ASSUME UNCHANGED <<step, testMain, down>>
  PROVE  /\ \A p : Sent(p)' <=> Sent(p)
         /\ TestRuns' = TestRuns
BY DEF Sent, SentAt, TestRuns

OneGoesOn ==
  \/ TestReader \/ AppReaderWaits \/ AppReaderPosts \/ AppReaderEnds
  \/ AppDispatch \/ AppFails \/ Noise

LEMMA StepsKeep ==
  ASSUME PlaceInv, PlaceInv', TestNext, Connected',
         ~TestTakes, TestFlushes => testMain = "flush1"
  PROVE  /\ Keeps
         /\ ~AppReaderReads => \A p : Sent(p)' => Sent(p)
<1> USE DEF testVars, dispatchVars, uiVars
<1>1. script' = script /\ noise \in 0..MaxNoise /\ MaxNoise \in Nat
  BY TesterAssumption DEF PlaceInv, TesterTypeOK, TestNext
<1>2. CASE OneGoesOn
  <2>1. UNCHANGED <<step, testMain, down>>
    BY <1>2 DEF OneGoesOn, TestReader, TestReaderWaits, TestReaderReads, TestReaderEnds,
       TestReaderAppends, AppReaderWaits, AppReaderPosts, AppReaderEnds, AppDispatch,
       DispatchPosted, Execute, AppWrites, AppFlushes, Others, GetKey, GetDialogClose,
       GetFrameClose, LoopEnds, Fini, AppFails, Noise
  <2>2. noise' >= noise
    <3>1. noise' = noise \/ noise' = noise + 1
      BY <1>2 DEF OneGoesOn, TestReader, TestReaderWaits, TestReaderReads,
         TestReaderEnds, TestReaderAppends, AppReaderWaits, AppReaderPosts,
         AppReaderEnds, AppDispatch, DispatchPosted, Execute, AppWrites, AppFlushes,
         Others, GetKey, GetDialogClose, GetFrameClose, LoopEnds, Fini, AppFails, Noise
    <3> QED
      BY <1>1, <3>1
  <2>3. frame = "destroyed" => frame' = "destroyed"
    BY <1>2 DEF OneGoesOn, TestReader, TestReaderWaits, TestReaderReads, TestReaderEnds,
       TestReaderAppends, AppReaderWaits, AppReaderPosts, AppReaderEnds, AppDispatch,
       DispatchPosted, Execute, AppWrites, AppFlushes, Others, GetKey, GetDialogClose,
       GetFrameClose, LoopEnds, Fini, AppFails, Noise
  <2> QED
    BY <1>1, <2>1, <2>2, <2>3, SentSame DEF Keeps
<1>3. CASE TestWrites \/ TestFlushes \/ TestWakes
  <2>1. UNCHANGED <<step, noise, frame>> /\ TestRuns
    BY <1>3 DEF TestWrites, TestFlushes, TestWakes, TestRuns
  <2>2. ~SentAt
    BY <1>3 DEF TestWrites, TestFlushes, TestWakes, SentAt
  <2>3. ~SentAt'
    <3>1. CASE TestWrites
      <4>1. down' # <<>>
        BY <3>1 DEF TestWrites
      <4> QED
        BY <4>1 DEF SentAt
    <3>2. CASE TestFlushes \/ TestWakes
      BY <3>2 DEF TestFlushes, TestWakes, SentAt
    <3> QED
      BY <1>3, <3>1, <3>2
  <2> QED
    BY <1>1, <2>1, <2>2, <2>3 DEF Keeps, Sent
<1>4. CASE TestFails
  <2>1. UNCHANGED <<step, noise, frame>> /\ ~TestRuns' /\ ~SentAt'
    BY <1>4 DEF TestFails, TestRuns, SentAt
  <2> QED
    BY <1>1, <2>1 DEF Keeps, Sent
<1>5. CASE Minute
  <2>1. UNCHANGED <<step, noise, frame, down>>
    BY <1>5 DEF Minute
  <2>2. CASE testMain' = testMain
    BY <1>1, <2>1, <2>2, SentSame DEF Keeps
  <2>3. CASE testMain' = "failed"
    <3>1. ~TestRuns' /\ ~SentAt'
      BY <2>3 DEF TestRuns, SentAt
    <3> QED
      BY <1>1, <2>1, <3>1 DEF Keeps, Sent
  <2> QED
    BY <1>5, <2>2, <2>3 DEF Minute
<1>6. CASE AppReaderReads
  <2>1. UNCHANGED <<step, noise, frame, testMain>> /\ down' = <<>>
    BY <1>6 DEF AppReaderReads
  <2>2. SentAt => SentAt'
    BY <2>1 DEF SentAt
  <2> QED
    BY <1>1, <1>6, <2>1, <2>2 DEF Keeps, Sent, TestRuns
<1>7. CASE TestDisconnects \/ TestJoins
  <2>1. FALSE
    BY <1>7 DEF TestDisconnects, TestJoins, Connected, PlaceInv
  <2> QED
    BY <2>1
<1> QED
  BY <1>2, <1>3, <1>4, <1>5, <1>6, <1>7 DEF TestNext, TestMain, AppReader, OneGoesOn

(* The last string of a command has been read.                             *)
LEMMA WhatArrives ==
  ASSUME PlaceInv, NoErrorInv, DownInv, DownInv', Connected, Connected',
         script' = script, AppReaderReads
  PROVE  /\ appRead'.at = "post" \/ testMain = "flush2" =>
              /\ TestRuns /\ testMain = "flush2" /\ down # <<>> /\ down' = <<>>
              /\ appRead'.at = "post"
              /\ Arrived' = <<Current.msg>>
              /\ step \in Step("post")
         /\ Arrived = <<>>
<1> USE DEF testVars, dispatchVars, uiVars
<1>1. /\ UNCHANGED <<testMain, step>>
      /\ down # <<>>
      /\ down' = <<>>
      /\ AppRuns
      /\ Current' = Current
      /\ appRead.at \in {"call", "pending"}
      /\ appRead' = Thread(IF Len(appRead.got \o down) = 2 THEN "post" ELSE "call", appRead.got \o down)
  BY DEF AppReaderReads, MayRead, Current, Script
<1>2. TestRuns /\ TestRuns'
  BY <1>1 DEF NoErrorInv, TestRuns
<1>3. appRead'.got # <<>>
  <2>1. appRead.got \in Seq(Strings) /\ down \in Seq(Strings) /\ Len(down) <= 1
    BY DEF PlaceInv, TesterTypeOK, ReaderOK, Strings
  <2>2. appRead.got \o down # <<>>
    BY <1>1, <2>1, GotMore
  <2> QED
    BY <1>1, <2>2 DEF Thread
<1>4. ~AtRest(appRead')
  BY <1>3, IdleIs
<1>5. testMain \in {"flush1", "flush2"}
  BY <1>1, <1>2 DEF DownInv, PlaceInv, TesterTypeOK, TestRuns
<1>6. CASE testMain = "flush2"
  <2>1. appRead'.at = "post" /\ appRead'.got[1].msg = Current.msg
    <3>1. ~Partly(appRead, Current.msg, 1)' \/ down' = <<>>
      BY <1>1
    <3>2. ~AtRest(appRead)'
      BY <1>4 DEF AtRest
    <3> QED
      BY <1>1, <1>2, <1>6, <3>2 DEF DownInv, Str
  <2>2. Arrived' = <<Current.msg>>
    BY <2>1 DEF Arrived, Got
  <2>3. step \in Step("post")
    BY <1>6 DEF PlaceInv, Posting
  <2>4. Arrived = <<>>
    BY <1>1 DEF Arrived, Got
  <2> QED
    BY <1>1, <1>2, <1>6, <2>1, <2>2, <2>3, <2>4
<1>7. CASE testMain = "flush1"
  <2>1. Partly(appRead, Current.msg, 1)'
    BY <1>1, <1>2, <1>7 DEF DownInv, Str
  <2>2. appRead'.at # "post"
    BY <2>1 DEF Partly
  <2>4. Arrived = <<>>
    BY <1>1 DEF Arrived, Got
  <2> QED
    BY <1>7, <2>2, <2>4
<1> QED
  BY <1>5, <1>6, <1>7

---------------------------------------------------------------------------
(* Every step leaves the line in its order.                                *)
InLine == InOrder(Line) /\ \A m : Has(Line, m) => Known(m)

LEMMA SameLine ==
  ASSUME PlaceInv, PlaceInv', Keeps, InLine, Line' = Line
  PROVE  InLine'
<1>1. script' = script
  BY DEF Keeps
<1>2. InOrder(Line)'
  BY <1>1, NextInOrder DEF InLine
<1>3. \A m : Has(Line, m) => m \in Messages
  <2>1. Line \in Seq(Messages)
    BY Parts DEF PartsAre
  <2> QED
    BY <2>1, HasOnly
<1>4. ASSUME NEW m, Has(Line', m) PROVE Known(m)'
  <2>1. Has(Line, m)
    BY <1>4
  <2>2. m \in Messages /\ Known(m)
    BY <1>3, <2>1 DEF InLine
  <2> QED
    BY <2>2, KnownKeeps
<1> QED
  BY <1>2, <1>4 DEF InLine

LEMMA ShorterLine ==
  ASSUME PlaceInv, PlaceInv', script' = script, InLine, NEW s \in Seq(Messages),
         Line = s \o Line'
  PROVE  /\ InOrder(Line') /\ \A m : Has(Line', m) => Has(Line, m) /\ m \in Messages
         /\ \A m : Has(Line, m) <=> Has(s, m) \/ Has(Line', m)
         /\ \A m, n : Has(s, m) /\ Has(Line', n) => Older(m, n)
<1> DEFINE l == Line'
<1>1. l \in Seq(Messages)
  BY PartsNext, ScriptStays DEF PartsAre
<1> HIDE DEF l
<1>2. Line = s \o l
  BY DEF l
<1>3. InOrder(s \o l)
  BY <1>2 DEF InLine
<1>4. InOrder(l) /\ \A m, n : Has(s, m) /\ Has(l, n) => Older(m, n)
  BY <1>1, <1>3, OrderConcat
<1>5. \A m : Has(s \o l, m) <=> Has(s, m) \/ Has(l, m)
  BY <1>1, HasConcat
<1>6. \A m : Has(l, m) => m \in Messages
  BY <1>1, HasOnly
<1> QED
  BY <1>2, <1>4, <1>5, <1>6 DEF l

LEMMA LongerLine ==
  ASSUME PlaceInv, PlaceInv', Keeps, InLine, NEW x \in Messages,
         posted' = Append(posted, x),
         Back' = Back, InHand' = InHand, Arrived' = Arrived,
         \A m : Has(Line, m) => Older(m, x),
         \A m : m.cmd \in Commands => Older(x, m),
         Known(x)'
  PROVE  InLine'
<1>1. PICK u \in Seq(Messages) :
           /\ Line = u \o Arrived /\ Line' = u \o (<<x>> \o Arrived)
           /\ \A m : Has(Line, m) <=> Has(u, m) \/ Has(Arrived, m)
  BY LineInserts DEF Keeps
<1>2. Arrived \in Seq(Messages) /\ \A m : Has(Arrived, m) => m.cmd \in Commands
  BY Parts DEF PartsAre
<1>3. <<x>> \in Seq(Messages) /\ <<x>> \o Arrived \in Seq(Messages)
  <2>1. <<x>> \in Seq(Messages)
    OBVIOUS
  <2> QED
    BY <1>2, <2>1, Concat
<1>4. InOrder(u) /\ InOrder(Arrived) /\ \A m, n : Has(u, m) /\ Has(Arrived, n) => Older(m, n)
  <2>1. InOrder(u \o Arrived)
    BY <1>1 DEF InLine
  <2> QED
    BY <1>2, <2>1, OrderConcat
<1>5. \A m : Has(<<x>> \o Arrived, m) <=> x = m \/ Has(Arrived, m)
  <2>1. \A m : Has(<<x>> \o Arrived, m) <=> Has(<<x>>, m) \/ Has(Arrived, m)
    BY <1>2, <1>3, HasConcat
  <2> QED
    BY <2>1, HasFew
<1>6. InOrder(<<x>> \o Arrived)
  <2>1. InOrder(<<x>>)
    BY OrderFew
  <2>2. \A m, n : Has(<<x>>, m) /\ Has(Arrived, n) => Older(m, n)
    BY <1>2, HasFew
  <2> QED
    BY <1>2, <1>3, <1>4, <2>1, <2>2, OrderConcat
<1> DEFINE v == <<x>> \o Arrived
<1>7. v \in Seq(Messages) /\ InOrder(v) /\ \A m : Has(v, m) <=> x = m \/ Has(Arrived, m)
  BY <1>3, <1>5, <1>6
<1>8. Line' = u \o v
  BY <1>1
<1> HIDE DEF v
<1>9. InOrder(u \o v)
  <2>1. \A m, n : Has(u, m) /\ Has(v, n) => Older(m, n)
    BY <1>1, <1>4, <1>7
  <2> QED
    BY <1>4, <1>7, <2>1, OrderConcat
<1>10. InOrder(Line)'
  BY <1>8, <1>9, NextInOrder DEF Keeps
<1>11. \A m : Has(Line', m) => Has(Line, m) \/ m = x
  <2>1. \A m : Has(u \o v, m) <=> Has(u, m) \/ Has(v, m)
    BY <1>7, HasConcat
  <2> QED
    BY <1>1, <1>7, <1>8, <2>1
<1>12. \A m : Has(Line, m) => m \in Messages /\ Known(m)
  <2>1. Line \in Seq(Messages)
    BY Parts DEF PartsAre
  <2> QED
    BY <2>1, HasOnly DEF InLine
<1>13. ASSUME NEW m, Has(Line', m) PROVE Known(m)'
  <2>1. CASE m = x
    BY <2>1
  <2>2. CASE Has(Line, m)
    <3>1. m \in Messages /\ Known(m)
      BY <1>12, <2>2
    <3> QED
      BY <3>1, KnownKeeps
  <2> QED
    BY <1>11, <1>13, <2>1, <2>2
<1> QED
  BY <1>10, <1>13 DEF InLine

(* The application posts a broadcast of its own.                           *)
LEMMA NoiseOrShutdown ==
  ASSUME PlaceInv, PlaceInv', TestNext, InLine, Keeps, Noise \/ GetFrameClose \/ Execute
  PROVE  Line' = Line \/ (InLine' /\ \A m : Has(Line, m) => Has(Line', m))
<1> USE DEF testVars, dispatchVars, uiVars
<1>1. /\ UNCHANGED <<history, testRead, handling, up, appRead>>
      /\ script' = script /\ script \in Scripts
      /\ noise \in 0..MaxNoise /\ noise' \in 0..MaxNoise /\ MaxNoise \in Nat
  BY TesterAssumption DEF Noise, GetFrameClose, Execute, Keeps, PlaceInv, TesterTypeOK
<1>2. Back' = Back /\ Arrived' = Arrived
  BY <1>1 DEF Back, Arrived, Got
<1>3. InHand' = InHand
  <2>1. CASE Noise \/ GetFrameClose
    BY <1>1, <2>1 DEF Noise, GetFrameClose, InHand, Unsent
  <2>2. CASE Execute
    BY <1>1, <2>2 DEF Execute, InHand, Unsent
  <2> QED
    BY <2>1, <2>2
<1>4. CASE UNCHANGED posted
  BY <1>1, <1>2, <1>3, <1>4 DEF Line, Ahead, Got
<1> DEFINE x == posted'[Len(posted')]
<1>5. ASSUME NEW y \in Messages, posted' = Append(posted, y),
             \A m : Has(Line, m) => Older(m, y),
             \A m : m.cmd \in Commands => Older(y, m),
             Known(y)'
      PROVE  InLine' /\ \A m : Has(Line, m) => Has(Line', m)
  <2>1. InLine'
    BY <1>2, <1>3, <1>5, LongerLine
  <2>2. /\ \A m : Has(Line, m) <=> \/ Has(history, m) \/ Has(Returned, m) \/ Has(InHand, m)
                                    \/ Has(posted, m) \/ Has(Arrived, m)
    BY WhoHas DEF LineHas
  <2>3. /\ \A m : Has(Line', m) <=> \/ Has(history', m) \/ Has(Returned', m) \/ Has(InHand', m)
                                     \/ Has(posted', m) \/ Has(Arrived', m)
    BY WhoHasNext DEF LineHas
  <2>4. posted' = posted \o <<y>> /\ posted \in Seq(Messages) /\ <<y>> \in Seq(Messages)
    <3>1. posted \in Seq(Messages)
      BY Parts DEF PartsAre
    <3>2. Append(posted, y) = posted \o <<y>>
      BY <3>1, AppendIsConcat
    <3> QED
      BY <1>5, <3>1, <3>2
  <2>5. \A m : Has(posted, m) => Has(posted', m)
    <3>1. \A m : Has(posted \o <<y>>, m) <=> Has(posted, m) \/ Has(<<y>>, m)
      BY <2>4, HasConcat
    <3> QED
      BY <2>4, <3>1
  <2>6. Returned' = Returned
    BY <1>1 DEF Returned, Got
  <2> QED
    BY <1>1, <1>2, <1>3, <2>1, <2>2, <2>3, <2>5, <2>6
<1>6. \A p \in Step("post") : Script[p].msg.cmd \in Commands /\ Script[p].msg.cmd \notin {"noise", "shutdown"}
  BY <1>1, PostIs
<1>7. \A m : Has(Line, m) => m \in Messages /\ Known(m)
  <2>1. Line \in Seq(Messages)
    BY Parts DEF PartsAre
  <2> QED
    BY <2>1, HasOnly DEF InLine
<1>m. /\ "noise" \notin Commands /\ "shutdown" \notin Commands
      /\ Msg("shutdown", 0) \in Messages /\ Msg("shutdown", 0).cmd = "shutdown"
      /\ \A i \in 1..MaxNoise : Msg("noise", i) \in Messages
      /\ \A i : Msg("noise", i).cmd = "noise" /\ Msg("noise", i).n = i
      /\ \A m \in Messages : m.cmd = "noise" => m.n \in 1..MaxNoise
  BY <1>1, MessagesAre
<1>p. Script' = Script /\ Step("post")' = Step("post")
  BY <1>1, ScriptStays
<1>8. CASE Noise
  <2>0. posted' = Append(posted, Msg("noise", noise')) /\ noise' = noise + 1
    BY <1>8 DEF Noise
  <2>1. PICK i \in 1..MaxNoise : i = noise'
    BY <1>1, <2>0
  <2> DEFINE y == Msg("noise", i)
  <2>2. /\ posted' = Append(posted, y) /\ noise' = noise + 1
        /\ y \in Messages /\ y.cmd = "noise" /\ y.n = i /\ i <= noise'
    BY <1>1, <1>m, <2>0, <2>1
  <2> HIDE DEF y
  <2>3. \A m : m.cmd = "noise" /\ Known(m) => m.n <= noise
    BY DEF Known
  <2>4. \A m : Has(Line, m) => Older(m, y)
    <3> SUFFICES ASSUME NEW m, Has(Line, m) PROVE Older(m, y)
      OBVIOUS
    <3>1. m.cmd = "noise" => m.n < y.n
      BY <1>1, <1>7, <1>m, <2>1, <2>2, <2>3
    <3> QED
      BY <1>6, <2>2, <3>1 DEF Older
  <2>5. \A m : m.cmd \in Commands => Older(y, m)
    BY <1>6, <1>m, <2>2 DEF Older
  <2>6. Known(y)'
    BY <1>6, <1>p, <2>2 DEF Known
  <2> QED
    BY <1>5, <2>2, <2>4, <2>5, <2>6
<1>9. CASE ~UNCHANGED posted /\ (GetFrameClose \/ Execute)
  <2> DEFINE y == Msg("shutdown", 0)
  <2>1. posted' = Append(posted, y) /\ frame # "destroyed" /\ frame' = "destroyed"
    BY <1>9 DEF GetFrameClose, Execute
  <2>2. y \in Messages /\ y.cmd = "shutdown"
    BY <1>m
  <2> HIDE DEF y
  <2>4. \A m : Has(Line, m) => Older(m, y)
    <3> SUFFICES ASSUME NEW m, Has(Line, m) PROVE Older(m, y)
      OBVIOUS
    <3>1. m.cmd # "shutdown"
      BY <1>7, <2>1 DEF Known
    <3> QED
      BY <1>6, <2>2, <3>1 DEF Older
  <2>5. \A m : m.cmd \in Commands => Older(y, m)
    BY <1>6, <1>m, <2>2 DEF Older
  <2>6. Known(y)'
    BY <1>6, <1>p, <2>1, <2>2 DEF Known
  <2> QED
    BY <1>5, <2>1, <2>2, <2>4, <2>5, <2>6
<1> QED
  BY <1>4, <1>8, <1>9

LEMMA TakenLine ==
  ASSUME PlaceInv, PlaceInv', Paired, InLine, TestTakes, script' = script
  PROVE  InLine'
<1> USE DEF testVars, dispatchVars, uiVars
<1>1. /\ script \in Scripts
      /\ step \in Nat
      /\ step \in Step("wait")
      /\ TestRuns
      /\ TestRuns'
      /\ UNCHANGED <<noise, frame, down>> /\ ~SentAt /\ ~SentAt'
  <2>1. /\ testMain = "take" /\ testMain' = "next" /\ UNCHANGED <<noise, frame, down>>
    BY DEF TestTakes
  <2>2. script \in Scripts /\ step \in Step("wait")
    BY <2>1 DEF PlaceInv, TesterTypeOK
  <2> QED
    BY <2>1, <2>2, WaitIs DEF TestRuns, SentAt
<1>2. Line' \in Seq(Messages)
  BY PartsNext, ScriptStays DEF PartsAre
<1>3. CASE UNCHANGED <<step, answers>> /\ Line = history \o Line'
  <2>1. Keeps
    <3>1. noise \in Nat
      BY TesterAssumption DEF PlaceInv, TesterTypeOK
    <3> QED
      BY <1>1, <1>3, <3>1 DEF Keeps, Sent
  <2>2. history \in Seq(Messages)
    BY Parts DEF PartsAre
  <2>3. InOrder(Line') /\ \A m : Has(Line', m) => Has(Line, m) /\ m \in Messages
    BY <1>3, <2>2, ShorterLine
  <2>4. InOrder(Line)'
    BY <2>3, NextInOrder
  <2>5. ASSUME NEW m, Has(Line', m) PROVE Known(m)'
    <3>1. m \in Messages /\ Known(m)
      BY <2>3, <2>5 DEF InLine
    <3> QED
      BY <2>1, <3>1, KnownKeeps
  <2> QED
    BY <2>4, <2>5 DEF InLine
<1>4. ASSUME NEW s \in Seq(Messages), NEW a \in Messages, step' = step + 1,
             a.cmd = Current.msg.cmd, Line = s \o (<<a>> \o Line')
      PROVE  InLine'
  <2> DEFINE l == Line'
             t == s \o <<a>>
  <2>1. l \in Seq(Messages) /\ <<a>> \in Seq(Messages)
    BY <1>2
  <2>2. t \in Seq(Messages)
    BY <2>1, Concat
  <2> HIDE DEF l
  <2>3. s \o (<<a>> \o l) = (s \o <<a>>) \o l
    BY <2>1, ConcatAssociative
  <2>4. Line = t \o Line'
    BY <1>4, <2>3 DEF l
  <2>5. Has(t, a)
    <3>1. Has(<<a>>, a)
      BY HasFew
    <3> QED
      BY <2>1, <3>1, HasConcat
  <2> HIDE DEF t
  <2>6. /\ InOrder(Line') /\ \A m : Has(Line', m) => Has(Line, m) /\ m \in Messages
        /\ Has(Line, a) /\ \A m : Has(Line', m) => Older(a, m)
    BY <2>2, <2>4, <2>5, ShorterLine
  <2>7. InOrder(Line)'
    BY <2>6, NextInOrder
  <2>8. a.cmd \in Commands
    BY <1>1, <1>4, ScriptIs, WaitIs DEF Current
  <2>9. PICK q \in Step("post") : Script[q].msg = a
    BY <1>1, <2>8, PostOf
  <2>10. PICK v \in Step("wait") : Awaits(v, q)
    BY <1>1, OnePost
  <2>11. step <= v
    BY <2>6, <2>9, <2>10 DEF InLine, Known
  <2>12. v \in Nat /\ q \in Nat
    BY <1>1, PostIs, WaitIs
  <2>13. ASSUME NEW m, Has(Line', m) PROVE Known(m)'
    <3>1. m \in Messages /\ Known(m) /\ Older(a, m)
      BY <2>6, <2>13 DEF InLine
    <3>2. ASSUME NEW p \in Step("post"), Script[p].msg = m
          PROVE  /\ p <= step' /\ Sent(p)'
                 /\ \A w \in Step("wait") : Awaits(w, p) => step' <= w
      <4>1. p \in Nat /\ p <= step /\ \A w \in Step("wait") : Awaits(w, p) => step <= w
        BY <1>1, <3>1, <3>2, PostIs DEF Known
      <4>2. p < step' /\ p <= step'
        BY <1>1, <1>4, <4>1
      <4>3. Sent(p)'
        BY <4>2 DEF Sent
      <4>4. ASSUME NEW w \in Step("wait"), Awaits(w, p) PROVE step' <= w
        <5>1. w \in Nat /\ step <= w
          BY <1>1, <4>1, <4>4, WaitIs
        <5>2. w # step
          <6>1. q < p
            BY <2>9, <3>1, <3>2 DEF Older
          <6>2. v < w
            BY <1>1, <2>10, <4>4, <6>1, OnePost
          <6> QED
            BY <1>1, <2>11, <2>12, <5>1, <6>2
        <5> QED
          BY <1>1, <1>4, <5>1, <5>2
      <4> QED
        BY <4>2, <4>3, <4>4
    <3>3. /\ Script' = Script
          /\ Step("post")' = Step("post")
          /\ Step("wait")' = Step("wait")
          /\ \A w, p : Awaits(w, p)' <=> Awaits(w, p)
      BY ScriptStays
    <3>4. /\ (m.cmd = "noise" => m.n <= noise')
          /\ (m.cmd = "shutdown" => frame' = "destroyed")
      BY <1>1, <3>1 DEF Known
    <3> QED
      BY <3>2, <3>3, <3>4 DEF Known
  <2> QED
    BY <2>7, <2>13 DEF InLine
<1> QED
  BY <1>3, <1>4, LineTakes

LEMMA ArrivedLine ==
  ASSUME PlaceInv, PlaceInv', NoErrorInv, DownInv, DownInv', Connected, Connected',
         Paired, InLine,
         Keeps, AppReaderReads
  PROVE  InLine'
<1>0. script' = script /\ script \in Scripts
  BY DEF Keeps, PlaceInv, TesterTypeOK
<1>1. CASE Line' = Line
  BY <1>1, SameLine
<1>2. CASE Line' # Line
  <2>1. Line' = Line \o Arrived' /\ appRead'.at = "post"
    BY <1>0, <1>2, LineEnds
  <2>2. /\ TestRuns /\ testMain = "flush2" /\ down # <<>> /\ down' = <<>>
        /\ Arrived' = <<Current.msg>> /\ step \in Step("post")
    BY <1>0, <2>1, WhatArrives
  <2> DEFINE c == Current.msg
  <2>3. /\ c \in Messages
        /\ c.cmd # "noise"
        /\ c.cmd # "shutdown"
        /\ Script[step].msg = c
        /\ step \in Nat
    BY <1>0, <2>2, PostIs DEF Current
  <2> HIDE DEF c
  <2>4. Line' = Line \o <<c>> /\ <<c>> \in Seq(Messages) /\ Line \in Seq(Messages)
    <3>1. Line \in Seq(Messages)
      BY Parts DEF PartsAre
    <3> QED
      BY <2>1, <2>2, <2>3, <3>1 DEF c
  <2>5. ASSUME NEW m, Has(Line, m) PROVE Older(m, c)
    <3>1. Known(m)
      BY <2>5 DEF InLine
    <3>2. ASSUME NEW p \in Step("post"), NEW q \in Step("post"), Script[p].msg = m,
                 Script[q].msg = c
          PROVE  p < q
      <4>1. q = step
        BY <1>0, <2>2, <2>3, <3>2, OnePost
      <4>2. Sent(p)
        BY <2>2, <3>1, <3>2 DEF Known
      <4> QED
        BY <2>2, <4>1, <4>2 DEF Sent, SentAt
    <3> QED
      BY <2>3, <3>2 DEF Older
  <2>6. InOrder(Line \o <<c>>)
    <3>1. InOrder(Line) /\ InOrder(<<c>>)
      BY OrderFew DEF InLine
    <3>2. \A m, n : Has(Line, m) /\ Has(<<c>>, n) => Older(m, n)
      BY <2>5, HasFew
    <3> QED
      BY <2>4, <3>1, <3>2, OrderConcat
  <2>7. InOrder(Line)'
    BY <1>0, <2>4, <2>6, NextInOrder
  <2>8. \A m : Has(Line', m) => Has(Line, m) \/ m = c
    <3>1. \A m : Has(Line \o <<c>>, m) <=> Has(Line, m) \/ Has(<<c>>, m)
      BY <2>4, HasConcat
    <3> QED
      BY <2>4, <3>1, HasFew
  <2>9. ASSUME NEW m, Has(Line', m) PROVE Known(m)'
    <3>1. CASE Has(Line, m)
      <4>1. m \in Messages /\ Known(m)
        BY <2>4, <3>1, HasOnly DEF InLine
      <4> QED
        BY <4>1, KnownKeeps
    <3>2. CASE m = c
      <4>1. /\ Script' = Script
            /\ Step("post")' = Step("post")
            /\ Step("wait")' = Step("wait")
            /\ \A w, p : Awaits(w, p)' <=> Awaits(w, p)
        BY <1>0, ScriptStays
      <4>2. step' = step /\ testMain' = testMain
        BY DEF AppReaderReads, testVars
      <4>3. SentAt'
        BY <2>2, <4>2 DEF SentAt
      <4>4. ASSUME NEW p \in Step("post"), Script[p].msg = m
            PROVE  /\ p <= step' /\ Sent(p)' /\ \A w \in Step("wait") : Awaits(w, p) => step' <= w
        <5>1. p = step
          BY <1>0, <2>2, <2>3, <3>2, <4>4, OnePost
        <5>2. ASSUME NEW w \in Step("wait"), Awaits(w, p) PROVE step <= w
          <6>1. w \in Nat /\ p < w
            BY <1>0, <5>2, WaitIs DEF Awaits
          <6> QED
            BY <2>3, <5>1, <6>1
        <5>3. p <= step' /\ p = step'
          BY <2>3, <4>2, <5>1
        <5>4. Sent(p)'
          BY <4>3, <5>3 DEF Sent
        <5>5. \A w \in Step("wait") : Awaits(w, p) => step' <= w
          BY <4>2, <5>2
        <5> QED
          BY <5>3, <5>4, <5>5
      <4> QED
        BY <2>3, <3>2, <4>1, <4>4 DEF Known
    <3> QED
      BY <2>8, <2>9, <3>1, <3>2
  <2> QED
    BY <2>7, <2>9 DEF InLine
<1> QED
  BY <1>1, <1>2

(* The test goes on to its next step when its command has been read.       *)
LEMMA FlushedLine ==
  ASSUME PlaceInv, PlaceInv', Paired, InLine, TestFlushes, testMain = "flush2",
         script' = script, Line' = Line
  PROVE  InLine'
<1> USE DEF testVars, dispatchVars, uiVars
<1>1. /\ script \in Scripts
      /\ step \in Nat
      /\ step \in Step("post")
      /\ step' = step + 1
      /\ SentAt
      /\ TestRuns /\ UNCHANGED <<noise, frame>>
  <2>1. script \in Scripts /\ step \in Step("post")
    BY DEF PlaceInv, TesterTypeOK, Posting
  <2> QED
    BY <2>1, PostIs DEF TestFlushes, Flushed, SentAt, TestRuns
<1>2. InOrder(Line)'
  BY NextInOrder DEF InLine
<1>3. /\ Script' = Script
      /\ Step("post")' = Step("post")
      /\ Step("wait")' = Step("wait")
      /\ \A w, p : Awaits(w, p)' <=> Awaits(w, p)
  BY ScriptStays
<1>4. ASSUME NEW m, Has(Line', m) PROVE Known(m)'
  <2>1. Known(m)
    BY <1>4 DEF InLine
  <2>2. ASSUME NEW p \in Step("post"), Script[p].msg = m
        PROVE  /\ p <= step' /\ Sent(p)' /\ \A w \in Step("wait") : Awaits(w, p) => step' <= w
    <3>1. p \in Nat /\ p <= step
      BY <1>1, <2>1, <2>2, PostIs DEF Known
    <3>2. p < step' /\ p <= step'
      BY <1>1, <3>1
    <3>3. \A w \in Step("wait") : Awaits(w, p) => step <= w
      BY <2>1, <2>2 DEF Known
    <3>4. \A w \in Step("wait") : w \in Nat /\ w # step
      BY <1>1, WaitIs
    <3> QED
      BY <1>1, <3>2, <3>3, <3>4 DEF Sent
  <2> QED
    BY <1>1, <1>3, <2>1, <2>2 DEF Known
<1> QED
  BY <1>2, <1>4 DEF InLine

LEMMA LineStays ==
  ASSUME PlaceInv, PlaceInv', NoErrorInv, DownInv, DownInv', UpInv, LineInv, TestNext
  PROVE  LineInv'
<1>0. SUFFICES ASSUME Connected', Paired' PROVE InLine'
  BY DEF LineInv, InLine
<1>1. script' = script /\ Connected /\ ~TestDisconnects
  <2>1. script' = script
    BY DEF TestNext
  <2>2. ~TestDisconnects
    BY <1>0 DEF TestDisconnects, Connected
  <2>3. pipe' = pipe
    BY <2>2, OneStep
  <2> QED
    BY <1>0, <2>1, <2>2, <2>3 DEF Connected
<1>2. Paired /\ InLine
  BY <1>0, <1>1, ScriptStays DEF LineInv, InLine
<1>3. CASE TestTakes
  BY <1>1, <1>2, <1>3, TakenLine
<1>4. CASE TestFlushes /\ testMain = "flush2"
  <2>1. Line' = Line
    BY <1>1, <1>4, LineSame
  <2> QED
    BY <1>1, <1>2, <1>4, <2>1, FlushedLine
<1>5. CASE ~TestTakes /\ (TestFlushes => testMain = "flush1")
  <2>1. Keeps
    BY <1>0, <1>5, StepsKeep
  <2>2. CASE AppReaderReads
    BY <1>0, <1>1, <1>2, <2>1, <2>2, ArrivedLine
  <2>3. CASE TestReaderAppends
    <3>1. CASE Line' = Line
      BY <1>2, <2>1, <3>1, SameLine
    <3>2. ASSUME NEW s \in Seq(Messages), Line = s \o Line' PROVE InLine'
      <4>1. InOrder(Line') /\ \A m : Has(Line', m) => Has(Line, m) /\ m \in Messages
        BY <1>1, <1>2, <3>2, ShorterLine
      <4>2. InOrder(Line)'
        BY <1>1, <4>1, NextInOrder
      <4>3. ASSUME NEW m, Has(Line', m) PROVE Known(m)'
        <5>1. m \in Messages /\ Known(m)
          BY <1>2, <4>1, <4>3 DEF InLine
        <5> QED
          BY <2>1, <5>1, KnownKeeps
      <4> QED
        BY <4>2, <4>3 DEF InLine
    <3> QED
      BY <1>1, <2>3, <3>1, <3>2, LineLoses
  <2>4. CASE Noise \/ GetFrameClose \/ Execute
    BY <1>2, <2>1, <2>4, NoiseOrShutdown, SameLine
  <2>5. CASE \/ TestWrites \/ TestFlushes \/ TestWakes \/ TestJoins \/ TestFails
             \/ TestReaderWaits \/ TestReaderReads \/ AppReaderWaits \/ AppReaderPosts
             \/ DispatchPosted \/ AppWrites \/ AppFlushes \/ Others \/ GetKey \/ GetDialogClose
             \/ LoopEnds \/ Fini \/ AppFails \/ Minute
    <3>1. Line' = Line
      BY <1>1, <2>5, LineSame
    <3> QED
      BY <1>2, <2>1, <3>1, SameLine
  <2>6. ~TestReaderEnds /\ ~AppReaderEnds
    BY <1>1 DEF TestReaderEnds, AppReaderEnds, SeesEnd, Connected
  <2> QED
    BY <1>1, <1>5, <2>2, <2>3, <2>4, <2>5, <2>6 DEF TestNext, TestMain, TestReader,
       AppReader, AppDispatch
<1>6. TestFlushes => testMain \in {"flush1", "flush2"}
  BY DEF TestFlushes
<1> QED
  BY <1>3, <1>4, <1>5, <1>6

(* What is dispatched had been posted.                                     *)
LEMMA CameStays ==
  ASSUME PlaceInv, PlaceInv', LineInv, CameInv, TestNext
  PROVE  CameInv'
<1> USE DEF testVars, dispatchVars, uiVars
<1>0. SUFFICES ASSUME Connected', Paired', (stage # "get")', NEW p \in Step("post"),
                      Script[p].msg = handling'
              PROVE  p <= step'
  BY ScriptStays DEF CameInv, TestNext
<1>1. script' = script /\ ~TestDisconnects /\ script \in Scripts
  BY <1>0 DEF TestNext, TestDisconnects, Connected, PlaceInv, TesterTypeOK
<1>2. Paired
  BY <1>0, <1>1, ScriptStays
<1>3. p \in Nat /\ step \in Nat
  <2>1. step \in 1..(Len(Script) + 1)
    BY DEF PlaceInv, TesterTypeOK
  <2> QED
    BY <1>1, <2>1, PostIs
<1>4. CASE DispatchPosted
  <2>1. posted # <<>> /\ handling' = Head(posted) /\ UNCHANGED <<pipe, step>>
    BY <1>4 DEF DispatchPosted
  <2>2. posted \in Seq(Messages)
    BY Parts DEF PartsAre
  <2>3. Head(posted) = posted[1] /\ 1 \in 1..Len(posted)
    BY <2>1, <2>2, EmptySeq
  <2>4. Has(posted, Head(posted))
    BY <2>3 DEF Has
  <2>5. Has(Line, handling')
    BY <2>1, <2>4, WhoHas DEF LineHas
  <2>6. Known(handling')
    BY <1>0, <1>2, <2>1, <2>5 DEF LineInv, Connected
  <2> QED
    BY <1>0, <2>1, <2>6 DEF Known
<1>5. CASE ~DispatchPosted
  <2>1. UNCHANGED pipe
    BY <1>1, OneStep
  <2>2. handling' = handling /\ stage # "get"
    <3>1. CASE TestMain \/ TestReader \/ TestFails
      BY <1>0, <1>1, <3>1 DEF TestMain, TestReader, TestWrites, TestFlushes, TestWakes,
         TestTakes, TestDisconnects, TestJoins, TestReaderWaits, TestReaderReads,
         TestReaderEnds, TestReaderAppends, TestFails
    <3>2. CASE AppReader \/ AppFails \/ Minute \/ Noise
      BY <1>0, <3>2 DEF AppReader, AppReaderWaits, AppReaderPosts, AppReaderEnds,
         AppReaderReads, AppFails, Noise, Minute
    <3>3. CASE Execute \/ AppFlushes
      BY <1>0, <3>3 DEF Execute, AppFlushes
    <3>4. CASE AppWrites
      <4>1. Part("get") = 0
        BY DEF Part
      <4> QED
        BY <3>4, <4>1 DEF AppWrites
    <3>5. CASE \/ Others \/ GetKey \/ GetDialogClose \/ GetFrameClose \/ LoopEnds \/ Fini
      BY <1>0, <3>5 DEF Others, GetKey, GetDialogClose, GetFrameClose, LoopEnds, Fini,
         Looping
    <3> QED
      BY <1>5, <3>1, <3>2, <3>3, <3>4, <3>5 DEF TestNext, AppDispatch
  <2>3. p <= step
    BY <1>0, <1>2, <2>1, <2>2 DEF CameInv, Connected
  <2>4. step' = step \/ step' = step + 1
    BY OneStep
  <2> QED
    BY <1>3, <2>3, <2>4
<1> QED
  BY <1>4, <1>5

LEMMA UpTo ==
  ASSUME NEW k \in Nat
  PROVE  IsFiniteSet(1..k) /\ Cardinality(1..k) = k
<1> DEFINE a == 1
<1>1. a \in Int /\ k \in Int /\ a = 1
  OBVIOUS
<1> HIDE DEF a
<1>2. IsFiniteSet(a..k) /\ Cardinality(a..k) = IF a > k THEN 0 ELSE k - a + 1
  BY <1>1, FS_Interval
<1> QED
  BY <1>1, <1>2

(* All that is on its way has room in the history.                         *)
LEMMA LineHasRoom ==
  ASSUME PlaceInv, InLine, Paired, Room, step \in 1..Len(Script)
  PROVE  Len(Line) <= MaxHistory
<1>1. script \in Scripts /\ MaxNoise \in Nat /\ MaxHistory \in Nat /\ step \in Nat /\ noise \in 0..MaxNoise
      /\ Len(Script) \in Nat
  BY TesterAssumption, ScriptIs DEF PlaceInv, TesterTypeOK
<1>2. Line \in Seq(Messages) /\ Len(Line) \in Nat
  BY Parts DEF PartsAre
<1> DEFINE P == Outstanding(step)
           Q == {Script[p].msg : p \in P}
           N == {Msg("noise", i) : i \in 1..MaxNoise}
           E == {Msg("shutdown", 0)}
           M == Q \cup (N \cup E)
<1>3. IsFiniteSet(P) /\ Cardinality(P) \in Nat
  <2>1. P \in SUBSET (1..Len(Script))
    BY <1>1, ScriptIs DEF Outstanding
  <2>2. IsFiniteSet(1..Len(Script))
    BY <1>1, FS_Interval
  <2> HIDE DEF P
  <2>3. IsFiniteSet(P)
    BY <2>1, <2>2, FS_Subset
  <2> QED
    BY <2>3, FS_CardinalityType
<1>4. Cardinality(P) + MaxNoise + 1 <= MaxHistory
  BY DEF Room
<1> HIDE DEF P
<1>5. IsFiniteSet(Q) /\ Cardinality(Q) <= Cardinality(P)
  <2> DEFINE f == [p \in P |-> Script[p].msg]
  <2>1. f \in Surjection(P, Q)
    BY DEF Surjection
  <2> HIDE DEF f, Q
  <2> QED
    BY <1>3, <2>1, FS_Surjection
<1>6. IsFiniteSet(N) /\ Cardinality(N) <= MaxNoise
  <2> DEFINE f == [i \in 1..MaxNoise |-> Msg("noise", i)]
  <2>1. f \in Surjection(1..MaxNoise, N)
    BY DEF Surjection
  <2>2. IsFiniteSet(1..MaxNoise) /\ Cardinality(1..MaxNoise) = MaxNoise
    BY <1>1, UpTo
  <2> HIDE DEF f, N
  <2>3. IsFiniteSet(N) /\ Cardinality(N) <= Cardinality(1..MaxNoise)
    BY <2>1, <2>2, FS_Surjection
  <2> QED
    BY <2>2, <2>3
<1>7. IsFiniteSet(E) /\ Cardinality(E) = 1
  BY FS_Singleton
<1> HIDE DEF Q, N, E
<1>8. IsFiniteSet(N \cup E) /\ Cardinality(N \cup E) <= MaxNoise + 1
  <2>1. /\ IsFiniteSet(N \cup E)
        /\ Cardinality(N \cup E) = Cardinality(N) + Cardinality(E) - Cardinality(N \cap E)
    BY <1>6, <1>7, FS_Union
  <2>2. Cardinality(N \cap E) \in Nat /\ Cardinality(N) \in Nat
    <3>1. N \cap E \in SUBSET N
      OBVIOUS
    <3>2. IsFiniteSet(N \cap E)
      BY <1>6, <3>1, FS_Subset
    <3> QED
      BY <1>6, <3>2, FS_CardinalityType
  <2> QED
    BY <1>1, <1>6, <1>7, <2>1, <2>2
<1>9. IsFiniteSet(M) /\ Cardinality(M) <= MaxHistory /\ Cardinality(M) \in Nat
  <2> DEFINE R == N \cup E
  <2>0. IsFiniteSet(R) /\ Cardinality(R) <= MaxNoise + 1 /\ Cardinality(R) \in Nat
    BY <1>8, FS_CardinalityType
  <2> HIDE DEF R
  <2>1. /\ IsFiniteSet(Q \cup R)
        /\ Cardinality(Q \cup R) = Cardinality(Q) + Cardinality(R) - Cardinality(Q \cap R)
    BY <1>5, <2>0, FS_Union
  <2>2. /\ Cardinality(Q \cap R) \in Nat
        /\ Cardinality(Q) \in Nat
        /\ Cardinality(Q \cup R) \in Nat
    <3>1. Q \cap R \in SUBSET Q
      OBVIOUS
    <3>2. IsFiniteSet(Q \cap R)
      BY <1>5, <3>1, FS_Subset
    <3> QED
      BY <1>5, <2>1, <3>2, FS_CardinalityType
  <2>3. Cardinality(Q \cup R) <= MaxHistory
    BY <1>1, <1>3, <1>4, <1>5, <2>0, <2>1, <2>2
  <2> QED
    BY <2>1, <2>2, <2>3 DEF R
<1>10. \A i \in 1..Len(Line) : Line[i] \in M
  <2> SUFFICES ASSUME NEW i \in 1..Len(Line) PROVE Line[i] \in M
    OBVIOUS
  <2> DEFINE m == Line[i]
  <2>1. m \in Messages /\ Known(m)
    BY <1>2, HasOnly DEF InLine
  <2> HIDE DEF m
  <2>2. CASE m.cmd \in Commands
    <3>1. PICK p \in Step("post") : Script[p].msg = m
      BY <1>1, <2>1, <2>2, PostOf
    <3>2. PICK w \in Step("wait") : Awaits(w, p)
      BY <1>1, OnePost
    <3>3. p \in P
      BY <2>1, <3>1, <3>2 DEF P, Outstanding, Known
    <3> QED
      BY <3>1, <3>3 DEF Q, m
  <2>3. CASE m.cmd = "noise"
    <3>1. m = Msg("noise", m.n) /\ m.n \in 1..MaxNoise
      BY <1>1, <2>1, <2>3, MessagesAre
    <3> QED
      BY <3>1 DEF N, m
  <2>4. CASE m = Msg("shutdown", 0)
    BY <2>4 DEF E, m
  <2> QED
    BY <1>1, <2>1, <2>2, <2>3, <2>4, MessagesAre
<1> HIDE DEF M
<1>11. SUFFICES ASSUME MaxHistory < Len(Line) PROVE FALSE
  BY <1>1, <1>2
<1> DEFINE f == [i \in 1..Len(Line) |-> Line[i]]
<1>12. /\ IsFiniteSet(1..Len(Line)) /\ Cardinality(1..Len(Line)) = Len(Line)
  BY <1>2, UpTo
<1>13. f \in [1..Len(Line) -> M]
  BY <1>10
<1>14. Cardinality(M) < Cardinality(1..Len(Line))
  BY <1>1, <1>2, <1>9, <1>11, <1>12
<1>15. \E i, j \in 1..Len(Line) : i # j /\ f[i] = f[j]
  <2> HIDE DEF f
  <2> QED
    BY <1>9, <1>12, <1>13, <1>14, FS_PigeonHole
<1>16. PICK i \in 1..Len(Line), j \in 1..Len(Line) : i < j /\ Line[i] = Line[j]
  <2>1. PICK i \in 1..Len(Line), j \in 1..Len(Line) : i # j /\ Line[i] = Line[j]
    BY <1>15
  <2>2. i < j \/ j < i
    BY <1>2, <2>1
  <2> QED
    BY <2>1, <2>2
<1> DEFINE m == Line[i]
<1>17. Older(m, m) /\ m \in Messages
  BY <1>2, <1>16, ElementOfSeq DEF InLine, InOrder
<1> HIDE DEF m
<1>18. CASE m.cmd \in Commands
  <2>1. PICK p \in Step("post") : Script[p].msg = m
    BY <1>1, <1>17, <1>18, PostOf
  <2> QED
    BY <1>1, <1>17, <2>1, PostIs DEF Older
<1>19. CASE m.cmd = "noise" /\ m.n \in 1..MaxNoise
  BY <1>17, <1>19 DEF Older
<1>20. CASE m.cmd = "shutdown"
  BY <1>17, <1>20 DEF Older
<1> QED
  BY <1>1, <1>17, <1>18, <1>19, <1>20, MessagesAre

Complete ==
  \A p \in Step("post"), w \in Step("wait") :
    Sent(p) /\ Awaits(w, p) /\ step <= w => Has(Line, Script[p].msg)

(* The broadcast that a wait takes is the answer to its own post.          *)
LEMMA TakesOwn ==
  ASSUME PlaceInv, PlaceInv', Paired, InLine, Complete, TestTakes, script' = script
  PROVE  Complete' /\ (OwnAnswers => OwnAnswers')
<1> USE DEF testVars, dispatchVars, uiVars
<1> DEFINE c == Current.msg.cmd
<1>1. /\ script \in Scripts
      /\ step \in Nat
      /\ step \in Step("wait")
      /\ ~SentAt
      /\ ~SentAt'
      /\ Current = Script[step]
  <2>1. testMain = "take" /\ testMain' = "next"
    BY DEF TestTakes
  <2>2. script \in Scripts /\ step \in Step("wait")
    BY <2>1 DEF PlaceInv, TesterTypeOK
  <2> QED
    BY <2>1, <2>2, WaitIs DEF SentAt, Current
<1>2. Line' \in Seq(Messages)
  BY PartsNext, ScriptStays DEF PartsAre
<1>3. PICK q \in Step("post") : Awaits(step, q)
  BY <1>1, OnePost
<1>4. /\ q \in Nat
      /\ q < step
      /\ Script[q].msg = Current.msg
      /\ Current.msg \in Messages
      /\ Current.msg.cmd \in Commands
  BY <1>1, <1>3, PostIs DEF Awaits
<1>5. Has(Line, Current.msg)
  BY <1>1, <1>3, <1>4 DEF Complete, Sent
<1>6. \A p \in Step("post"), w \in Step("wait") :
        /\ p \in Nat /\ w \in Nat
        /\ Awaits(w, p) => (p < q <=> w < step) /\ (q < p <=> step < w)
  BY <1>1, <1>3, PostIs, WaitIs, OnePost
<1>7. /\ Script' = Script
      /\ Step("post")' = Step("post")
      /\ Step("wait")' = Step("wait")
      /\ \A w, p : Awaits(w, p)' <=> Awaits(w, p)
  BY ScriptStays
<1> HIDE DEF c
<1>8. CASE /\ UNCHANGED <<step, answers>> /\ Line = history \o Line'
           /\ \A m : Has(history, m) => m.cmd # c
  <2>2. history \in Seq(Messages)
    BY Parts DEF PartsAre
  <2>3. /\ \A m : Has(Line, m) <=> Has(history, m) \/ Has(Line', m)
        /\ \A m, n : Has(history, m) /\ Has(Line', n) => Older(m, n)
    BY <1>8, <2>2, ShorterLine
  <2>4. Has(Line', Current.msg)
    BY <1>5, <1>8, <2>3 DEF c
  <2>5. ASSUME NEW p \in Step("post"), NEW w \in Step("wait"), Sent(p)', Awaits(w, p),
               step' <= w
        PROVE  Has(Line', Script[p].msg)
    <3>1. Sent(p)
      BY <1>1, <1>8, <2>5 DEF Sent
    <3>2. Has(Line, Script[p].msg)
      BY <1>8, <2>5, <3>1 DEF Complete
    <3>3. ~Has(history, Script[p].msg)
      <4>1. SUFFICES ASSUME Has(history, Script[p].msg) PROVE FALSE
        OBVIOUS
      <4>2. Older(Script[p].msg, Script[q].msg)
        BY <1>4, <2>3, <2>4, <4>1
      <4>3. p < q
        BY <4>2 DEF Older
      <4>4. w < step
        BY <1>6, <2>5, <4>3
      <4> QED
        BY <1>1, <1>6, <1>8, <2>5, <4>4
    <3> QED
      BY <2>3, <3>2, <3>3
  <2>6. Complete'
    BY <1>7, <2>5 DEF Complete
  <2>7. OwnAnswers => OwnAnswers'
    BY <1>7, <1>8 DEF OwnAnswers
  <2> QED
    BY <2>6, <2>7
<1>9. ASSUME NEW s \in Seq(Messages), NEW a \in Messages, step' = step + 1,
             answers' = Answered(a),
             a.cmd = c, \A m : Has(s, m) => m.cmd # c, Line = s \o (<<a>> \o Line')
      PROVE  Complete' /\ (OwnAnswers => OwnAnswers')
  <2> DEFINE l == Line'
             t == s \o <<a>>
  <2>1. l \in Seq(Messages) /\ <<a>> \in Seq(Messages)
    BY <1>2
  <2>2. t \in Seq(Messages)
    BY <2>1, Concat
  <2> HIDE DEF l
  <2>3. s \o (<<a>> \o l) = (s \o <<a>>) \o l
    BY <2>1, ConcatAssociative
  <2>4. Line = t \o Line'
    BY <1>9, <2>3 DEF l
  <2>5. \A m : Has(t, m) <=> Has(s, m) \/ m = a
    <3>1. \A m : Has(s \o <<a>>, m) <=> Has(s, m) \/ Has(<<a>>, m)
      BY <2>1, HasConcat
    <3> QED
      BY <3>1, HasFew
  <2>5a. InOrder(t)
    <3>1. InOrder(t \o l)
      BY <2>4 DEF InLine, l
    <3> HIDE DEF t
    <3> QED
      BY <2>1, <2>2, <3>1, OrderConcat
  <2>5b. \A m : Has(s, m) => Older(m, a)
    <3>1. Has(<<a>>, a)
      BY HasFew
    <3> QED
      BY <2>1, <2>5a, <3>1, OrderConcat
  <2> HIDE DEF t
  <2>6. /\ \A m : Has(Line, m) <=> Has(s, m) \/ m = a \/ Has(Line', m)
        /\ \A m : Has(Line', m) => Older(a, m)
    <3>1. /\ \A m : Has(Line, m) <=> Has(t, m) \/ Has(Line', m)
          /\ \A m, n : Has(t, m) /\ Has(Line', n) => Older(m, n)
      BY <2>2, <2>4, ShorterLine
    <3> QED
      BY <2>5, <3>1
  <2>7. a = Current.msg
    <3>1. a = Current.msg \/ Has(Line', Current.msg)
      BY <1>5, <1>9, <2>6 DEF c
    <3>2. SUFFICES ASSUME Has(Line', Current.msg) PROVE FALSE
      BY <3>1
    <3>3. PICK r \in Step("post") : Script[r].msg = a
      BY <1>1, <1>4, <1>9, PostOf DEF c
    <3>4. PICK v \in Step("wait") : Awaits(v, r)
      BY <1>1, OnePost
    <3>5. r < q
      BY <1>4, <2>6, <3>2, <3>3 DEF Older
    <3>6. v < step
      BY <1>6, <3>4, <3>5
    <3>7. step <= v
      BY <2>6, <3>3, <3>4 DEF InLine, Known
    <3> QED
      BY <1>1, <1>6, <3>6, <3>7
  <2>8. ASSUME NEW p \in Step("post"), NEW w \in Step("wait"), Sent(p)', Awaits(w, p),
               step' <= w
        PROVE  Has(Line', Script[p].msg)
    <3>1. step < w /\ step <= w
      BY <1>1, <1>6, <1>9, <2>8
    <3>2. Sent(p)
      <4>1. p \in Nat /\ p # step
        BY <1>1, PostIs
      <4>2. p <= step
        BY <1>1, <1>9, <2>8, <4>1 DEF Sent
      <4> QED
        BY <1>1, <4>1, <4>2 DEF Sent
    <3>3. Has(Line, Script[p].msg)
      BY <2>8, <3>1, <3>2 DEF Complete
    <3>4. q < p
      BY <1>6, <2>8, <3>1
    <3>5. Script[p].msg # a
      <4>1. p # q
        BY <1>6, <3>4, <1>4
      <4> QED
        BY <1>1, <1>4, <2>7, <4>1, OnePost
    <3>6. ~Has(s, Script[p].msg)
      <4>1. SUFFICES ASSUME Has(s, Script[p].msg) PROVE FALSE
        OBVIOUS
      <4>2. Older(Script[p].msg, Script[q].msg)
        BY <1>4, <2>5b, <2>7, <4>1
      <4>3. p < q
        BY <4>2 DEF Older
      <4> QED
        BY <1>4, <1>6, <3>4, <4>3
    <3> QED
      BY <2>6, <3>3, <3>5, <3>6
  <2>9. Complete'
    BY <1>7, <2>8 DEF Complete
  <2>10. ASSUME OwnAnswers PROVE OwnAnswers'
    <3>1. /\ DOMAIN answers' = DOMAIN answers \union {step}
          /\ \A i \in DOMAIN answers' : answers'[i] = IF i = step THEN a ELSE answers[i]
      BY <1>9 DEF Answered
    <3>2. \A i \in DOMAIN answers' : answers'[i] = Script[i].msg
      BY <1>1, <2>7, <2>10, <3>1 DEF OwnAnswers
    <3> QED
      BY <1>7, <3>2 DEF OwnAnswers
  <2> QED
    BY <2>9, <2>10
<1> QED
  BY <1>8, <1>9, LineTakes DEF c

(* A step that loses nothing and sends nothing.                            *)
LEMMA NothingLost ==
  ASSUME script' = script, step' = step, Complete,
         \A p : Sent(p)' => Sent(p), \A m : Has(Line, m) => Has(Line', m)
  PROVE  Complete'
BY ScriptStays DEF Complete

LEMMA CompleteStays ==
  ASSUME PlaceInv, PlaceInv', NoErrorInv, DownInv, DownInv', UpInv, LineInv,
         CompleteInv, TestNext
  PROVE  CompleteInv'
<1>0. SUFFICES ASSUME Connected', Paired', Room' PROVE Complete'
  BY DEF CompleteInv, Complete
<1>1. script' = script /\ Connected /\ ~TestDisconnects
  <2>1. script' = script
    BY DEF TestNext
  <2>2. ~TestDisconnects
    BY <1>0 DEF TestDisconnects, Connected
  <2>3. pipe' = pipe
    BY <2>2, OneStep
  <2> QED
    BY <1>0, <2>1, <2>2, <2>3 DEF Connected
<1>2. Paired /\ Room /\ InLine /\ Complete
  <2>1. Paired /\ Room
    BY <1>0, <1>1, ScriptStays
  <2> QED
    BY <1>1, <2>1 DEF LineInv, InLine, CompleteInv, Complete
<1>s. /\ script \in Scripts /\ step \in 1..(Len(Script) + 1) /\ Len(Script) \in Nat
  BY ScriptIs DEF PlaceInv, TesterTypeOK
<1>7. /\ Script' = Script
      /\ Step("post")' = Step("post")
      /\ Step("wait")' = Step("wait")
      /\ \A w, p : Awaits(w, p)' <=> Awaits(w, p)
  BY <1>1, ScriptStays
<1>3. CASE TestTakes
  BY <1>1, <1>2, <1>3, TakesOwn
<1>4. CASE TestFlushes /\ testMain = "flush2"
  <2>1. Line' = Line
    BY <1>1, <1>4, LineSame
  <2>2. step' = step + 1 /\ SentAt /\ ~SentAt'
    BY <1>4 DEF TestFlushes, Flushed, SentAt
  <2>3. ASSUME NEW p \in Step("post"), NEW w \in Step("wait"), Sent(p)', Awaits(w, p),
               step' <= w
        PROVE  Has(Line', Script[p].msg)
    <3>1. p \in Nat /\ w \in Nat
      BY <1>s, PostIs, WaitIs
    <3>2. Sent(p) /\ step <= w
      BY <1>s, <2>2, <2>3, <3>1 DEF Sent
    <3> QED
      BY <1>2, <2>1, <2>3, <3>2 DEF Complete
  <2> QED
    BY <1>7, <2>3 DEF Complete
<1>5. CASE ~TestTakes /\ (TestFlushes => testMain = "flush1")
  <2>1. Keeps /\ (~AppReaderReads => \A p : Sent(p)' => Sent(p))
    BY <1>0, <1>5, StepsKeep
  <2>2. CASE AppReaderReads
    <3>1. UNCHANGED <<step, testMain>>
      BY <2>2 DEF AppReaderReads, testVars
    <3>2. Line \in Seq(Messages) /\ Arrived' \in Seq(Messages)
      <4>1. Line \in Seq(Messages)
        BY Parts DEF PartsAre
      <4>2. Arrived' \in Seq(Messages)
        BY <1>1, PartsNext, ScriptStays DEF PartsAre
      <4> QED
        BY <4>1, <4>2
    <3>3. \A m : Has(Line, m) => Has(Line', m)
      <4>1. CASE Line' = Line
        BY <4>1
      <4>2. CASE Line' = Line \o Arrived'
        <5> DEFINE b == Arrived'
        <5>1. b \in Seq(Messages) /\ Line' = Line \o b
          BY <3>2, <4>2
        <5> HIDE DEF b
        <5>2. \A m : Has(Line \o b, m) <=> Has(Line, m) \/ Has(b, m)
          BY <3>2, <5>1, HasConcat
        <5> QED
          BY <5>1, <5>2
      <4> QED
        BY <1>1, <2>2, <4>1, <4>2, LineEnds
    <3>4. SentAt' => Has(Line', Current.msg)
      <4>1. SUFFICES ASSUME SentAt' PROVE Has(Line', Current.msg)
        OBVIOUS
      <4>2. Arrived' = <<Current.msg>>
        BY <1>0, <1>1, <2>2, <3>1, <4>1, WhatArrives DEF SentAt
      <4>3. Has(Arrived', Current.msg)
        BY <4>2, HasFew
      <4> QED
        BY <4>3, WhoHasNext DEF LineHas
    <3>5. ASSUME NEW p \in Step("post"), NEW w \in Step("wait"), Sent(p)', Awaits(w, p),
                 step' <= w
          PROVE  Has(Line', Script[p].msg)
      <4>1. CASE p < step
        <5>1. Has(Line, Script[p].msg)
          BY <1>2, <3>1, <3>5, <4>1 DEF Complete, Sent
        <5> QED
          BY <3>3, <5>1
      <4>2. CASE p = step /\ SentAt'
        BY <3>4, <4>2 DEF Current
      <4> QED
        BY <3>1, <3>5, <4>1, <4>2 DEF Sent
    <3> QED
      BY <1>7, <3>5 DEF Complete
  <2>3. CASE TestReaderAppends
    <3>0. step' = step
      BY <2>1 DEF Keeps
    <3>1. CASE Line' = Line
      <4>1. ~AppReaderReads
        BY <2>3 DEF AppReaderReads, MayRead, TestReaderAppends
      <4> QED
        BY <1>1, <1>2, <2>1, <3>0, <3>1, <4>1, NothingLost
    <3>2. CASE Len(history) >= MaxHistory /\ Returned # <<>>
      <4>1. ASSUME NEW p \in Step("post"), NEW w \in Step("wait"), step <= w PROVE FALSE
        <5>1. step \in 1..Len(Script)
          BY <1>s, <4>1, WaitIs
        <5>2. Len(Line) <= MaxHistory
          BY <1>2, <5>1, LineHasRoom
        <5>3. Len(Line) > Len(history) /\ Len(history) \in Nat /\ Len(Line) \in Nat
          <6>1. /\ history \in Seq(Messages)
                /\ Returned \in Seq(Messages)
                /\ Back = history \o Returned
                /\ Back \in Seq(Messages) /\ InHand \o Ahead \in Seq(Messages)
            BY Parts DEF PartsAre
          <6>2. /\ Len(Back) = Len(history) + Len(Returned)
                /\ Len(history) \in Nat
                /\ Len(Returned) \in Nat
            BY <6>1, Concat
          <6>3. /\ Len(Line) = Len(Back) + Len(InHand \o Ahead)
                /\ Len(InHand \o Ahead) \in Nat
            BY <6>1, Concat DEF Line
          <6>4. Len(Returned) # 0
            BY <3>2, <6>1, EmptySeq
          <6> QED
            BY <6>2, <6>3, <6>4
        <5> QED
          BY <3>2, <5>2, <5>3, TesterAssumption
      <4> QED
        BY <1>7, <3>0, <4>1 DEF Complete
    <3> QED
      BY <1>1, <2>3, <3>1, <3>2, LineLoses
  <2>4. CASE ~AppReaderReads /\ ~TestReaderAppends
    <3>1. \A m : Has(Line, m) => Has(Line', m)
      <4>1. CASE Noise \/ GetFrameClose \/ Execute
        BY <1>2, <2>1, <4>1, NoiseOrShutdown
      <4>2. CASE \/ TestWrites \/ TestFlushes \/ TestWakes \/ TestJoins \/ TestFails
                 \/ TestReaderWaits \/ TestReaderReads \/ AppReaderWaits \/ AppReaderPosts
                 \/ DispatchPosted \/ AppWrites \/ AppFlushes \/ Others \/ GetKey \/ GetDialogClose
                 \/ LoopEnds \/ Fini \/ AppFails \/ Minute
        BY <1>1, <4>2, LineSame
      <4>3. ~TestReaderEnds /\ ~AppReaderEnds
        BY <1>1 DEF TestReaderEnds, AppReaderEnds, SeesEnd, Connected
      <4> QED
        BY <1>1, <1>5, <2>4, <4>1, <4>2, <4>3 DEF TestNext, TestMain, TestReader,
           AppReader, AppDispatch
    <3> QED
      BY <1>1, <1>2, <2>1, <2>4, <3>1, NothingLost DEF Keeps
  <2> QED
    BY <2>2, <2>3, <2>4
<1>6. TestFlushes => testMain \in {"flush1", "flush2"}
  BY DEF TestFlushes
<1> QED
  BY <1>3, <1>4, <1>5, <1>6

LEMMA AnswersStay ==
  ASSUME PlaceInv, PlaceInv', LineInv, CompleteInv, Paired /\ Room => OwnAnswers,
         TestNext
  PROVE  (Paired /\ Room => OwnAnswers)'
<1>1. script' = script /\ Script' = Script
  BY ScriptStays DEF TestNext
<1>2. SUFFICES ASSUME Paired, Room, OwnAnswers PROVE OwnAnswers'
  BY <1>1, ScriptStays
<1>3. CASE TestTakes
  <2>1. Connected
    BY <1>3 DEF TestTakes, PlaceInv
  <2> QED
    BY <1>1, <1>2, <1>3, <2>1, TakesOwn DEF LineInv, InLine, CompleteInv, Complete
<1>4. CASE ~TestTakes
  <2>1. answers' = answers
    BY <1>4 DEF TestNext, TestMain, TestReader, AppReader, AppDispatch, TestWrites,
       TestFlushes, TestWakes, TestDisconnects, TestJoins, TestReaderWaits,
       TestReaderReads, TestReaderEnds, TestReaderAppends, TestFails, AppReaderWaits,
       AppReaderPosts, AppReaderEnds, AppReaderReads, DispatchPosted, Execute,
       AppWrites, AppFlushes, Others, GetKey, GetDialogClose, GetFrameClose, LoopEnds,
       Fini, AppFails, Noise, Minute, testVars
  <2> QED
    BY <1>1, <1>2, <2>1 DEF OwnAnswers
<1> QED
  BY <1>3, <1>4

---------------------------------------------------------------------------
(* What the application has still to execute, and what a step does to it.  *)
LEMMA OneMore ==
  ASSUME NEW s \in Seq(Messages), NEW x \in Messages
  PROVE  \A m : Has(Append(s, x), m) <=> Has(s, m) \/ x = m
<1>1. Append(s, x) = s \o <<x>> /\ <<x>> \in Seq(Messages)
  BY AppendIsConcat
<1>2. \A m : Has(s \o <<x>>, m) <=> Has(s, m) \/ Has(<<x>>, m)
  BY <1>1, HasConcat
<1> QED
  BY <1>1, <1>2, HasFew

LEMMA ToDoParts ==
  ASSUME PlaceInv, PlaceInv'
  PROVE  /\ posted \in Seq(Messages)
         /\ \A m : Has(ToDo, m) <=> (stage = "execute" /\ handling = m) \/ Has(posted, m) \/ Has(Arrived, m)
         /\ \A m : Has(ToDo', m) <=> (stage' = "execute" /\ handling' = m) \/ Has(posted', m) \/ Has(Arrived', m)
<1>1. posted \in Seq(Messages)
  BY Parts DEF PartsAre
<1>2. \A m : Has(ToDo, m) <=> (stage = "execute" /\ handling = m) \/ Has(posted, m) \/ Has(Arrived, m)
  BY WhoHas DEF LineHas
<1>3. \A m : Has(ToDo', m) <=> (stage' = "execute" /\ handling' = m) \/ Has(posted', m) \/ Has(Arrived', m)
  BY WhoHasNext DEF LineHas
<1> QED
  BY <1>1, <1>2, <1>3

LEMMA ToDoSame ==
  ASSUME PlaceInv, PlaceInv', TestNext, ~AppReaderReads, ~Execute,
         ~Connected => appRead.got = <<>>, NEW m, m.cmd \in Commands
  PROVE  Has(ToDo', m) <=> Has(ToDo, m)
<1> USE DEF testVars, dispatchVars, uiVars
<1>0. script \in Scripts
  BY DEF PlaceInv, TesterTypeOK
<1>p. /\ posted \in Seq(Messages)
      /\ Has(ToDo, m) <=> (stage = "execute" /\ handling = m) \/ Has(posted, m) \/ Has(Arrived, m)
      /\ Has(ToDo', m) <=> (stage' = "execute" /\ handling' = m) \/ Has(posted', m) \/ Has(Arrived', m)
  BY ToDoParts
<1>1. CASE DispatchPosted
  <2> DEFINE h == Head(posted)
             t == Tail(posted)
  <2>1. posted # <<>> /\ posted' = t /\ handling' = h /\ stage = "get" /\ stage' = "execute"
        /\ Arrived' = Arrived
    BY <1>1 DEF DispatchPosted, Looping, Arrived, Got
  <2>2. posted = <<h>> \o t /\ h \in Messages /\ t \in Seq(Messages)
    BY <1>p, <2>1, HeadFirst
  <2> HIDE DEF h, t
  <2>3. <<h>> \in Seq(Messages)
    BY <2>2
  <2>4. Has(posted, m) <=> Has(<<h>>, m) \/ Has(t, m)
    <3>1. Has(<<h>> \o t, m) <=> Has(<<h>>, m) \/ Has(t, m)
      BY <2>2, <2>3, HasConcat
    <3> QED
      BY <2>2, <3>1
  <2>5. Has(<<h>>, m) <=> h = m
    BY HasFew
  <2> QED
    BY <1>p, <2>1, <2>4, <2>5
<1>2. CASE AppReaderPosts
  <2> DEFINE x == appRead.got[1].msg
  <2>1. /\ posted' = Append(posted, x)
        /\ Arrived = <<x>>
        /\ Arrived' = <<>>
        /\ UNCHANGED <<stage, handling>>
    BY <1>2 DEF AppReaderPosts, NewMessage, Thread, Arrived, Got
  <2>2. x \in Messages
    <3>1. Has(Arrived, x)
      BY <2>1, HasFew
    <3>2. Arrived \in Seq(Messages)
      BY Parts DEF PartsAre
    <3> QED
      BY <3>1, <3>2, HasOnly
  <2> HIDE DEF x
  <2>3. /\ Has(posted', m) <=> Has(posted, m) \/ x = m
        /\ Has(Arrived, m) <=> x = m
        /\ ~Has(Arrived', m)
    BY <1>p, <2>1, <2>2, OneMore, HasFew
  <2> QED
    BY <1>p, <2>1, <2>3
<1>3. CASE Noise \/ GetFrameClose
  <2>1. UNCHANGED <<stage, handling>> /\ Arrived' = Arrived
    BY <1>3 DEF Noise, GetFrameClose, Arrived, Got
  <2>2. PICK y \in Messages : posted' = Append(posted, y) /\ y.cmd \notin Commands
    <3>1. CASE Noise
      <4>1. noise' \in 1..MaxNoise
        <5>1. /\ noise \in 0..MaxNoise
              /\ MaxNoise \in Nat
              /\ noise < MaxNoise
              /\ noise' = noise + 1
          BY <3>1, TesterAssumption DEF PlaceInv, TesterTypeOK, Noise
        <5> QED
          BY <5>1
      <4>2. posted' = Append(posted, Msg("noise", noise'))
        BY <3>1 DEF Noise
      <4> QED
        BY <1>0, <4>1, <4>2, MessagesAre
    <3>2. CASE GetFrameClose
      <4>1. posted' = Append(posted, Msg("shutdown", 0))
        BY <3>2 DEF GetFrameClose
      <4> QED
        BY <1>0, <4>1, MessagesAre
    <3> QED
      BY <1>3, <3>1, <3>2
  <2>3. Has(posted', m) <=> Has(posted, m)
    BY <1>p, <2>2, OneMore
  <2> QED
    BY <1>p, <2>1, <2>3
<1>4. CASE AppReaderEnds \/ AppReaderWaits
  <2>1. UNCHANGED <<posted, stage, handling>>
    BY <1>4 DEF AppReaderEnds, AppReaderWaits
  <2>2. Arrived' = Arrived
    <3>1. CASE AppReaderWaits
      BY <3>1 DEF AppReaderWaits, NothingYet, Arrived, Got
    <3>2. CASE AppReaderEnds
      <4>1. appRead.got = <<>> /\ appRead.at = "pending"
        BY <3>2 DEF AppReaderEnds, SeesEnd, Connected
      <4> QED
        BY <3>2, <4>1 DEF AppReaderEnds, Thread, Arrived, Got
    <3> QED
      BY <1>4, <3>1, <3>2
  <2> QED
    BY <1>p, <2>1, <2>2
<1>5. CASE AppWrites \/ AppFlushes \/ Others
  <2>1. UNCHANGED posted /\ Arrived' = Arrived
    BY <1>5 DEF AppWrites, AppFlushes, Others, Arrived, Got
  <2>2. stage # "execute"
    <3>1. Part("execute") = 0
      BY DEF Part
    <3> QED
      BY <1>5, <3>1 DEF AppWrites, AppFlushes, Others
  <2>3. stage' # "execute"
    <3>1. CASE AppWrites
      <4>1. stage \in {"write1", "write2", "write3"} /\ stage' = NextPlace(stage)
        BY <3>1 DEF AppWrites, Part
      <4> QED
        BY <4>1 DEF NextPlace
    <3>2. CASE AppFlushes
      <4>1. stage \in {"flush1", "flush2", "flush3"} /\ stage' = NextPlace(stage)
        BY <3>2 DEF AppFlushes
      <4> QED
        BY <4>1 DEF NextPlace
    <3>3. CASE Others
      BY <3>3 DEF Others
    <3> QED
      BY <1>5, <3>1, <3>2, <3>3
  <2> QED
    BY <1>p, <2>1, <2>2, <2>3
<1>6. CASE TestMain \/ TestReader \/ TestFails \/ GetKey \/ GetDialogClose \/ LoopEnds \/ Fini \/ AppFails \/ Minute
  <2>1. UNCHANGED <<posted, stage, handling, appRead>>
    BY <1>6 DEF TestMain, TestReader, TestWrites, TestFlushes, TestWakes, TestTakes,
       TestDisconnects, TestJoins, TestReaderWaits, TestReaderReads, TestReaderEnds,
       TestReaderAppends, TestFails, GetKey, GetDialogClose, LoopEnds, Fini, AppFails,
       Minute
  <2>2. Arrived' = Arrived
    BY <2>1 DEF Arrived, Got
  <2> QED
    BY <1>p, <2>1, <2>2
<1> QED
  BY <1>1, <1>2, <1>3, <1>4, <1>5, <1>6 DEF TestNext, AppReader, AppDispatch

LEMMA ToDoGrows ==
  ASSUME PlaceInv, PlaceInv', AppReaderReads, NEW m
  PROVE  Has(ToDo', m) <=> Has(ToDo, m) \/ Has(Arrived', m)
<1>1. /\ Has(ToDo, m) <=> (stage = "execute" /\ handling = m) \/ Has(posted, m) \/ Has(Arrived, m)
      /\ Has(ToDo', m) <=> (stage' = "execute" /\ handling' = m) \/ Has(posted', m) \/ Has(Arrived', m)
  BY ToDoParts
<1>2. UNCHANGED <<posted, stage, handling>> /\ Arrived = <<>>
  BY DEF AppReaderReads, MayRead, dispatchVars, Arrived, Got
<1> QED
  BY <1>1, <1>2, HasFew

LEMMA ToDoShrinks ==
  ASSUME PlaceInv, PlaceInv', Execute, NEW m, m.cmd \in Commands
  PROVE  /\ Has(ToDo, m) <=> handling = m \/ Has(ToDo', m)
         /\ Has(ToDo', m) <=> Has(posted, m) \/ Has(Arrived, m)
         /\ handling \in Messages
         /\ handling' = handling
         /\ stage = "execute"
         /\ stage' = "write1"
<1> USE DEF testVars, dispatchVars, uiVars
<1>0. script \in Scripts
  BY DEF PlaceInv, TesterTypeOK
<1>1. /\ posted \in Seq(Messages)
      /\ Has(ToDo, m) <=> (stage = "execute" /\ handling = m) \/ Has(posted, m) \/ Has(Arrived, m)
      /\ Has(ToDo', m) <=> (stage' = "execute" /\ handling' = m) \/ Has(posted', m) \/ Has(Arrived', m)
  BY ToDoParts
<1>2. /\ stage = "execute"
      /\ stage' = "write1"
      /\ handling' = handling
      /\ UNCHANGED appRead
      /\ posted' = posted \/ posted' = Append(posted, Msg("shutdown", 0))
  BY DEF Execute
<1>3. handling \in Messages
  BY <1>2 DEF PlaceInv
<1>4. Arrived' = Arrived
  BY <1>2 DEF Arrived, Got
<1>5. Has(posted', m) <=> Has(posted, m)
  <2>1. CASE posted' = Append(posted, Msg("shutdown", 0))
    <3> DEFINE y == Msg("shutdown", 0)
    <3>1. y \in Messages /\ y # m
      BY <1>0, MessagesAre
    <3> HIDE DEF y
    <3>2. Has(Append(posted, y), m) <=> Has(posted, m) \/ y = m
      BY <1>1, <3>1, OneMore
    <3> QED
      BY <2>1, <3>1, <3>2 DEF y
  <2> QED
    BY <1>2, <2>1
<1> QED
  BY <1>1, <1>2, <1>3, <1>4, <1>5

(* What is executed was sent before all that is still to be executed.      *)
LEMMA ExecutedFirst ==
  ASSUME PlaceInv, InLine, stage = "execute", NEW m, Has(posted, m) \/ Has(Arrived, m)
  PROVE  Older(handling, m)
<1>1. /\ Back \in Seq(Messages) /\ InHand \in Seq(Messages) /\ Ahead \in Seq(Messages)
      /\ posted \in Seq(Messages) /\ Arrived \in Seq(Messages)
      /\ InHand \o Ahead \in Seq(Messages) /\ Ahead = posted \o Arrived
  BY Parts DEF PartsAre
<1>2. Has(InHand, handling)
  BY WhoHas DEF LineHas, Unsent
<1>3. Has(Ahead, m)
  <2>1. Has(posted \o Arrived, m)
    <3>1. posted \in Seq(Messages) /\ Arrived \in Seq(Messages)
      BY <1>1
    <3> QED
      BY <3>1, HasConcat
  <2> QED
    BY <1>1, <2>1
<1>4. InOrder(InHand \o Ahead)
  <2> DEFINE r == InHand \o Ahead
  <2>1. r \in Seq(Messages) /\ InOrder(Back \o r)
    BY <1>1 DEF InLine, Line
  <2> HIDE DEF r
  <2>2. InOrder(r)
    BY <1>1, <2>1, OrderConcat
  <2> QED
    BY <2>2 DEF r
<1> QED
  BY <1>1, <1>2, <1>3, <1>4, OrderConcat

(* Only the reader of the application makes a command be sent.             *)
LEMMA SentGrows ==
  ASSUME PlaceInv, PlaceInv', NoErrorInv, DownInv, DownInv', Connected, Connected',
         TestNext,
         NEW p \in Step("post")
  PROVE  /\ Sent(p)' => Sent(p) \/ (AppReaderReads /\ p = step /\ Has(Arrived', Script[p].msg))
         /\ TestRuns' /\ p >= step' /\ ~Sent(p)' => TestRuns /\ p >= step /\ ~Sent(p)
<1>1. /\ script' = script /\ script \in Scripts /\ p \in Nat /\ step \in Nat
  <2>1. script' = script /\ script \in Scripts /\ step \in 1..(Len(Script) + 1)
    BY DEF TestNext, PlaceInv, TesterTypeOK
  <2> QED
    BY <2>1, PostIs
<1>2. CASE TestTakes
  <2>1. step' = step \/ step' = step + 1
    BY <1>2 DEF TestTakes
  <2>2. p # step /\ TestRuns /\ ~SentAt /\ ~SentAt'
    <3>1. testMain = "take" /\ testMain' = "next"
      BY <1>2 DEF TestTakes
    <3>2. step \in Step("wait")
      BY <3>1 DEF PlaceInv
    <3> QED
      BY <1>1, <3>1, <3>2, PostIs DEF TestRuns, SentAt
  <2>3. Sent(p)' => Sent(p)
    BY <1>1, <2>1, <2>2 DEF Sent
  <2>4. p >= step' /\ ~Sent(p)' => p >= step /\ ~Sent(p)
    BY <1>1, <2>1, <2>2 DEF Sent
  <2> QED
    BY <2>2, <2>3, <2>4
<1>3. CASE TestFlushes /\ testMain = "flush2"
  <2>1. step' = step + 1 /\ SentAt /\ ~SentAt' /\ TestRuns
    BY <1>3 DEF TestFlushes, Flushed, SentAt, TestRuns
  <2>2. Sent(p)' => Sent(p)
    BY <1>1, <2>1 DEF Sent
  <2>3. p >= step' /\ ~Sent(p)' => p >= step /\ ~Sent(p)
    BY <1>1, <2>1 DEF Sent
  <2> QED
    BY <2>1, <2>2, <2>3
<1>4. CASE ~TestTakes /\ (TestFlushes => testMain = "flush1")
  <2>1. Keeps /\ (~AppReaderReads => \A q : Sent(q)' => Sent(q))
    BY <1>4, StepsKeep
  <2>2. TestRuns' /\ p >= step' /\ ~Sent(p)' => TestRuns /\ p >= step /\ ~Sent(p)
    BY <2>1 DEF Keeps
  <2>3. ASSUME AppReaderReads, Sent(p)', ~Sent(p)
        PROVE  p = step /\ Has(Arrived', Script[p].msg)
    <3>1. UNCHANGED <<step, testMain>>
      BY <2>3 DEF AppReaderReads, testVars
    <3>2. p = step /\ SentAt'
      BY <2>3, <3>1 DEF Sent
    <3>3. Arrived' = <<Current.msg>>
      BY <1>1, <2>3, <3>1, <3>2, WhatArrives DEF SentAt
    <3> QED
      BY <3>2, <3>3, HasFew DEF Current
  <2> QED
    BY <2>1, <2>2, <2>3
<1>5. TestFlushes => testMain \in {"flush1", "flush2"}
  BY DEF TestFlushes
<1> QED
  BY <1>2, <1>3, <1>4, <1>5

(* What arrives was not yet sent.                                          *)
LEMMA ArrivesFirst ==
  ASSUME PlaceInv, PlaceInv', NoErrorInv, DownInv, DownInv', Connected, Connected',
         Paired, script' = script,
         AppReaderReads, NEW p \in Step("post"), Has(Arrived', Script[p].msg)
  PROVE  TestRuns /\ p = step /\ ~Sent(p) /\ Sent(p)'
<1>1. script \in Scripts
  BY DEF PlaceInv, TesterTypeOK
<1>2. appRead'.at = "post"
  <2>1. Arrived' # <<>>
    BY HasFew
  <2> QED
    BY <2>1 DEF Arrived, Got
<1>3. /\ TestRuns /\ testMain = "flush2" /\ down # <<>> /\ down' = <<>>
      /\ Arrived' = <<Current.msg>> /\ step \in Step("post")
  BY <1>2, WhatArrives
<1>4. Script[p].msg = Script[step].msg
  BY <1>3, HasFew DEF Current
<1>5. p = step /\ p \in Nat
  BY <1>1, <1>3, <1>4, OnePost, PostIs
<1>6. UNCHANGED <<step, testMain>>
  BY DEF AppReaderReads, testVars
<1> QED
  BY <1>3, <1>5, <1>6 DEF Sent, SentAt

LEMMA ComesBefore ==
  ASSUME PlaceInv, PlaceInv', NoErrorInv, DownInv, DownInv', Connected, Connected',
         Paired, TestNext,
         NEW p \in Step("post")
  PROVE  Comes(p)' => Comes(p)
<1>1. /\ script' = script /\ script \in Scripts
      /\ Script' = Script
  BY ScriptStays DEF TestNext, PlaceInv, TesterTypeOK
<1>2. Script[p].msg.cmd \in Commands
  BY <1>1, PostIs
<1>3. InToDo(p)' <=> Has(ToDo', Script[p].msg)
  BY <1>1 DEF InToDo
<1>4. ASSUME InToDo(p)' PROVE Comes(p)
  <2>1. CASE AppReaderReads
    <3>1. Has(ToDo, Script[p].msg) \/ Has(Arrived', Script[p].msg)
      BY <1>3, <1>4, <2>1, ToDoGrows
    <3>2. CASE Has(Arrived', Script[p].msg)
      <4>1. TestRuns /\ p = step /\ ~Sent(p) /\ p \in Nat
        BY <1>1, <2>1, <3>2, ArrivesFirst, PostIs
      <4> QED
        BY <4>1 DEF Comes
    <3> QED
      BY <3>1, <3>2 DEF Comes, InToDo
  <2>2. CASE Execute
    BY <1>2, <1>3, <1>4, <2>2, ToDoShrinks DEF Comes, InToDo
  <2>3. CASE ~AppReaderReads /\ ~Execute
    BY <1>2, <1>3, <1>4, <2>3, ToDoSame DEF Comes, InToDo
  <2> QED
    BY <2>1, <2>2, <2>3
<1>5. TestRuns' /\ p >= step' /\ ~Sent(p)' => TestRuns /\ p >= step /\ ~Sent(p)
  BY SentGrows
<1>6. Comes(p)' => InToDo(p)' \/ (TestRuns' /\ p >= step' /\ ~Sent(p)')
  BY DEF Comes
<1> QED
  BY <1>4, <1>5, <1>6 DEF Comes

LEMMA PassedBefore ==
  ASSUME PlaceInv, PlaceInv', NoErrorInv, DownInv, DownInv', Connected, Connected',
         Paired, TestNext,
         NEW p \in Step("post"), Passed(p)'
  PROVE  Passed(p) \/ (Others /\ handling = Script[p].msg /\ Sent(p) /\ ~InToDo(p))
<1>1. /\ script' = script /\ script \in Scripts
      /\ Script' = Script
  BY ScriptStays DEF TestNext, PlaceInv, TesterTypeOK
<1> DEFINE m == Script[p].msg
<1>2. m.cmd \in Commands /\ m \in Messages
  BY <1>1, PostIs
<1>3. /\ Sent(p)' /\ ~Has(ToDo', m)
      /\ stage' # "get" => handling' # m
  BY <1>1 DEF Passed, InToDo
<1>4. Sent(p)
  <2>1. CASE AppReaderReads
    <3>1. ~Has(Arrived', m)
      BY <1>3, <2>1, ToDoGrows
    <3> QED
      BY <1>3, <3>1, SentGrows
  <2> QED
    BY <1>3, <2>1, SentGrows
<1> HIDE DEF m
<1>5. CASE AppReaderReads
  <2>1. ~Has(ToDo, m)
    BY <1>3, <1>5, ToDoGrows
  <2>2. UNCHANGED <<stage, handling>>
    BY <1>5 DEF AppReaderReads, dispatchVars
  <2> QED
    BY <1>3, <1>4, <2>1, <2>2 DEF Passed, InToDo, m
<1>6. CASE Execute
  <2>1. handling # m
    BY <1>2, <1>3, <1>6, ToDoShrinks
  <2>2. ~Has(ToDo, m)
    BY <1>2, <1>3, <1>6, <2>1, ToDoShrinks
  <2> QED
    BY <1>4, <2>1, <2>2 DEF Passed, InToDo, m
<1>7. CASE ~AppReaderReads /\ ~Execute
  <2>1. ~Has(ToDo, m)
    BY <1>2, <1>3, <1>7, ToDoSame
  <2>2. CASE Others
    BY <1>4, <2>1, <2>2 DEF Passed, InToDo, m
  <2>3. CASE DispatchPosted
    <3>1. stage = "get"
      BY <2>3 DEF DispatchPosted, Looping
    <3> QED
      BY <1>4, <2>1, <3>1 DEF Passed, InToDo, m
  <2>4. CASE ~Others /\ ~DispatchPosted
    <3>1. handling' = handling /\ (stage # "get" => stage' # "get")
      <4>1. CASE TestMain \/ TestReader \/ TestFails \/ AppReader \/ AppFails \/ Minute
        BY <1>7, <4>1 DEF TestMain, TestReader, TestWrites, TestFlushes, TestWakes,
           TestTakes, TestDisconnects, TestJoins, TestReaderWaits, TestReaderReads,
           TestReaderEnds, TestReaderAppends, TestFails, AppReader, AppReaderWaits,
           AppReaderPosts, AppReaderEnds, AppFails, Minute, dispatchVars
      <4>2. CASE AppWrites
        <5>1. /\ stage \in {"write1", "write2", "write3"}
              /\ stage' = NextPlace(stage)
              /\ UNCHANGED handling
          BY <4>2 DEF AppWrites, Part
        <5> QED
          BY <5>1 DEF NextPlace
      <4>3. CASE AppFlushes
        <5>1. /\ stage \in {"flush1", "flush2", "flush3"}
              /\ stage' = NextPlace(stage)
              /\ UNCHANGED handling
          BY <4>3 DEF AppFlushes
        <5> QED
          BY <5>1 DEF NextPlace
      <4>4. CASE Noise \/ GetKey \/ GetDialogClose \/ GetFrameClose \/ LoopEnds \/ Fini
        BY <4>4 DEF Noise, GetKey, GetDialogClose, GetFrameClose, LoopEnds, Fini,
           dispatchVars
      <4> QED
        BY <1>7, <2>4, <4>1, <4>2, <4>3, <4>4 DEF TestNext, AppDispatch
    <3> QED
      BY <1>3, <1>4, <2>1, <3>1 DEF Passed, InToDo, m
  <2> QED
    BY <2>2, <2>3, <2>4
<1> QED
  BY <1>5, <1>6, <1>7

---------------------------------------------------------------------------
(* Where a WM_CLOSE goes.                                                  *)
NothingPosted == (\A p \in Step("post") : ~InToDo(p)) /\ appRead.got = <<>>
ToDoInOrder ==
  \A p, q \in Step("post") : p < q /\ Sent(q) /\ InToDo(p) => InToDo(q)
DialogWaits(c) ==
  /\ keys = 0 /\ dialog # "closing"
  /\ \A a \in Step("post") : Opens(a, c) /\ Passed(a) => dialog = "open" \/ frame # "open"
DialogWaitsForClose == \A c \in Step("post") : Closing(c) /\ Comes(c) => DialogWaits(c)
DialogIs ==
  /\ ~Connected => NothingPosted
  /\ CloseReachesDialog /\ ToDoInOrder /\ DialogWaitsForClose

LEMMA DialogInvIs == DialogInv <=> (Paired /\ DialogFirst => DialogIs)
BY DEF DialogInv, DialogIs, NothingPosted, ToDoInOrder, DialogWaitsForClose, DialogWaits

(* The command that is executed is one of the script, and was sent before  *)
(* all that still comes.                                                   *)
LEMMA ExecutedPost ==
  ASSUME PlaceInv, InLine, Paired, stage = "execute", handling.cmd \in Commands
  PROVE  \E h \in Step("post") :
           /\ Script[h].msg = handling
           /\ InToDo(h)
           /\ h <= step
           /\ (TestRuns => Sent(h))
           /\ \A p \in Step("post") :
                Has(posted, Script[p].msg) \/ Has(Arrived, Script[p].msg) => h < p
<1>1. script \in Scripts /\ handling \in Messages
  BY DEF PlaceInv, TesterTypeOK
<1>2. PICK h \in Step("post") : Script[h].msg = handling
  BY <1>1, PostOf
<1>3. InToDo(h)
  BY <1>2, WhoHas DEF InToDo, LineHas
<1>4. Known(handling)
  <2>1. Has(Line, handling)
    BY WhoHas DEF LineHas, Unsent
  <2> QED
    BY <2>1 DEF InLine
<1>5. ASSUME NEW p \in Step("post"),
             Has(posted, Script[p].msg) \/ Has(Arrived, Script[p].msg)
      PROVE  h < p
  <2>1. Older(handling, Script[p].msg)
    BY <1>5, ExecutedFirst
  <2> QED
    BY <1>2, <2>1 DEF Older
<1> QED
  BY <1>2, <1>3, <1>4, <1>5 DEF Known

LEMMA NothingStays ==
  ASSUME PlaceInv, PlaceInv', NoErrorInv, DownInv, LineInv, Paired, TestNext,
         ~Connected => NothingPosted, ~Connected'
  PROVE  NothingPosted'
<1> USE DEF testVars, dispatchVars, uiVars
<1>1. /\ script' = script
      /\ script \in Scripts
      /\ Script' = Script
      /\ Step("post")' = Step("post")
      /\ Len(Script) \in Nat
  BY ScriptStays, ScriptIs DEF TestNext, PlaceInv, TesterTypeOK
<1>2. CASE Connected
  <2>1. TestDisconnects
    BY <1>2, OneStep DEF Connected
  <2>2. /\ step = Len(Script) + 1
        /\ testMain = "next"
        /\ UNCHANGED <<appRead, posted, stage, handling>>
    BY <2>1 DEF TestDisconnects
  <2>3. \A p \in Step("post") : ~Has(Line, Script[p].msg)
    <3> SUFFICES ASSUME NEW p \in Step("post"), Has(Line, Script[p].msg) PROVE FALSE
      OBVIOUS
    <3>1. Known(Script[p].msg)
      BY <1>2 DEF LineInv
    <3>2. PICK w \in Step("wait") : Awaits(w, p)
      BY <1>1, OnePost
    <3>3. step <= w /\ w \in 1..Len(Script)
      BY <1>1, <3>1, <3>2, WaitIs DEF Known
    <3> QED
      BY <1>1, <2>2, <3>3
  <2>4. /\ \A m : Has(ToDo, m) => Has(Line, m)
        /\ Has(Arrived, appRead.got[1].msg) => Has(Line, appRead.got[1].msg)
    BY WhoHas DEF LineHas, Unsent
  <2>5. appRead.got = <<>>
    <3>1. AtRest(appRead) \/ appRead.at = "post"
      BY <1>2, <2>2 DEF DownInv, TestRuns
    <3>2. CASE appRead.at = "post"
      <4> DEFINE x == appRead.got[1].msg
      <4>1. Has(Arrived, x)
        BY <3>2, HasFew DEF Arrived, Got
      <4>2. x \in Messages /\ x.cmd \in Commands
        <5>1. Arrived \in Seq(Messages) /\ \A m : Has(Arrived, m) => m.cmd \in Commands
          BY Parts DEF PartsAre
        <5> QED
          BY <4>1, <5>1, HasOnly
      <4>3. Has(Line, x)
        BY <2>4, <4>1
      <4> HIDE DEF x
      <4>4. PICK p \in Step("post") : Script[p].msg = x
        BY <1>1, <4>2, PostOf
      <4> QED
        BY <2>3, <4>3, <4>4
    <3> QED
      BY <3>1, <3>2 DEF AtRest, NewMessage, Thread
  <2>6. \A p \in Step("post") : ~InToDo(p)
    BY <2>3, <2>4 DEF InToDo
  <2>7. Connected \/ appRead.got = <<>>
    BY <2>5
  <2>8. ~AppReaderReads /\ ~Execute
    BY <2>1 DEF TestDisconnects, AppReaderReads, Execute
  <2>9. \A p \in Step("post") : ~Has(ToDo', Script[p].msg)
    <3> SUFFICES ASSUME NEW p \in Step("post") PROVE ~Has(ToDo', Script[p].msg)
      OBVIOUS
    <3>1. Script[p].msg.cmd \in Commands /\ ~Has(ToDo, Script[p].msg)
      BY <1>1, <2>6, PostIs DEF InToDo
    <3> QED
      BY <2>5, <2>8, <3>1, ToDoSame
  <2> QED
    BY <1>1, <2>2, <2>5, <2>9 DEF NothingPosted, InToDo
<1>3. CASE ~Connected
  <2>1. /\ down = <<>> /\ appRead.got = <<>> /\ \A p \in Step("post") : ~Has(ToDo, Script[p].msg)
        /\ appRead.at # "post"
    BY <1>3 DEF PlaceInv, NothingPosted, InToDo
  <2>2. ~AppReaderReads
    BY <2>1 DEF AppReaderReads, MayRead
  <2>3. ASSUME NEW p \in Step("post") PROVE ~Has(ToDo', Script[p].msg)
    <3>1. Script[p].msg.cmd \in Commands /\ ~Has(ToDo, Script[p].msg)
      BY <1>1, <2>1, PostIs
    <3>2. CASE Execute
      BY <3>1, <3>2, ToDoShrinks
    <3>3. CASE ~Execute
      BY <2>1, <2>2, <3>1, <3>3, ToDoSame
    <3> QED
      BY <3>2, <3>3
  <2>4. appRead'.got = <<>>
    <3>1. CASE AppReaderWaits \/ AppReaderEnds
      BY <2>1, <3>1 DEF AppReaderWaits, NothingYet, Connected, AppReaderEnds, Thread
    <3>2. ~AppReaderPosts
      BY <2>1 DEF AppReaderPosts
    <3>3. CASE ~AppReaderWaits /\ ~AppReaderEnds
      <4>1. UNCHANGED appRead
        BY <2>2, <3>2, <3>3 DEF TestNext, TestMain, TestReader, AppReader, AppDispatch,
           TestWrites, TestFlushes, TestWakes, TestTakes, TestDisconnects, TestJoins,
           TestReaderWaits, TestReaderReads, TestReaderEnds, TestReaderAppends,
           TestFails, DispatchPosted, Execute, AppWrites, AppFlushes, Others, GetKey,
           GetDialogClose, GetFrameClose, LoopEnds, Fini, AppFails, Noise, Minute
      <4> QED
        BY <2>1, <4>1
    <3> QED
      BY <3>1, <3>3
  <2> QED
    BY <1>1, <2>3, <2>4 DEF NothingPosted, InToDo
<1> QED
  BY <1>2, <1>3

LEMMA OrderStays ==
  ASSUME PlaceInv, PlaceInv', NoErrorInv, DownInv, DownInv', InLine, Connected,
         Connected', Paired, TestNext,
         ToDoInOrder
  PROVE  ToDoInOrder'
<1>1. /\ script' = script
      /\ script \in Scripts
      /\ Script' = Script
      /\ Step("post")' = Step("post")
  BY ScriptStays DEF TestNext, PlaceInv, TesterTypeOK
<1>2. SUFFICES ASSUME NEW p \in Step("post"), NEW q \in Step("post"), p < q, Sent(q)',
                      Has(ToDo', Script[p].msg)
               PROVE  Has(ToDo', Script[q].msg)
  BY <1>1 DEF ToDoInOrder, InToDo
<1>3. /\ Script[p].msg.cmd \in Commands
      /\ Script[q].msg.cmd \in Commands
      /\ p \in Nat
      /\ q \in Nat
      /\ Script[p].msg \in Messages /\ Script[q].msg \in Messages /\ step \in Nat
  <2>1. step \in 1..(Len(Script) + 1) /\ Len(Script) \in Nat
    BY ScriptIs DEF PlaceInv, TesterTypeOK
  <2> QED
    BY <1>1, <2>1, PostIs
<1>4. Sent(q) /\ Has(ToDo, Script[p].msg) => Has(ToDo, Script[q].msg)
  BY <1>2 DEF ToDoInOrder, InToDo
<1>5. CASE AppReaderReads
  <2>1. Sent(q) \/ Has(Arrived', Script[q].msg)
    BY <1>2, SentGrows
  <2>2. CASE Has(Arrived', Script[q].msg)
    BY <1>5, <2>2, ToDoGrows
  <2>3. CASE Sent(q) /\ ~Has(Arrived', Script[q].msg)
    <3>1. Has(ToDo, Script[p].msg) \/ Has(Arrived', Script[p].msg)
      BY <1>2, <1>5, ToDoGrows
    <3>2. ~Has(Arrived', Script[p].msg)
      <4>1. SUFFICES ASSUME Has(Arrived', Script[p].msg) PROVE FALSE
        OBVIOUS
      <4>2. p = step
        BY <1>1, <1>5, <4>1, ArrivesFirst
      <4> QED
        BY <1>2, <1>3, <2>3, <4>2 DEF Sent
    <3> QED
      BY <1>4, <1>5, <2>3, <3>1, <3>2, ToDoGrows
  <2> QED
    BY <2>1, <2>2, <2>3
<1>6. CASE Execute
  <2>1. ~AppReaderReads
    BY <1>6 DEF Execute, AppReaderReads, MayRead
  <2>2. Sent(q)
    BY <1>2, <2>1, SentGrows
  <2>3. /\ Has(ToDo, Script[p].msg)
        /\ (Has(posted, Script[p].msg) \/ Has(Arrived, Script[p].msg))
        /\ stage = "execute"
    BY <1>2, <1>3, <1>6, ToDoShrinks
  <2>4. Has(ToDo, Script[q].msg)
    BY <1>4, <2>2, <2>3
  <2>5. handling # Script[q].msg
    <3>1. SUFFICES ASSUME handling = Script[q].msg PROVE FALSE
      OBVIOUS
    <3>2. Older(Script[q].msg, Script[p].msg)
      BY <2>3, <3>1, ExecutedFirst
    <3>3. q < p
      BY <3>2 DEF Older
    <3> QED
      BY <1>2, <1>3, <3>3
  <2> QED
    BY <1>3, <1>6, <2>4, <2>5, ToDoShrinks
<1>7. CASE ~AppReaderReads /\ ~Execute
  <2>1. Sent(q)
    BY <1>2, <1>7, SentGrows
  <2>2. Has(ToDo, Script[p].msg)
    BY <1>2, <1>3, <1>7, ToDoSame
  <2>3. Has(ToDo, Script[q].msg)
    BY <1>4, <2>1, <2>2
  <2> QED
    BY <1>3, <1>7, <2>3, ToDoSame
<1> QED
  BY <1>5, <1>6, <1>7

LEMMA CloseStays ==
  ASSUME PlaceInv, PlaceInv', LineInv, CameInv, Paired, DialogFirst, DialogIs, TestNext
  PROVE  CloseReachesDialog'
<1> USE DEF testVars, dispatchVars, uiVars
<1>1. /\ script \in Scripts
      /\ Script' = Script
      /\ Len(Script) \in Nat
      /\ step \in 1..(Len(Script) + 1)
  BY ScriptStays, ScriptIs DEF TestNext, PlaceInv, TesterTypeOK
<1>2. step' \in Nat /\ step' >= step
  <2>1. step' = step \/ step' = step + 1
    BY OneStep
  <2> QED
    BY <1>1, <2>1
<1>3. CASE frame # "open"
  <2>1. PICK i \in 1..Len(Script) : i <= step /\ Script[i].msg.cmd = "exit"
    BY <1>3 DEF DialogIs, CloseReachesDialog
  <2>2. i <= step'
    BY <1>1, <1>2, <2>1
  <2> QED
    BY <1>1, <2>1, <2>2 DEF CloseReachesDialog
<1>4. CASE frame' = "open"
  BY <1>4 DEF CloseReachesDialog
<1>5. CASE frame = "open" /\ Others
  <2>1. SUFFICES ASSUME frame' # "open" PROVE CloseReachesDialog'
    BY DEF CloseReachesDialog
  <2>2. handling.cmd = "exit" /\ stage = "others" /\ UNCHANGED step
    BY <1>5, <2>1 DEF Others
  <2>3. handling \in Messages /\ handling.cmd \in Commands
    BY <2>2 DEF PlaceInv, Commands
  <2>4. PICK h \in Step("post") : Script[h].msg = handling
    BY <1>1, <2>3, PostOf
  <2>5. h \in 1..Len(Script)
    BY <1>1, PostIs
  <2>6. h <= step
    <3>1. CASE Connected
      BY <2>2, <2>4, <3>1 DEF CameInv
    <3>2. CASE ~Connected
      BY <1>1, <2>5, <3>2 DEF PlaceInv
    <3> QED
      BY <3>1, <3>2
  <2> QED
    BY <1>1, <2>2, <2>4, <2>5, <2>6 DEF CloseReachesDialog
<1>6. CASE frame = "open" /\ Execute
  <2>1. SUFFICES ASSUME frame' # "open" PROVE FALSE
    BY DEF CloseReachesDialog
  <2>2. handling.cmd = "close" /\ dialog = "none" /\ stage = "execute"
    BY <1>6, <2>1 DEF Execute
  <2>3. handling \in Messages /\ handling.cmd \in Commands
    BY <2>2 DEF PlaceInv, Commands
  <2>4. Connected
    <3>1. SUFFICES ASSUME ~Connected PROVE FALSE
      OBVIOUS
    <3>2. PICK h \in Step("post") : Script[h].msg = handling
      BY <1>1, <2>3, PostOf
    <3>3. InToDo(h)
      BY <2>2, <3>2, WhoHas DEF InToDo, LineHas
    <3> QED
      BY <3>1, <3>3 DEF DialogIs, NothingPosted
  <2>5. PICK h \in Step("post") :
           /\ Script[h].msg = handling /\ InToDo(h) /\ h <= step
           /\ \A p \in Step("post") :
                Has(posted, Script[p].msg) \/ Has(Arrived, Script[p].msg) => h < p
    BY <2>2, <2>3, <2>4, ExecutedPost DEF LineInv, InLine
  <2>6. Closing(h) /\ Comes(h)
    BY <2>2, <2>5 DEF Closing, Comes
  <2>7. PICK a \in Step("post") : Opens(a, h)
    BY <2>2, <2>5 DEF DialogFirst, Opens
  <2>8. a \in Nat /\ h \in Nat /\ a < h
    BY <1>1, <2>7, PostIs DEF Opens
  <2>9. Script[a].msg # handling
    BY <1>1, <2>5, <2>8, OnePost
  <2>10. ~InToDo(a)
    <3>1. Has(ToDo, Script[a].msg) => Has(posted, Script[a].msg) \/ Has(Arrived, Script[a].msg)
      BY <2>9, WhoHas DEF LineHas
    <3> QED
      BY <2>5, <2>8, <3>1 DEF InToDo
  <2>11. Sent(a)
    BY <1>1, <2>5, <2>8 DEF Sent
  <2>12. Passed(a)
    BY <2>9, <2>10, <2>11 DEF Passed
  <2> QED
    BY <1>6, <2>2, <2>6, <2>7, <2>12 DEF DialogIs, DialogWaitsForClose, DialogWaits
<1>7. CASE frame = "open" /\ ~Others /\ ~Execute
  <2>1. frame' = frame
    BY <1>7 DEF TestNext, TestMain, TestReader, AppReader, AppDispatch, TestWrites,
       TestFlushes, TestWakes, TestTakes, TestDisconnects, TestJoins, TestReaderWaits,
       TestReaderReads, TestReaderEnds, TestReaderAppends, TestFails, AppReaderWaits,
       AppReaderPosts, AppReaderEnds, AppReaderReads, DispatchPosted, AppWrites,
       AppFlushes, GetKey, GetDialogClose, GetFrameClose, LoopEnds, Fini, AppFails,
       Noise, Minute
  <2> QED
    BY <1>7, <2>1 DEF CloseReachesDialog
<1> QED
  BY <1>3, <1>5, <1>6, <1>7

(* While a command to close the dialog comes, nothing else closes it.      *)
LEMMA WaitsStays ==
  ASSUME PlaceInv, PlaceInv', NoErrorInv, DownInv, DownInv', InLine, Connected,
         Connected', Paired, DialogFirst,
         ToDoInOrder, DialogWaitsForClose, TestNext
  PROVE  DialogWaitsForClose'
<1> USE DEF testVars, dispatchVars, uiVars
<1>1. /\ script' = script
      /\ script \in Scripts
      /\ Script' = Script
      /\ Step("post")' = Step("post")
      /\ step \in Nat
  <2>1. step \in 1..(Len(Script) + 1) /\ Len(Script) \in Nat
    BY ScriptIs DEF PlaceInv, TesterTypeOK
  <2> QED
    BY <2>1, ScriptStays DEF TestNext, PlaceInv, TesterTypeOK
<1>2. SUFFICES ASSUME NEW c \in Step("post"), Closing(c), Comes(c)'
               PROVE  DialogWaits(c)'
  BY <1>1 DEF DialogWaitsForClose, Closing
<1>3. Comes(c) /\ DialogWaits(c)
  BY <1>2, ComesBefore DEF DialogWaitsForClose
<1>o. \A a : Opens(a, c)' <=> Opens(a, c)
  BY <1>1 DEF Opens
<1>4. /\ keys = 0 /\ dialog # "closing"
      /\ \A a \in Step("post") : Opens(a, c) /\ Passed(a) => dialog = "open" \/ frame # "open"
  BY <1>3 DEF DialogWaits
<1>5. ASSUME keys' = 0, dialog' # "closing",
             \A a \in Step("post") : Opens(a, c) /\ Passed(a)' => dialog' = "open" \/ frame' # "open"
      PROVE  DialogWaits(c)'
  BY <1>1, <1>o, <1>5 DEF DialogWaits
<1>6. CASE GetKey \/ GetDialogClose
  BY <1>4, <1>6 DEF GetKey, GetDialogClose
<1>7. CASE GetFrameClose
  BY <1>4, <1>5, <1>7 DEF GetFrameClose
<1>8. CASE Others
  <2>1. keys' = 0 /\ dialog' # "closing"
    BY <1>4, <1>8 DEF Others
  <2>2. ASSUME NEW a \in Step("post"), Opens(a, c), Passed(a)'
        PROVE  dialog' = "open" \/ frame' # "open"
    <3>1. CASE Passed(a)
      <4>1. dialog = "open" \/ frame # "open"
        BY <1>4, <2>2, <3>1
      <4>2. (dialog = "open" => dialog' = "open") /\ (frame # "open" => frame' # "open")
        BY <1>8 DEF Others
      <4> QED
        BY <4>1, <4>2
    <3>2. CASE handling = Script[a].msg
      <4>1. handling.cmd = "about"
        BY <2>2, <3>2 DEF Opens
      <4>2. dialog \in {"none", "open"}
        BY <1>4 DEF PlaceInv, TesterTypeOK
      <4> QED
        BY <1>8, <4>1, <4>2 DEF Others
    <3> QED
      BY <2>2, <3>1, <3>2, PassedBefore
  <2> QED
    BY <1>5, <2>1, <2>2
<1>9. CASE Execute /\ ~UNCHANGED uiVars
  <2>1. stage = "execute" /\ handling.cmd \in {"close", "key"}
    BY <1>9 DEF Execute
  <2>2. PICK h \in Step("post") :
           /\ Script[h].msg = handling
           /\ InToDo(h)
           /\ h <= step
           /\ (TestRuns => Sent(h))
           /\ \A p \in Step("post") :
                Has(posted, Script[p].msg) \/ Has(Arrived, Script[p].msg) => h < p
    <3>1. handling.cmd \in Commands
      BY <2>1 DEF Commands
    <3> QED
      BY <2>1, <3>1, ExecutedPost
  <2>3. h \in Nat /\ c \in Nat /\ Script[c].msg.cmd \in Commands /\ \A a \in Step("post") : a \in Nat
    BY <1>1, PostIs
  <2>4. h < c
    <3>1. CASE InToDo(c)'
      <4>1. Has(ToDo', Script[c].msg)
        BY <1>1, <3>1 DEF InToDo
      <4>2. Has(posted, Script[c].msg) \/ Has(Arrived, Script[c].msg)
        BY <1>9, <2>3, <4>1, ToDoShrinks
      <4> QED
        BY <2>2, <4>2
    <3>2. CASE TestRuns' /\ c >= step' /\ ~Sent(c)'
      <4>1. TestRuns /\ c >= step /\ ~Sent(c)
        BY <3>2, SentGrows
      <4>2. Sent(h) /\ h # c
        BY <2>2, <4>1
      <4> QED
        BY <1>1, <2>2, <2>3, <4>1, <4>2
    <3> QED
      BY <1>2, <3>1, <3>2 DEF Comes
  <2>5. CASE handling.cmd = "key"
    BY <1>2, <2>2, <2>4, <2>5 DEF DialogFirst, Closing
  <2>6. CASE handling.cmd = "close"
    <3>1. ASSUME NEW a \in Step("post"), Opens(a, c), Passed(a)' PROVE FALSE
      <4>1. ~Others
        BY <2>1 DEF Others
      <4>2. Passed(a)
        BY <3>1, <4>1, PassedBefore
      <4>3. Sent(a) /\ ~InToDo(a) /\ Script[a].msg # handling
        BY <2>1, <4>2 DEF Passed
      <4>4. a # h
        BY <2>2, <4>3
      <4>5. ~(a < h)
        BY <2>2, <2>4, <2>6, <3>1 DEF Opens
      <4>6. h < a
        BY <2>3, <4>4, <4>5
      <4> QED
        BY <2>2, <4>3, <4>6 DEF ToDoInOrder
    <3>2. UNCHANGED keys
      BY <1>9, <2>6 DEF Execute
    <3>3. dialog' = "none" \/ dialog' = dialog
      BY <1>9, <2>6 DEF Execute
    <3> QED
      BY <1>4, <1>5, <3>1, <3>2, <3>3
  <2> QED
    BY <2>1, <2>5, <2>6
<1>10. CASE UNCHANGED uiVars /\ ~Others
  BY <1>4, <1>5, <1>10, PassedBefore
<1>11. CASE ~(\/ GetKey \/ GetDialogClose \/ GetFrameClose \/ Others \/ Execute)
  <2>1. UNCHANGED uiVars
    BY <1>11 DEF TestNext, TestMain, TestReader, AppReader, AppDispatch, TestWrites,
       TestFlushes, TestWakes, TestTakes, TestDisconnects, TestJoins, TestReaderWaits,
       TestReaderReads, TestReaderEnds, TestReaderAppends, TestFails, AppReaderWaits,
       AppReaderPosts, AppReaderEnds, AppReaderReads, DispatchPosted, AppWrites,
       AppFlushes, LoopEnds, Fini, AppFails, Noise, Minute
  <2> QED
    BY <1>10, <1>11, <2>1
<1> QED
  BY <1>6, <1>7, <1>8, <1>9, <1>10, <1>11

LEMMA DialogStays ==
  ASSUME PlaceInv, PlaceInv', NoErrorInv, DownInv, DownInv', LineInv, CameInv,
         DialogInv, TestNext
  PROVE  DialogInv'
<1>1. /\ script' = script
      /\ script \in Scripts
      /\ Script' = Script
      /\ Step("post")' = Step("post")
      /\ (Paired' <=> Paired) /\ (DialogFirst' <=> DialogFirst) /\ Len(Script) \in Nat
  BY ScriptStays, ScriptIs DEF TestNext, PlaceInv, TesterTypeOK
<1>2. DialogInv' <=> (Paired' /\ DialogFirst' => DialogIs')
  BY DialogInvIs, PTL
<1>3. SUFFICES ASSUME Paired, DialogFirst, DialogIs PROVE DialogIs'
  BY <1>1, <1>2, DialogInvIs
<1>4. CloseReachesDialog'
  BY <1>3, CloseStays
<1>5. CASE ~Connected'
  <2>1. NothingPosted'
    BY <1>3, <1>5, NothingStays DEF DialogIs
  <2>2. \A p \in Step("post") : ~InToDo(p)'
    BY <1>1, <2>1 DEF NothingPosted
  <2>3. ToDoInOrder'
    BY <1>1, <2>2 DEF ToDoInOrder
  <2>4. \A p \in Step("post") : ~Comes(p)'
    <3>1. step' = Len(Script) + 1
      BY <1>1, <1>5 DEF PlaceInv
    <3>2. \A p \in Step("post") : ~(p >= step')
      BY <1>1, <3>1, PostIs
    <3> QED
      BY <2>2, <3>2 DEF Comes
  <2>5. DialogWaitsForClose'
    BY <1>1, <2>4 DEF DialogWaitsForClose
  <2> QED
    BY <1>4, <2>1, <2>3, <2>5 DEF DialogIs
<1>6. CASE Connected'
  <2>1. Connected
    <3>1. ~TestDisconnects
      BY <1>6 DEF TestDisconnects, Connected
    <3> QED
      BY <1>6, <3>1, OneStep DEF Connected
  <2>2. InLine
    BY <1>3, <2>1 DEF LineInv, InLine
  <2>3. ToDoInOrder'
    BY <1>3, <1>6, <2>1, <2>2, OrderStays DEF DialogIs
  <2>4. DialogWaitsForClose'
    BY <1>3, <1>6, <2>1, <2>2, WaitsStays DEF DialogIs
  <2> QED
    BY <1>4, <1>6, <2>3, <2>4 DEF DialogIs
<1> QED
  BY <1>5, <1>6

(* Every step of the two processes keeps the invariant.                    *)
LEMMA TestGoesOn == TestInv /\ [TestNext]_testerVars => TestInv'
<1> SUFFICES ASSUME TestInv, [TestNext]_testerVars PROVE TestInv'
  OBVIOUS
<1> USE DEF TestInv
<1>1. CASE TestNext
  <2>1. PlaceInv'
    BY <1>1, PlaceStays
  <2>2. NoErrorInv'
    BY <1>1, <2>1, NoErrorStays
  <2>3. DownInv'
    BY <1>1, <2>1, DownStays
  <2>4. UpInv'
    BY <1>1, <2>1, UpStays
  <2>5. LineInv'
    BY <1>1, <2>1, <2>3, LineStays
  <2>6. CameInv'
    BY <1>1, <2>1, CameStays
  <2>7. CompleteInv'
    BY <1>1, <2>1, <2>3, CompleteStays
  <2>8. DialogInv'
    BY <1>1, <2>1, <2>3, DialogStays
  <2>9. (Paired /\ Room => OwnAnswers)'
    BY <1>1, <2>1, AnswersStay
  <2> HIDE DEF TestInv
  <2> QED
    BY <2>1, <2>2, <2>3, <2>4, <2>5, <2>6, <2>7, <2>8, <2>9 DEF TestInv
<1>2. CASE UNCHANGED testerVars
  <2> HIDE DEF TestInv
  <2>1. /\ UNCHANGED <<script, pipe, down, up, step, testMain, testRead, history, event, answers>>
        /\ UNCHANGED <<appRead, posted, handling, stage, dialog, keys, frame, app, noise, minutes>>
    BY <1>2 DEF testerVars, testVars, dispatchVars, uiVars
  <2>2. /\ Script' = Script /\ Messages' = Messages
        /\ Step("post")' = Step("post") /\ Step("wait")' = Step("wait")
        /\ \A w, p : Awaits(w, p)' <=> Awaits(w, p)
        /\ \A m, n : Older(m, n)' <=> Older(m, n)
        /\ (Paired' <=> Paired) /\ (Room' <=> Room) /\ (DialogFirst' <=> DialogFirst)
    BY <2>1, ScriptStays
  <2>3. /\ Line' = Line
        /\ ToDo' = ToDo
        /\ (Connected' <=> Connected)
        /\ (TestRuns' <=> TestRuns)
        /\ (AppRuns' <=> AppRuns) /\ (Posting' <=> Posting) /\ Current' = Current
        /\ \A p : Sent(p)' <=> Sent(p)
    BY <2>1, <2>2 DEF Line, ToDo, Back, InHand, Ahead, Got, Unsent, ToExecute,
       Connected, TestRuns, AppRuns, Posting, Current, Sent, SentAt
  <2>4. PlaceInv' <=> PlaceInv
    BY <2>1, <2>2, <2>3 DEF PlaceInv, TesterTypeOK, ReaderOK
  <2>5. NoErrorInv' <=> NoErrorInv
    BY <2>1, <2>3 DEF NoErrorInv
  <2>6. DownInv' <=> DownInv
    BY <2>1, <2>3 DEF DownInv, AtRest, Partly, Str
  <2>7. UpInv' <=> UpInv
    BY <2>1, <2>3 DEF UpInv, HasRead, Handed, AtRest, Partly, Str
  <2>8. LineInv' <=> LineInv
    <3>1. \A m : Known(m)' <=> Known(m)
      BY <2>1, <2>2, <2>3 DEF Known
    <3>2. InOrder(Line)' <=> InOrder(Line)
      BY <2>1, <2>3, NextInOrder
    <3> QED
      BY <2>2, <2>3, <3>1, <3>2 DEF LineInv
  <2>9. CameInv' <=> CameInv
    BY <2>1, <2>2, <2>3 DEF CameInv
  <2>10. CompleteInv' <=> CompleteInv
    BY <2>1, <2>2, <2>3 DEF CompleteInv
  <2>11. DialogInv' <=> DialogInv
    <3>1. \A p : /\ InToDo(p)' <=> InToDo(p)
                 /\ Comes(p)' <=> Comes(p)
                 /\ Passed(p)' <=> Passed(p)
                 /\ Closing(p)' <=> Closing(p)
      BY <2>1, <2>2, <2>3 DEF InToDo, Comes, Passed, Closing
    <3>2. \A a, c : Opens(a, c)' <=> Opens(a, c)
      BY <2>2 DEF Opens
    <3>3. CloseReachesDialog' <=> CloseReachesDialog
      BY <2>1, <2>2 DEF CloseReachesDialog
    <3> QED
      BY <2>1, <2>2, <2>3, <3>1, <3>2, <3>3 DEF DialogInv
  <2>12. OwnAnswers' <=> OwnAnswers
    BY <2>1, <2>2 DEF OwnAnswers
  <2> QED
    BY <2>2, <2>4, <2>5, <2>6, <2>7, <2>8, <2>9, <2>10, <2>11, <2>12 DEF TestInv
<1> QED
  BY <1>1, <1>2

(* What is promised of the answers follows from the invariant.             *)
LEMMA TestKeepsPromise == TestInv => AnswersInOrder
<1> SUFFICES ASSUME TestInv PROVE AnswersInOrder
  OBVIOUS
<1>1. TesterTypeOK /\ TakeFindsHistory
  BY DEF TestInv, PlaceInv, TakeFindsHistory
<1>2. Paired /\ DialogFirst => CloseReachesDialog
  BY DEF TestInv, DialogInv
<1>3. minutes = 0 => NoErrorBeforeDisconnect
  BY DEF TestInv, NoErrorInv, NoErrorBeforeDisconnect, Connected
<1> QED
  BY <1>1, <1>2, <1>3 DEF TestInv, AnswersInOrder

(* For every script, every size of the history and any number of other     *)
(* broadcasts: if the script awaits each of its posts in their order and   *)
(* the history has room, each wait gets the answer to its own post; a      *)
(* WM_CLOSE sent to a dialog opened before finds it; and as long as the    *)
(* pipe is connected and was never silent for a minute, no error ends one  *)
(* of the two processes.                                                   *)
THEOREM AnswersMatch == TestSpec => []AnswersInOrder
BY TestBegins, TestGoesOn, TestKeepsPromise, PTL DEF TestSpec
=============================================================================
