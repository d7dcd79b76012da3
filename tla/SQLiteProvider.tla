--------------------------- MODULE SQLiteProvider ---------------------------
(***************************************************************************)
(* The data provider behind Database: the tables of a kolobok file, the    *)
(* prepared statements, and the operations made of them, one statement at  *)
(* a time (SQLiteProvider in src/kolobok/Database.cpp).                    *)
(*                                                                         *)
(* The worker thread runs one operation after the other, so nothing        *)
(* interleaves with an operation but a crash of the process and the locks  *)
(* other connections hold on the file.  What carries over from one call to *)
(* the next is the transaction and the state of each prepared statement:   *)
(* SQLite 3.2.8 reports the error of a statement's last run once more when *)
(* it is reset, and a statement that found the file locked stays active.   *)
(***************************************************************************)
EXTENDS Naturals, Sequences, FiniteSetsExt, Functions

CONSTANTS
  Guids,    \* images
  NoGuid,   \* a null guid
  Values,   \* how many values the metadata of an image has
  Worlds,   \* the circumstances a behaviour may meet
  MaxId,    \* bound on media ids
  MaxStack  \* bound on the ids of the stack's rows

Operations == {"add", "get", "getFilename", "remove", "updateThumbnail",
               "updateMetadata", "updateInvalid", "pushStackItem",
               "countStackItems", "removeStackItems", "bumpStackItems",
               "popStackItem"}

Reads  == {"GET", "MEDIA_ID", "GET_META", "GET_FILENAME", "STACK_COUNT",
           "STACK_GET"}
Writes == {"ADD", "ADD_META", "DEL", "DEL_META", "UPDATE_BLOB",
           "STACK_ADD", "STACK_REMOVE", "STACK_DELETE"}
Stmts  == Reads \union Writes

(* What differs from one behaviour to the next: the operations clients     *)
(* use; the statements, and "commit", that may find the file locked; and   *)
(* whether the process may die inside an operation.                        *)
ASSUME ProviderAssumption ==
  /\ NoGuid \notin Guids
  /\ Worlds \subseteq [ops : SUBSET Operations,
                       busy : SUBSET (Stmts \union {"commit"}),
                       crashes : BOOLEAN]
  /\ {Values, MaxId, MaxStack} \subseteq Nat

VARIABLES
  world,   \* the circumstances of this behaviour
  disk,    \* the tables as committed to the file
  work,    \* the tables as this connection sees them
  open,    \* a BEGIN is in effect
  stmt,    \* state of each prepared statement
  bound,   \* the guid bound to the statement ADD
  op,      \* the operation being run, "none" between calls
  args,    \* the guids it is called with
  todo,    \* the statements it has still to use, each with its guid
  rowid,   \* its local id / rowid
  e,       \* its local e: "ok" or "error"
  result   \* what the last operation returned

vars == <<world, disk, work, open, stmt, bound, op, args, todo, rowid, e,
          result>>

(* The tables: media maps a guid to its id (0: no row), meta has a row     *)
(* <<media_id, n, guid>> for the nth value read from that guid's file,     *)
(* thumb has the guids whose row has a thumbnail, stack the rows <<id,     *)
(* guid>> of one stack.                                                    *)
Tables == [media : [Guids -> Nat], meta : SUBSET (Nat \X Nat \X Guids),
           thumb : SUBSET Guids, stack : SUBSET (Nat \X Guids)]

EmptyTables == [media |-> [g \in Guids |-> 0], meta |-> {}, thumb |-> {},
                stack |-> {}]

(* The id INTEGER PRIMARY KEY of a new row is one more than the largest.   *)
MediaIds(w) == {w.media[g] : g \in Guids}
StackIds(w) == {r[1] : r \in w.stack}
Largest(ids) == Max(ids \union {0})
NewId(ids) == 1 + Largest(ids)

(* A statement is "fresh" (reset or just prepared), "halted" (ran to its   *)
(* end), "failed" (halted by an error) or "active" (stopped by a lock).    *)
(* Halted is as good as fresh where the next use begins with a reset; only *)
(* ADD is ever stepped without one.                                        *)
Ended(s) == IF s = "ADD" THEN "halted" ELSE "fresh"

Active == {s \in Stmts : stmt[s] = "active"}

(* Mutant: updateMetadata runs outside a transaction.                    *)
Bracketed_NoMetadata == {"add", "get", "pushStackItem", "popStackItem",
                         "removeStackItems", "bumpStackItems"}

Bracketed == {"add", "get", "updateMetadata", "updateInvalid",
              "pushStackItem", "popStackItem", "removeStackItems",
              "bumpStackItems"}

(* The statements of each operation in order, as far as nothing fails, for *)
(* the guids l.  updateInvalid is updateMetadata with a map whose second   *)
(* value is of an unsupported type.                                        *)
Each(s, l) == [i \in DOMAIN l |-> <<s, l[i]>>]
On(g, ss)  == [i \in DOMAIN ss |-> <<ss[i], g>>]

Program(o, l) ==
  CASE o = "add"              -> On(l[1], <<"ADD">>)
    [] o = "get"              -> On(l[1], <<"GET", "GET_META">>)
    [] o = "getFilename"      -> On(l[1], <<"GET_FILENAME">>)
    [] o = "remove"           -> On(l[1], <<"MEDIA_ID", "DEL", "DEL_META">>)
    [] o = "updateThumbnail"  -> On(l[1], <<"UPDATE_BLOB">>)
    [] o = "updateMetadata"   -> On(l[1], <<"MEDIA_ID", "DEL_META">>
                                            \o [n \in 1..Values |-> "ADD_META"])
    [] o = "updateInvalid"    -> On(l[1], <<"MEDIA_ID", "DEL_META", "ADD_META",
                                            "INVALID">>)
    [] o = "pushStackItem"    -> On(l[1], <<"STACK_ADD">>)
    [] o = "countStackItems"  -> On(l[1], <<"STACK_COUNT">>)
    [] o = "removeStackItems" -> Each("STACK_REMOVE", l)
    [] o = "bumpStackItems"   -> Each("STACK_REMOVE", l) \o Each("BUMP", l)
    [] o = "popStackItem"     -> On(l[1], <<"STACK_GET", "STACK_DELETE">>)

Arguments(o) ==
  {<<g>> : g \in Guids} \union
  IF o \in {"removeStackItems", "bumpStackItems"}
  THEN {l \in Guids \X Guids : l[1] # l[2]} ELSE {}

(* A new file, and the connection after open.                              *)
Init ==
  /\ world \in Worlds
  /\ disk = EmptyTables
  /\ work = EmptyTables
  /\ open = FALSE
  /\ stmt = [s \in Stmts |-> "fresh"]
  /\ bound = NoGuid
  /\ op = "none"
  /\ args = <<>>
  /\ todo = <<>>
  /\ rowid = 0
  /\ e = "ok"
  /\ result = "none"
-----------------------------------------------------------------------------
WithinBounds(o) ==
  /\ o \in {"add", "bumpStackItems"} => NewId(MediaIds(work)) <= MaxId
  /\ o = "pushStackItem" => NewId(StackIds(work)) <= MaxStack

(* An operation begins.  BEGIN fails inside a transaction.                 *)
Start(o, l) ==
  /\ op = "none"
  /\ WithinBounds(o)
  /\ op' = o
  /\ args' = l
  /\ rowid' = 0
  /\ IF o \in Bracketed /\ open
     THEN e' = "error" /\ todo' = <<>>
     ELSE e' = "ok" /\ todo' = Program(o, l)
  /\ open' = (open \/ o \in Bracketed)
  /\ UNCHANGED <<world, disk, work, stmt, bound, result>>

Using(s) == todo # <<>> /\ Head(todo)[1] = s
Guid == Head(todo)[2]
Becomes(s, state) == stmt' = [stmt EXCEPT ![s] = state]
Fail == e' = "error" /\ todo' = <<>>
Succeed == UNCHANGED e /\ todo' = Tail(todo)

(* sqlite3_reset(s) reports the error s ended with, if any.  Resetting the *)
(* last active statement outside a transaction rolls back what is pending. *)
ResetFails(s) ==
  /\ stmt[s] \in {"failed", "active"}
  /\ Becomes(s, "fresh")
  /\ work' = IF Active = {s} /\ ~open THEN disk ELSE work
  /\ Fail
  /\ UNCHANGED <<disk, bound, rowid>>

Resets(s) == stmt[s] \in {"fresh", "halted"}

(* sqlite3_step(s) finds the file locked by another connection.  A         *)
(* transaction that has written has the lock.  bumpStackItems ignores what *)
(* the step of STACK_REMOVE returns.                                       *)
StepIsBusy(s) ==
  /\ s \in world.busy
  /\ work = disk
  /\ Becomes(s, "active")
  /\ IF op = "bumpStackItems" /\ s = "STACK_REMOVE" THEN Succeed ELSE Fail
  /\ UNCHANGED <<disk, work, rowid>>

(* A statement that changes the tables to t.  With no transaction and no   *)
(* other active statement it commits itself, or finds the file locked.     *)
StepWrites(s, t) ==
  /\ work' = t
  /\ \/ /\ open \/ Active \ {s} # {}
        /\ Becomes(s, Ended(s))
        /\ Succeed
        /\ UNCHANGED disk
     \/ /\ ~open /\ Active \ {s} = {}
        /\ Becomes(s, Ended(s))
        /\ Succeed
        /\ disk' = t
     \/ /\ ~open /\ Active \ {s} = {}
        /\ "commit" \in world.busy
        /\ Becomes(s, "active")
        /\ Fail
        /\ UNCHANGED disk
  /\ UNCHANGED rowid

(* Has the query of s a row?                                               *)
HasRow(s) == CASE s \in {"GET", "MEDIA_ID", "GET_FILENAME"} -> work.media[Guid] # 0
               [] s = "STACK_GET"                            -> work.stack # {}
               [] s \in {"GET_META", "STACK_COUNT"}          -> TRUE

(* getRowid and the queries.  SQLITE_DONE in place of a row is an error,   *)
(* except that get, remove and updateMetadata leave out the next statement *)
(* and then take it for SQLITE_OK.                                         *)
Query(s) ==
  /\ Using(s)
  /\ \/ ResetFails(s)
     \/ Resets(s) /\ StepIsBusy(s) /\ UNCHANGED bound
     \/ /\ Resets(s)
        /\ Becomes(s, Ended(s))
        /\ IF HasRow(s) THEN Succeed
           ELSE IF s \in {"GET", "MEDIA_ID"}
           THEN UNCHANGED e /\ todo' = Tail(Tail(todo))
           ELSE Fail
        /\ rowid' = CASE s \in {"GET", "MEDIA_ID"} -> work.media[Guid]
                      [] s = "STACK_GET"           -> Largest(StackIds(work))
                      [] OTHER                     -> rowid
        /\ UNCHANGED <<disk, work, bound>>

(* Mutant: DEL_META deletes nothing.                                     *)
Written_KeepsMeta(s, w, n) ==
  CASE s = "DEL"          -> [w EXCEPT !.media[Guid] = 0, !.thumb = @ \ {Guid}]
    [] s = "DEL_META"     -> w
    [] s = "ADD_META"     -> [w EXCEPT !.meta = @ \union {<<rowid, n, Guid>>}]
    [] s = "UPDATE_BLOB"  -> [w EXCEPT !.thumb = @ \union
                                ({Guid} \ {g \in Guids : w.media[g] = 0})]
    [] s = "STACK_ADD"    -> [w EXCEPT !.stack = @ \union
                                {<<NewId(StackIds(w)), Guid>>}]
    [] s = "STACK_REMOVE" -> [w EXCEPT !.stack = {r \in @ : r[2] # Guid}]
    [] s = "STACK_DELETE" -> [w EXCEPT !.stack = {r \in @ : r[1] # rowid}]

(* What the writing statements do to the tables w; n tells one value of    *)
(* the metadata from the next, and rowid is the id of the row STACK_GET    *)
(* or getRowid found.                                                      *)
Written(s, w, n) ==
  CASE s = "DEL"          -> [w EXCEPT !.media[Guid] = 0, !.thumb = @ \ {Guid}]
    [] s = "DEL_META"     -> [w EXCEPT !.meta = {r \in @ : r[1] # rowid}]
    [] s = "ADD_META"     -> [w EXCEPT !.meta = @ \union {<<rowid, n, Guid>>}]
    [] s = "UPDATE_BLOB"  -> [w EXCEPT !.thumb = @ \union
                                ({Guid} \ {g \in Guids : w.media[g] = 0})]
    [] s = "STACK_ADD"    -> [w EXCEPT !.stack = @ \union
                                {<<NewId(StackIds(w)), Guid>>}]
    [] s = "STACK_REMOVE" -> [w EXCEPT !.stack = {r \in @ : r[2] # Guid}]
    [] s = "STACK_DELETE" -> [w EXCEPT !.stack = {r \in @ : r[1] # rowid}]

(* A writing statement other than ADD: reset, bind, step.                  *)
Write(s) ==
  /\ Using(s)
  /\ \/ ResetFails(s)
     \/ /\ Resets(s)
        /\ StepIsBusy(s) \/ StepWrites(s, Written(s, work, Len(todo)))
        /\ UNCHANGED bound

(* INSERT INTO media: the guid is NOT NULL and UNIQUE.                     *)
Insert(g) ==
  IF g # NoGuid /\ (g \in Guids => work.media[g] = 0)
  THEN StepWrites("ADD", [work EXCEPT !.media[g] = NewId(MediaIds(work))])
  ELSE /\ Becomes("ADD", "failed")
       /\ Fail
       /\ UNCHANGED <<disk, work, rowid>>

(* add binds its guid to ADD and steps it.                                 *)
WriteAdd ==
  /\ Using("ADD")
  /\ \/ ResetFails("ADD")
     \/ /\ Resets("ADD")
        /\ bound' = Guid
        /\ StepIsBusy("ADD") \/ Insert(Guid)

(* bumpStackItems resets and binds STACK_ADD, then steps ADD as add left   *)
(* it: a statement that is not reset is misuse, one that is inserts again. *)
WriteBump ==
  /\ Using("BUMP")
  /\ \/ ResetFails("STACK_ADD")
     \/ /\ Resets("STACK_ADD")
        /\ \/ /\ stmt["ADD"] \in {"halted", "failed"}
              /\ Fail
              /\ UNCHANGED <<disk, work, stmt, rowid>>
           \/ /\ stmt["ADD"] \in {"fresh", "active"}
              /\ StepIsBusy("ADD") \/ Insert(bound)
        /\ UNCHANGED bound

(* ROLLBACK fails outside a transaction, like COMMIT, and while a          *)
(* statement is active.                                                    *)
CanEnd == open /\ Active = {}

Rollback == IF CanEnd THEN work' = disk /\ open' = FALSE
                      ELSE UNCHANGED <<work, open>>

(* updateMetadata meets a value it cannot store.                           *)
RejectValue ==
  /\ Using("INVALID")
  /\ Fail
  /\ Rollback
  /\ UNCHANGED <<disk, stmt, bound, rowid>>

Returns(r) == op' = "none" /\ args' = <<>> /\ todo' = <<>> /\ rowid' = 0
              /\ e' = "ok" /\ result' = r

(* Mutant: what COMMIT returned is not looked at.                        *)
Commit_Unchecked ==
  /\ op \in Bracketed \ {"get"} /\ todo = <<>> /\ e = "ok"
  /\ \/ /\ CanEnd
        /\ disk' = work
        /\ open' = FALSE
        /\ Returns("ok")
     \/ /\ ~CanEnd \/ ("commit" \in world.busy /\ work # disk)
        /\ UNCHANGED <<disk, open>>
        /\ Returns("ok")
  /\ UNCHANGED <<world, work, stmt, bound>>

(* COMMIT ends the operation; it may find the file locked.                 *)
Commit ==
  /\ op \in Bracketed \ {"get"} /\ todo = <<>> /\ e = "ok"
  /\ \/ /\ CanEnd
        /\ disk' = work
        /\ open' = FALSE
        /\ Returns("ok")
     \/ /\ ~CanEnd \/ ("commit" \in world.busy /\ work # disk)
        /\ UNCHANGED <<disk, open>>
        /\ Returns("error")
  /\ UNCHANGED <<world, work, stmt, bound>>

(* Mutant: a failed operation does not roll back.                        *)
Abort_NoRollback ==
  /\ op \in Bracketed /\ todo = <<>>
  /\ e = "error" \/ op = "get"
  /\ Returns(e)
  /\ UNCHANGED <<world, disk, work, open, stmt, bound>>

(* ROLLBACK does.  All but add and get then return what it returned.       *)
Abort ==
  /\ op \in Bracketed /\ todo = <<>>
  /\ e = "error" \/ op = "get"
  /\ Rollback
  /\ Returns(IF op \in {"add", "get"} THEN e
             ELSE IF CanEnd THEN "ok" ELSE "error")
  /\ UNCHANGED <<world, disk, stmt, bound>>

(* An operation without a transaction of its own returns.                  *)
Return ==
  /\ op \notin Bracketed \union {"none"} /\ todo = <<>>
  /\ Returns(e)
  /\ UNCHANGED <<world, disk, work, open, stmt, bound>>

(* The connection is closed between calls, or the process dies, and the    *)
(* file is opened again.                                                   *)
Reopen ==
  /\ op = "none" \/ world.crashes
  /\ UNCHANGED <<world, disk>>
  /\ work' = disk
  /\ open' = FALSE
  /\ stmt' = [s \in Stmts |-> "fresh"]
  /\ bound' = NoGuid
  /\ Returns("none")

Use == /\ \/ \E s \in Reads : Query(s)
          \/ \E s \in Writes \ {"ADD"} : Write(s)
          \/ WriteAdd
          \/ WriteBump
       /\ UNCHANGED <<world, op, args, open, result>>

Reject == RejectValue /\ UNCHANGED <<world, op, args, result>>

Next == \/ \E o \in world.ops : \E l \in Arguments(o) : Start(o, l)
        \/ Use
        \/ Reject
        \/ Commit
        \/ Abort
        \/ Return
        \/ Reopen

Spec == Init /\ [][Next]_vars
-----------------------------------------------------------------------------
Bounded(S) == \E n \in Nat : \A x \in S : x <= n

TableOK(t) == t \in Tables /\ Bounded(MediaIds(t)) /\ Bounded(StackIds(t))

(* Types; of the ids in use one is the largest.                            *)
TypeOK ==
  /\ world \in Worlds
  /\ TableOK(disk) /\ TableOK(work)
  /\ open \in BOOLEAN
  /\ stmt \in [Stmts -> {"fresh", "halted", "failed", "active"}]
  /\ bound \in Guids \union {NoGuid}
  /\ op \in world.ops \union {"none"}
  /\ args \in Seq(Guids)
  /\ rowid \in Nat
  /\ e \in {"ok", "error"} /\ result \in {"none", "ok", "error"}

NoLocks == world.busy = {}

(* When no lock is met, every operation, bumpStackItems included, ends the *)
(* transaction it began and leaves no statement active and nothing         *)
(* uncommitted, whichever of its statements failed.                        *)
IdleIsClean == NoLocks /\ op = "none" => ~open /\ Active = {} /\ work = disk

(* remove deletes the image and its metadata by statements of their own.   *)
(* Where it is cut short by nothing, a stored value of the metadata        *)
(* belongs to the image it was read from, although ids are used again.     *)
RemoveIsWhole == "remove" \in world.ops => NoLocks /\ ~world.crashes

MetadataBelongs ==
  RemoveIsWhole /\ op = "none"
    => \A r \in disk.meta : r[1] # 0 => disk.media[r[3]] = r[1]

(* Each operation but bumpStackItems, and a remove cut short, happens at   *)
(* once or not at all, and what it reports is what MediaStore promises,    *)
(* whatever statement fails, finds the file locked or is cut off by the    *)
(* death of the process.                                                   *)
Store == INSTANCE MediaStore WITH
  Ops <- Operations,
  orderly <- NoLocks,
  db <- [media |-> {g \in Guids : disk.media[g] # 0},
         info  |-> [g \in Guids |->
                     {<<r[3], r[2]>> : r \in {r \in disk.meta :
                        disk.media[g] # 0 /\ r[1] = disk.media[g]}}],
         thumb |-> disk.thumb,
         stack |-> disk.stack]

StoreIsAtomic ==
  [][RemoveIsWhole /\ "bumpStackItems" \notin world.ops
       => [Store!Next]_Store!svars]_vars

(* An image whose import was reported as done is in the file, whatever     *)
(* bumpStackItems did with the statement ADD, a lock or an earlier failure *)
(* left behind.                                                            *)
AddIsTruthful ==
  [][op = "add" /\ op' = "none" /\ result' = "ok"
       => disk'.media[args[1]] # 0]_vars

(* "moves items to the queue front" (Database.h:37).  pop takes the row    *)
(* with the largest id, so after a bump of rows of the stack that reports  *)
(* success these rows are the ones with the largest ids.                   *)
BumpMovesToFront ==
  [][op = "bumpStackItems" /\ op' = "none" /\ result' = "ok"
     /\ Range(args) \subseteq {r[2] : r \in disk.stack}
       => \A r, s \in disk'.stack :
            r[2] \in Range(args) /\ s[2] \notin Range(args) => s[1] < r[1]]_vars
=============================================================================
