----------------------------- MODULE MediaStore -----------------------------
(***************************************************************************)
(* What the data provider promises the Database: a table of images, their  *)
(* metadata and thumbnails, and a stack of images to process.  An          *)
(* operation takes effect at once or not at all.  While no lock is met     *)
(* every operation reports success only when it took effect; with locks    *)
(* add does (IDataProvider in src/kolobok/Database.h).                     *)
(***************************************************************************)
EXTENDS Naturals, FiniteSetsExt, Functions, Sequences

CONSTANTS Guids, Values, Ops

VARIABLES
  orderly, \* no lock is met
  db,      \* the stored images, their metadata and thumbnails, and the rows
           \* <<age, image>> of the stack
  op,      \* the operation being run, "none" between calls
  args,    \* the images it is called with
  result   \* what the last operation returned

svars == <<orderly, db, op, args, result>>

Truthful == IF orderly THEN Ops ELSE {"add"}

Init ==
  /\ orderly \in BOOLEAN
  /\ db = [media |-> {}, info |-> [g \in Guids |-> {}], thumb |-> {},
           stack |-> {}]
  /\ op = "none"
  /\ args = <<>>
  /\ result = "none"

(* The age of the newest row, 0 in an empty stack.                         *)
Newest(s) == Max({r[1] : r \in s} \union {0})

Effect(o, l, d) ==
  LET g == l[1] IN
  CASE o = "add"              -> [d EXCEPT !.media = @ \union {g}]
    [] o = "remove"           -> [d EXCEPT !.media = @ \ {g}, !.info[g] = {},
                                           !.thumb = @ \ {g}]
    [] o = "updateThumbnail"  -> [d EXCEPT !.thumb = @ \union ({g} \cap d.media)]
    [] o = "updateMetadata"   -> IF g \in d.media
                                 THEN [d EXCEPT !.info[g] = {g} \X (1..Values)]
                                 ELSE d
    [] o = "pushStackItem"    -> [d EXCEPT !.stack =
                                    @ \union {<<Newest(@) + 1, g>>}]
    [] o = "removeStackItems" -> [d EXCEPT !.stack =
                                    {r \in @ : r[2] \notin Range(l)}]
    [] o = "popStackItem"     -> [d EXCEPT !.stack =
                                    {r \in @ : r[1] # Newest(d.stack)}]
    [] OTHER                  -> d

Begin ==
  /\ op = "none"
  /\ op' \in Ops
  /\ args' \in Seq(Guids)
  /\ UNCHANGED <<db, result>>

(* Deleting an image and storing a thumbnail may come before the return.   *)
TakeEffect ==
  /\ op \in {"remove", "updateThumbnail"}
  /\ db' = Effect(op, args, db)
  /\ UNCHANGED <<op, args, result>>

Return ==
  /\ op # "none"
  /\ op' = "none"
  /\ args' = <<>>
  /\ db' \in {db, Effect(op, args, db)}
  /\ result' \in {"ok", "error"}
  /\ op \in Truthful => ((result' = "ok") => (db' = Effect(op, args, db)))

Reopen ==
  /\ op' = "none"
  /\ args' = <<>>
  /\ result' = "none"
  /\ UNCHANGED db

Next == /\ UNCHANGED orderly
        /\ \/ Begin
           \/ TakeEffect
           \/ Return
           \/ Reopen

Spec == Init /\ [][Next]_svars
=============================================================================
